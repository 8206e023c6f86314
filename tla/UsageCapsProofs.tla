--------------------------- MODULE UsageCapsProofs --------------------------
(***************************************************************************)
(* Proofs about UsageCaps: its type invariant, that the transactions of    *)
(* recordUsage implement the one-step additions of TokenLedger, that what  *)
(* is charged is what the requests used, each once, and that the decisions *)
(* of checkAllowance are right in both directions.                         *)
(*                                                                         *)
(* The invariant behind the second: a transaction that has written a       *)
(* rollup holds its row, and what it wrote is what is committed there plus *)
(* its own tokens.  Another transaction that commits holds another row, so *)
(* it does not change what is committed under the first.                   *)
(***************************************************************************)
EXTENDS UsageCaps, FiniteSetTheorems, TLAPS

\* What a transaction wrote stands on what is committed in the row it holds.
WrittenDaily(r) ==
  req[r].pc \in {"monthly", "commit"} =>
    /\ dailyRow[req[r].tenant][req[r].on] = r
    /\ req[r].newDaily = daily[req[r].tenant][req[r].on] + req[r].tokens

WrittenMonthly(r) ==
  req[r].pc = "commit" =>
    /\ monthlyRow[req[r].tenant][MonthOf(req[r].on)] = r
    /\ req[r].newMonthly = monthly[req[r].tenant][MonthOf(req[r].on)] + req[r].tokens

ToRecord(r) == req[r].pc \in {"connect"} \cup Writing => req[r].tokens \in Usages

Inv ==
  /\ TypeOK
  /\ \A r \in Requests : WrittenDaily(r) /\ WrittenMonthly(r) /\ ToRecord(r)

-----------------------------------------------------------------------------
\* The day's month is a month.
LEMMA MonthOfDay == \A d \in Days : MonthOf(d) \in Months
  BY DEF Months

\* Freeing rows keeps their type.
LEMMA FreeType ==
  ASSUME NEW K, NEW row \in [Tenants -> [K -> Requests \cup {Nobody}]], NEW r \in Requests
  PROVE  Free(row, r) \in [Tenants -> [K -> Requests \cup {Nobody}]]
  BY DEF Free

\* The end of r's transaction leaves the rows that another one holds.
LEMMA ReleaseOthers ==
  ASSUME TypeOK, NEW r \in Requests, NEW s \in Requests \ {r}, Release(r), NEW t \in Tenants
  PROVE  /\ \A d \in Days : dailyRow[t][d] = s => dailyRow'[t][d] = s
         /\ \A m \in Months : monthlyRow[t][m] = s => monthlyRow'[t][m] = s
<1>1. /\ dailyRow' = Free(dailyRow, r) /\ DOMAIN dailyRow = Tenants /\ DOMAIN dailyRow[t] = Days
      /\ monthlyRow' = Free(monthlyRow, r) /\ DOMAIN monthlyRow = Tenants
      /\ DOMAIN monthlyRow[t] = Months
  BY DEF Release, TypeOK
<1>. QED  BY <1>1 DEF Free

\* The initial states have the invariant.
LEMMA InitInv == Init => Inv
<1>. SUFFICES ASSUME Init PROVE Inv
  OBVIOUS
<1>1. 0 \in Days
  BY NumbersAssumption DEF Days
<1>2. caps \in [Tenants -> Caps]
  BY DEF Init, Caps, NoCaps
<1>3. events \in Seq(Usage)
  BY DEF Init
<1>4. req \in [Requests -> Request] /\ \A r \in Requests : req[r].pc = "off"
  <2>1. ASSUME NEW r \in Requests PROVE req[r] \in Request /\ req[r].pc = "off"
    <3>1. PICK t \in Tenants :
            req[r] = [pc |-> "off", tenant |-> t, est |-> 0, day |-> 0, events |-> 0,
                      todo |-> {}, caps |-> NoCaps, usedDaily |-> 0, usedMonthly |-> 0,
                      tokens |-> 0, on |-> 0, newDaily |-> 0, newMonthly |-> 0]
      BY DEF Init
    <3>2. NoCaps \in Caps
      BY DEF Caps, NoCaps
    <3>. QED  BY <1>1, <3>1, <3>2 DEF Request, Pcs
  <2>2. req = [r \in Requests |-> req[r]]
    BY DEF Init
  <2>. QED  BY <2>1, <2>2
<1>5. TypeOK
  BY <1>1, <1>2, <1>3, <1>4, NumbersAssumption DEF Init, TypeOK
<1>. QED  BY <1>4, <1>5 DEF Inv, WrittenDaily, WrittenMonthly, ToRecord, Writing

-----------------------------------------------------------------------------
\* What the type of a request says of its fields.
LEMMA FieldTypes ==
  ASSUME TypeOK, NEW r \in Requests
  PROVE  /\ req[r] \in Request
         /\ req[r].tenant \in Tenants /\ req[r].tokens \in Nat
         /\ req[r].day \in Days /\ MonthOf(req[r].day) \in Months
         /\ req[r].on \in Days /\ MonthOf(req[r].on) \in Months
<1>1. req[r] \in Request
  BY DEF TypeOK
<1>2. /\ req[r].tenant \in Tenants /\ req[r].day \in Days /\ req[r].on \in Days
      /\ req[r].tokens \in Usages \cup {0}
  BY <1>1 DEF Request
<1>3. \A n \in Usages \cup {0} : n \in Nat
  <2>1. Usages \subseteq Nat
    BY NumbersAssumption
  <2>. QED  BY <2>1
<1>4. req[r].tokens \in Nat
  BY <1>2, <1>3
<1>. QED  BY <1>1, <1>2, <1>4, MonthOfDay

\* A step that only changes one request, to another request, keeps the types.
LEMMA RequestStep ==
  ASSUME TypeOK, NEW r \in Requests, NEW q \in Request,
         req' = [req EXCEPT ![r] = q], UNCHANGED <<today, caps, capChanges, usage, rows>>
  PROVE  TypeOK'
  BY DEF TypeOK, usage, rows

\* A step keeps the types.
LEMMA TypeStep == TypeOK /\ (\A r \in Requests : ToRecord(r)) /\ [Next]_vars => TypeOK'
<1>. SUFFICES ASSUME TypeOK, \A r \in Requests : ToRecord(r), [Next]_vars PROVE TypeOK'
  OBVIOUS
<1>1. ASSUME NEW r \in Requests, Start(r) PROVE TypeOK'
  <2>1. req[r] \in Request
    BY FieldTypes
  <2>2. PICK e \in Estimates :
          req' = [req EXCEPT ![r] = [@ EXCEPT !.pc = "check", !.est = e, !.day = today,
                                              !.events = Len(events),
                                              !.todo = {"caps", "daily", "monthly"}]]
    BY <1>1 DEF Start
  <2>3. today \in Days /\ events \in Seq(Usage) /\ Len(events) \in Nat
    BY DEF TypeOK
  <2>4. req'[r] \in Request /\ req' = [req EXCEPT ![r] = req'[r]]
    BY <2>1, <2>2, <2>3 DEF TypeOK, Request, Pcs, Writing
  <2>. QED  BY <1>1, <2>4, RequestStep DEF Start
<1>2. ASSUME NEW r \in Requests, ReadCaps(r) PROVE TypeOK'
  <2>1. req[r] \in Request
    BY FieldTypes
  <2>2. req' = [req EXCEPT ![r] = [@ EXCEPT !.todo = req[r].todo \ {"caps"},
                                           !.caps = caps[req[r].tenant]]]
    BY <1>2 DEF ReadCaps
  <2>3. caps[req[r].tenant] \in Caps
    BY FieldTypes DEF TypeOK
  <2>4. req'[r] \in Request /\ req' = [req EXCEPT ![r] = req'[r]]
    BY <2>1, <2>2, <2>3 DEF TypeOK, Request, Pcs, Writing
  <2>. QED  BY <1>2, <2>4, RequestStep DEF ReadCaps
<1>3. ASSUME NEW r \in Requests, ReadDaily(r) PROVE TypeOK'
  <2>1. req[r] \in Request
    BY FieldTypes
  <2>2. req' = [req EXCEPT ![r] = [@ EXCEPT !.todo = req[r].todo \ {"daily"},
                          !.usedDaily = daily[req[r].tenant][req[r].day]]]
    BY <1>3 DEF ReadDaily
  <2>3. daily[req[r].tenant][req[r].day] \in Nat
    BY FieldTypes DEF TypeOK
  <2>4. req'[r] \in Request /\ req' = [req EXCEPT ![r] = req'[r]]
    BY <2>1, <2>2, <2>3 DEF TypeOK, Request, Pcs, Writing
  <2>. QED  BY <1>3, <2>4, RequestStep DEF ReadDaily
<1>4. ASSUME NEW r \in Requests, ReadMonthly(r) PROVE TypeOK'
  <2>1. req[r] \in Request
    BY FieldTypes
  <2>2. req' = [req EXCEPT ![r] = [@ EXCEPT !.todo = req[r].todo \ {"monthly"},
                          !.usedMonthly = monthly[req[r].tenant][MonthOf(req[r].day)]]]
    BY <1>4 DEF ReadMonthly
  <2>3. monthly[req[r].tenant][MonthOf(req[r].day)] \in Nat
    BY FieldTypes DEF TypeOK
  <2>4. req'[r] \in Request /\ req' = [req EXCEPT ![r] = req'[r]]
    BY <2>1, <2>2, <2>3 DEF TypeOK, Request, Pcs, Writing
  <2>. QED  BY <1>4, <2>4, RequestStep DEF ReadMonthly
<1>5. ASSUME NEW r \in Requests, Decide(r) PROVE TypeOK'
  <2>1. req[r] \in Request
    BY FieldTypes
  <2>2. req' = [req EXCEPT ![r] = [@ EXCEPT !.pc = IF Refused(r) THEN "refused" ELSE "stream"]]
    BY <1>5 DEF Decide, Goto
  <2>4. req'[r] \in Request /\ req' = [req EXCEPT ![r] = req'[r]]
    BY <2>1, <2>2 DEF TypeOK, Request, Pcs, Writing
  <2>. QED  BY <1>5, <2>4, RequestStep DEF Decide
<1>6. ASSUME NEW r \in Requests, EndStream(r) PROVE TypeOK'
  <2>1. req[r] \in Request
    BY FieldTypes
  <2>2. PICK n \in Usages :
        req' = [req EXCEPT ![r] = [@ EXCEPT !.pc = IF n = 0 THEN "done" ELSE "connect",
                                            !.tokens = n]]
    BY <1>6 DEF EndStream
  <2>4. req'[r] \in Request /\ req' = [req EXCEPT ![r] = req'[r]]
    BY <2>1, <2>2 DEF TypeOK, Request, Pcs, Writing
  <2>. QED  BY <1>6, <2>4, RequestStep DEF EndStream
<1>7. ASSUME NEW r \in Requests, Begin(r) PROVE TypeOK'
  <2>1. req[r] \in Request
    BY FieldTypes
  <2>2. req' = [req EXCEPT ![r] = [@ EXCEPT !.pc = "event", !.on = today]]
    BY <1>7 DEF Begin
  <2>3. today \in Days
    BY FieldTypes DEF TypeOK
  <2>4. req'[r] \in Request /\ req' = [req EXCEPT ![r] = req'[r]]
    BY <2>1, <2>2, <2>3 DEF TypeOK, Request, Pcs, Writing
  <2>. QED  BY <1>7, <2>4, RequestStep DEF Begin
<1>8. ASSUME NEW r \in Requests, InsertEvent(r) PROVE TypeOK'
  <2>1. req[r] \in Request
    BY FieldTypes
  <2>2. req' = [req EXCEPT ![r] = [@ EXCEPT !.pc = "daily"]]
    BY <1>8 DEF InsertEvent, Goto
  <2>4. req'[r] \in Request /\ req' = [req EXCEPT ![r] = req'[r]]
    BY <2>1, <2>2 DEF TypeOK, Request, Pcs, Writing
  <2>. QED  BY <1>8, <2>4, RequestStep DEF InsertEvent
<1>9. ASSUME NEW r \in Requests, Lose(r) PROVE TypeOK'
  <2>1. req[r] \in Request
    BY FieldTypes
  <2>2. req' = [req EXCEPT ![r] = [@ EXCEPT !.pc = "failed"]]
    BY <1>9 DEF Lose, Goto
  <2>4. req'[r] \in Request /\ req' = [req EXCEPT ![r] = req'[r]]
    BY <2>1, <2>2 DEF TypeOK, Request, Pcs, Writing
  <2>. QED  BY <1>9, <2>4, RequestStep DEF Lose
<1>10. ASSUME NEW r \in Requests, UpsertDaily(r) PROVE TypeOK'
  <2> DEFINE total == daily[req[r].tenant][req[r].on] + req[r].tokens
  <2>1. req[r] \in Request /\ total \in Nat
    BY FieldTypes DEF TypeOK
  <2>2. req' = [req EXCEPT ![r] = [@ EXCEPT !.pc = "monthly", !.newDaily = total]]
    BY <1>10 DEF UpsertDaily
  <2>3. [req[r] EXCEPT !.pc = "monthly", !.newDaily = total] \in Request
    BY <2>1 DEF Request, Pcs, Writing
  <2>4. req' \in [Requests -> Request]
    BY <2>2, <2>3 DEF TypeOK
  <2>5. dailyRow' \in [Tenants -> [Days -> Requests \cup {Nobody}]]
    BY <1>10, FieldTypes DEF UpsertDaily, TypeOK
  <2>. QED  BY <1>10, <2>4, <2>5 DEF UpsertDaily, usage, TypeOK
<1>11. ASSUME NEW r \in Requests, UpsertMonthly(r) PROVE TypeOK'
  <2> DEFINE total == monthly[req[r].tenant][MonthOf(req[r].on)] + req[r].tokens
  <2>1. req[r] \in Request /\ total \in Nat
    BY FieldTypes DEF TypeOK
  <2>2. req' = [req EXCEPT ![r] = [@ EXCEPT !.pc = "commit", !.newMonthly = total]]
    BY <1>11 DEF UpsertMonthly
  <2>3. [req[r] EXCEPT !.pc = "commit", !.newMonthly = total] \in Request
    BY <2>1 DEF Request, Pcs, Writing
  <2>4. req' \in [Requests -> Request]
    BY <2>2, <2>3 DEF TypeOK
  <2>5. monthlyRow' \in [Tenants -> [Months -> Requests \cup {Nobody}]]
    BY <1>11, FieldTypes DEF UpsertMonthly, TypeOK
  <2>. QED  BY <1>11, <2>4, <2>5 DEF UpsertMonthly, usage, TypeOK
<1>12. ASSUME NEW r \in Requests, Commit(r) PROVE TypeOK'
  <2>1. req[r] \in Request /\ req[r].tokens \in Usages
    BY <1>12, FieldTypes DEF Commit, ToRecord, Writing
  <2>2. PICK pc \in {"done", "failed"} : req' = [req EXCEPT ![r] = [@ EXCEPT !.pc = pc]]
    BY <1>12 DEF Commit, Goto
  <2>3. [req[r] EXCEPT !.pc = pc] \in Request
    BY <2>1 DEF Request, Pcs
  <2>4. req' \in [Requests -> Request]
    BY <2>2, <2>3 DEF TypeOK
  <2>5. req[r].newDaily \in Nat /\ req[r].newMonthly \in Nat
    BY <2>1 DEF Request
  <2>6. daily' \in [Tenants -> [Days -> Nat]] /\ monthly' \in [Tenants -> [Months -> Nat]]
    BY <1>12, <2>5, FieldTypes DEF Commit, TypeOK
  <2>7. events' \in Seq(Usage)
    <3>1. [tenant |-> req[r].tenant, day |-> req[r].on, tokens |-> req[r].tokens] \in Usage
      BY <2>1, FieldTypes DEF Usage
    <3>. QED  BY <1>12, <3>1 DEF Commit, TypeOK
  <2>8. /\ dailyRow' \in [Tenants -> [Days -> Requests \cup {Nobody}]]
        /\ monthlyRow' \in [Tenants -> [Months -> Requests \cup {Nobody}]]
    BY <1>12, FreeType DEF Commit, Release, TypeOK
  <2>. QED  BY <1>12, <2>4, <2>6, <2>7, <2>8 DEF Commit, TypeOK
<1>13. ASSUME NEW r \in Requests, Rollback(r) PROVE TypeOK'
  <2>1. req[r] \in Request
    BY FieldTypes
  <2>2. [req[r] EXCEPT !.pc = "failed"] \in Request
    BY <2>1 DEF Request, Pcs
  <2>3. req' \in [Requests -> Request]
    BY <1>13, <2>2 DEF Rollback, Goto, TypeOK
  <2>4. /\ dailyRow' \in [Tenants -> [Days -> Requests \cup {Nobody}]]
        /\ monthlyRow' \in [Tenants -> [Months -> Requests \cup {Nobody}]]
    BY <1>13, FreeType DEF Rollback, Release, TypeOK
  <2>. QED  BY <1>13, <2>3, <2>4 DEF Rollback, usage, TypeOK
<1>14. ASSUME NEW t \in Tenants, SetCaps(t) PROVE TypeOK'
  <2>1. caps' \in [Tenants -> Caps]
    BY <1>14 DEF SetCaps, Upserted, Caps, TypeOK
  <2>2. capChanges' \in 0..MaxCapChanges
    BY <1>14, NumbersAssumption DEF SetCaps, TypeOK
  <2>. QED  BY <1>14, <2>1, <2>2 DEF SetCaps, usage, rows, TypeOK
<1>15. CASE NextDay
  BY <1>15, NumbersAssumption DEF NextDay, usage, rows, Days, TypeOK
<1>16. CASE UNCHANGED vars
  BY <1>16 DEF vars, usage, rows, TypeOK
<1>. QED
  BY <1>1, <1>2, <1>3, <1>4, <1>5, <1>6, <1>7, <1>8, <1>9, <1>10, <1>11,
     <1>12, <1>13, <1>14, <1>15, <1>16
  DEF Next, HandlerStep, RecordStep

\* A step of r that leaves the tables and the rows alone, and after which r has
\* written nothing, keeps the invariant.
LEMMA QuietStep ==
  ASSUME Inv, TypeOK', NEW r \in Requests,
         UNCHANGED <<usage, rows>>,
         \A s \in Requests \ {r} : req'[s] = req[s],
         req'[r].pc \notin {"monthly", "commit"},
         ToRecord(r)'
  PROVE  Inv'
  BY DEF Inv, WrittenDaily, WrittenMonthly, ToRecord, usage, rows

\* A step keeps the invariant.
LEMMA NextInv == Inv /\ [Next]_vars => Inv'
<1>. SUFFICES ASSUME Inv, [Next]_vars PROVE Inv'
  OBVIOUS
<1>0. TypeOK'
  BY TypeStep DEF Inv
<1>. USE <1>0
<1>1. ASSUME NEW r \in Requests, Start(r) PROVE Inv'
  <2>1. /\ \A s \in Requests \ {r} : req'[s] = req[s]
        /\ req'[r].pc \notin {"monthly", "commit"}
        /\ ToRecord(r)'
    BY <1>1 DEF Start, Inv, TypeOK, Request, ToRecord, Writing
  <2>. QED  BY <1>1, <2>1, QuietStep DEF Start
<1>2. ASSUME NEW r \in Requests, ReadCaps(r) PROVE Inv'
  <2>1. /\ \A s \in Requests \ {r} : req'[s] = req[s]
        /\ req'[r].pc \notin {"monthly", "commit"}
        /\ ToRecord(r)'
    <3>1. req[r] \in Request /\ ToRecord(r)
      BY FieldTypes DEF Inv
    <3>2. /\ \A s \in Requests \ {r} : req'[s] = req[s]
          /\ req'[r].pc = "check"
          /\ req'[r].tokens = req[r].tokens
      BY <1>2, <3>1 DEF ReadCaps, Reads, Inv, TypeOK, Request
    <3>. QED  BY <3>1, <3>2 DEF ToRecord, Writing
  <2>. QED  BY <1>2, <2>1, QuietStep DEF ReadCaps
<1>3. ASSUME NEW r \in Requests, ReadDaily(r) PROVE Inv'
  <2>1. /\ \A s \in Requests \ {r} : req'[s] = req[s]
        /\ req'[r].pc \notin {"monthly", "commit"}
        /\ ToRecord(r)'
    <3>1. req[r] \in Request /\ ToRecord(r)
      BY FieldTypes DEF Inv
    <3>2. /\ \A s \in Requests \ {r} : req'[s] = req[s]
          /\ req'[r].pc = "check"
          /\ req'[r].tokens = req[r].tokens
      BY <1>3, <3>1 DEF ReadDaily, Reads, Inv, TypeOK, Request
    <3>. QED  BY <3>1, <3>2 DEF ToRecord, Writing
  <2>. QED  BY <1>3, <2>1, QuietStep DEF ReadDaily
<1>4. ASSUME NEW r \in Requests, ReadMonthly(r) PROVE Inv'
  <2>1. /\ \A s \in Requests \ {r} : req'[s] = req[s]
        /\ req'[r].pc \notin {"monthly", "commit"}
        /\ ToRecord(r)'
    <3>1. req[r] \in Request /\ ToRecord(r)
      BY FieldTypes DEF Inv
    <3>2. /\ \A s \in Requests \ {r} : req'[s] = req[s]
          /\ req'[r].pc = "check"
          /\ req'[r].tokens = req[r].tokens
      BY <1>4, <3>1 DEF ReadMonthly, Reads, Inv, TypeOK, Request
    <3>. QED  BY <3>1, <3>2 DEF ToRecord, Writing
  <2>. QED  BY <1>4, <2>1, QuietStep DEF ReadMonthly
<1>5. ASSUME NEW r \in Requests, Decide(r) PROVE Inv'
  <2>1. /\ \A s \in Requests \ {r} : req'[s] = req[s]
        /\ req'[r].pc \notin {"monthly", "commit"}
        /\ ToRecord(r)'
    BY <1>5 DEF Decide, Goto, Inv, TypeOK, Request, ToRecord, Writing
  <2>. QED  BY <1>5, <2>1, QuietStep DEF Decide
<1>6. ASSUME NEW r \in Requests, EndStream(r) PROVE Inv'
  <2>1. /\ \A s \in Requests \ {r} : req'[s] = req[s]
        /\ req'[r].pc \notin {"monthly", "commit"}
        /\ ToRecord(r)'
    BY <1>6 DEF EndStream, Inv, TypeOK, Request, ToRecord, Writing
  <2>. QED  BY <1>6, <2>1, QuietStep DEF EndStream
<1>7. ASSUME NEW r \in Requests, Begin(r) PROVE Inv'
  <2>1. /\ \A s \in Requests \ {r} : req'[s] = req[s]
        /\ req'[r].pc \notin {"monthly", "commit"}
        /\ ToRecord(r)'
    <3>1. req[r] \in Request /\ ToRecord(r)
      BY FieldTypes DEF Inv
    <3>2. /\ \A s \in Requests \ {r} : req'[s] = req[s]
          /\ req'[r].pc = "event" /\ req[r].pc = "connect"
          /\ req'[r].tokens = req[r].tokens
      BY <1>7, <3>1 DEF Begin, Inv, TypeOK, Request
    <3>. QED  BY <3>1, <3>2 DEF ToRecord, Writing
  <2>. QED  BY <1>7, <2>1, QuietStep DEF Begin
<1>8. ASSUME NEW r \in Requests, InsertEvent(r) PROVE Inv'
  <2>1. /\ \A s \in Requests \ {r} : req'[s] = req[s]
        /\ req'[r].pc \notin {"monthly", "commit"}
        /\ ToRecord(r)'
    BY <1>8 DEF InsertEvent, Goto, Inv, TypeOK, Request, ToRecord, Writing
  <2>. QED  BY <1>8, <2>1, QuietStep DEF InsertEvent
<1>9. ASSUME NEW r \in Requests, Lose(r) PROVE Inv'
  <2>1. /\ \A s \in Requests \ {r} : req'[s] = req[s]
        /\ req'[r].pc \notin {"monthly", "commit"}
        /\ ToRecord(r)'
    BY <1>9 DEF Lose, Goto, Inv, TypeOK, Request, ToRecord, Writing
  <2>. QED  BY <1>9, <2>1, QuietStep DEF Lose
<1>10. ASSUME NEW r \in Requests, UpsertDaily(r) PROVE Inv'
  <2>1. /\ \A s \in Requests \ {r} : req'[s] = req[s]
        /\ req'[r] = [req[r] EXCEPT !.pc = "monthly",
                         !.newDaily = daily[req[r].tenant][req[r].on] + req[r].tokens]
        /\ req[r] \in Request
    BY <1>10 DEF UpsertDaily, Inv, TypeOK
  <2>2. /\ req'[r].pc = "monthly" /\ req'[r].tenant = req[r].tenant /\ req'[r].on = req[r].on
        /\ req'[r].tokens = req[r].tokens
        /\ req'[r].newDaily = daily[req[r].tenant][req[r].on] + req[r].tokens
    BY <2>1 DEF Request
  <2>3. UNCHANGED <<usage, monthlyRow>> /\ dailyRow[req[r].tenant][req[r].on] = Nobody
    BY <1>10 DEF UpsertDaily
  <2>4. dailyRow'[req[r].tenant][req[r].on] = r
    BY <1>10, <2>1 DEF UpsertDaily, Inv, TypeOK, Request
  <2>5. ASSUME NEW s \in Requests \ {r}, WrittenDaily(s) PROVE WrittenDaily(s)'
    <3>1. CASE req[s].pc \in {"monthly", "commit"}
      <4>1. <<req[s].tenant, req[s].on>> # <<req[r].tenant, req[r].on>>
        BY <2>3, <2>5, <3>1, NamesAssumption DEF WrittenDaily
      <4>2. dailyRow'[req[s].tenant][req[s].on] = dailyRow[req[s].tenant][req[s].on]
        <5>1. /\ req[s].tenant \in Tenants /\ req[s].on \in Days
              /\ req[r].tenant \in Tenants /\ req[r].on \in Days
          BY FieldTypes DEF Inv
        <5>2. dailyRow' = [dailyRow EXCEPT ![req[r].tenant][req[r].on] = r]
          BY <1>10 DEF UpsertDaily
        <5>. QED  BY <4>1, <5>1, <5>2 DEF Inv, TypeOK
      <4>. QED  BY <2>1, <2>3, <2>5, <3>1, <4>2 DEF WrittenDaily, usage
    <3>. QED  BY <2>1, <3>1 DEF WrittenDaily
  <2>6. WrittenDaily(r)' /\ WrittenMonthly(r)' /\ ToRecord(r)'
    BY <1>10, <2>2, <2>3, <2>4 DEF UpsertDaily, WrittenDaily, WrittenMonthly, ToRecord, Inv, usage, Writing
  <2>7. \A s \in Requests \ {r} : WrittenMonthly(s)' /\ ToRecord(s)'
    BY <2>1, <2>3 DEF Inv, WrittenMonthly, ToRecord, usage
  <2>. QED  BY <2>5, <2>6, <2>7 DEF Inv
<1>11. ASSUME NEW r \in Requests, UpsertMonthly(r) PROVE Inv'
  <2> DEFINE m == MonthOf(req[r].on)
  <2>1. /\ \A s \in Requests \ {r} : req'[s] = req[s]
        /\ req'[r] = [req[r] EXCEPT !.pc = "commit",
                         !.newMonthly = monthly[req[r].tenant][m] + req[r].tokens]
        /\ req[r] \in Request
    BY <1>11 DEF UpsertMonthly, Inv, TypeOK
  <2>2. /\ req'[r].pc = "commit" /\ req'[r].tenant = req[r].tenant /\ req'[r].on = req[r].on
        /\ req'[r].tokens = req[r].tokens /\ req'[r].newDaily = req[r].newDaily
        /\ req'[r].newMonthly = monthly[req[r].tenant][m] + req[r].tokens
    BY <2>1 DEF Request
  <2>3. /\ UNCHANGED <<usage, dailyRow>> /\ monthlyRow[req[r].tenant][m] = Nobody
        /\ req[r].pc = "monthly"
    BY <1>11 DEF UpsertMonthly
  <2>4. monthlyRow'[req[r].tenant][m] = r
    BY <1>11, <2>1, MonthOfDay DEF UpsertMonthly, Inv, TypeOK, Request
  <2>5. ASSUME NEW s \in Requests \ {r}, WrittenMonthly(s) PROVE WrittenMonthly(s)'
    <3>1. CASE req[s].pc = "commit"
      <4>1. <<req[s].tenant, MonthOf(req[s].on)>> # <<req[r].tenant, m>>
        BY <2>3, <2>5, <3>1, NamesAssumption DEF WrittenMonthly
      <4>2. monthlyRow'[req[s].tenant][MonthOf(req[s].on)]
              = monthlyRow[req[s].tenant][MonthOf(req[s].on)]
        <5>1. req[s] \in Request /\ MonthOf(req[s].on) \in Months
          BY MonthOfDay DEF Inv, TypeOK, Request
        <5>2. monthlyRow' = [monthlyRow EXCEPT ![req[r].tenant][m] = r]
          BY <1>11 DEF UpsertMonthly
        <5>. QED  BY <2>1, <4>1, <5>1, <5>2 DEF Inv, TypeOK, Request
      <4>. QED  BY <2>1, <2>3, <2>5, <3>1, <4>2 DEF WrittenMonthly, usage
    <3>. QED  BY <2>1, <3>1 DEF WrittenMonthly
  <2>6. WrittenDaily(r)' /\ WrittenMonthly(r)' /\ ToRecord(r)'
    BY <2>2, <2>3, <2>4 DEF WrittenDaily, WrittenMonthly, ToRecord, Inv, usage, Writing
  <2>7. \A s \in Requests \ {r} : WrittenDaily(s)' /\ ToRecord(s)'
    BY <2>1, <2>3 DEF Inv, WrittenDaily, ToRecord, usage
  <2>. QED  BY <2>5, <2>6, <2>7 DEF Inv
<1>12. ASSUME NEW r \in Requests, Commit(r) PROVE Inv'
  <2>1. /\ \A s \in Requests \ {r} : req'[s] = req[s]
        /\ req'[r].pc \in {"done", "failed"}
        /\ req[r].pc = "commit"
    BY <1>12 DEF Commit, Goto, Inv, TypeOK, Request
  <2>2. WrittenDaily(r) /\ WrittenMonthly(r)
    BY DEF Inv
  <2>3. WrittenDaily(r)' /\ WrittenMonthly(r)' /\ ToRecord(r)'
    BY <2>1 DEF WrittenDaily, WrittenMonthly, ToRecord, Writing
  <2>4. ASSUME NEW s \in Requests \ {r} PROVE WrittenDaily(s)'
    <3>1. CASE req[s].pc \in {"monthly", "commit"}
      <4>1. dailyRow[req[s].tenant][req[s].on] = s
        BY <3>1 DEF Inv, WrittenDaily
      <4>2. /\ req[s] \in Request /\ req[r] \in Request
            /\ <<req[s].tenant, req[s].on>> # <<req[r].tenant, req[r].on>>
        BY <2>1, <2>2, <4>1 DEF WrittenDaily, Inv, TypeOK
      <4>3. daily'[req[s].tenant][req[s].on] = daily[req[s].tenant][req[s].on]
        BY <1>12, <4>2 DEF Commit, Inv, TypeOK, Request
      <4>4. dailyRow'[req[s].tenant][req[s].on] = s
        BY <1>12, <4>1, <4>2, ReleaseOthers DEF Commit, Inv, Request
      <4>. QED  BY <2>1, <3>1, <4>3, <4>4 DEF Inv, WrittenDaily
    <3>. QED  BY <2>1, <3>1 DEF WrittenDaily
  <2>5. ASSUME NEW s \in Requests \ {r} PROVE WrittenMonthly(s)'
    <3>1. CASE req[s].pc = "commit"
      <4>1. monthlyRow[req[s].tenant][MonthOf(req[s].on)] = s
        BY <3>1 DEF Inv, WrittenMonthly
      <4>2. /\ req[s] \in Request /\ req[r] \in Request
            /\ MonthOf(req[s].on) \in Months /\ MonthOf(req[r].on) \in Months
            /\ <<req[s].tenant, MonthOf(req[s].on)>> # <<req[r].tenant, MonthOf(req[r].on)>>
        BY <2>1, <2>2, <4>1, MonthOfDay DEF WrittenMonthly, Inv, TypeOK, Request
      <4>3. monthly'[req[s].tenant][MonthOf(req[s].on)] = monthly[req[s].tenant][MonthOf(req[s].on)]
        BY <1>12, <4>2 DEF Commit, Inv, TypeOK, Request
      <4>4. monthlyRow'[req[s].tenant][MonthOf(req[s].on)] = s
        BY <1>12, <4>1, <4>2, ReleaseOthers DEF Commit, Inv, Request
      <4>. QED  BY <2>1, <3>1, <4>3, <4>4 DEF Inv, WrittenMonthly
    <3>. QED  BY <2>1, <3>1 DEF WrittenMonthly
  <2>6. \A s \in Requests \ {r} : ToRecord(s)'
    BY <2>1 DEF Inv, ToRecord
  <2>. QED  BY <2>3, <2>4, <2>5, <2>6 DEF Inv
<1>13. ASSUME NEW r \in Requests, Rollback(r) PROVE Inv'
  <2>1. /\ \A s \in Requests \ {r} : req'[s] = req[s]
        /\ req'[r].pc = "failed"
    BY <1>13 DEF Rollback, Goto, Inv, TypeOK, Request
  <2>2. WrittenDaily(r)' /\ WrittenMonthly(r)' /\ ToRecord(r)'
    BY <2>1 DEF WrittenDaily, WrittenMonthly, ToRecord, Writing
  <2>3. UNCHANGED usage
    BY <1>13 DEF Rollback
  <2>4. ASSUME NEW s \in Requests \ {r} PROVE WrittenDaily(s)' /\ WrittenMonthly(s)'
    <3>1. req[s] \in Request /\ MonthOf(req[s].on) \in Months
      BY MonthOfDay DEF Inv, TypeOK, Request
    <3>2. dailyRow[req[s].tenant][req[s].on] = s => dailyRow'[req[s].tenant][req[s].on] = s
      BY <1>13, <3>1, ReleaseOthers DEF Rollback, Inv, Request
    <3>3. monthlyRow[req[s].tenant][MonthOf(req[s].on)] = s
            => monthlyRow'[req[s].tenant][MonthOf(req[s].on)] = s
      BY <1>13, <3>1, ReleaseOthers DEF Rollback, Inv, Request
    <3>. QED  BY <2>1, <2>3, <3>2, <3>3 DEF Inv, WrittenDaily, WrittenMonthly, usage
  <2>5. \A s \in Requests \ {r} : ToRecord(s)'
    BY <2>1 DEF Inv, ToRecord
  <2>. QED  BY <2>2, <2>4, <2>5 DEF Inv
<1>14. CASE (\E t \in Tenants : SetCaps(t)) \/ NextDay \/ UNCHANGED vars
  <2>1. UNCHANGED <<usage, rows, req>>
    BY <1>14 DEF SetCaps, NextDay, vars, usage, rows
  <2>. QED  BY <2>1 DEF Inv, WrittenDaily, WrittenMonthly, ToRecord, usage, rows
<1>. QED
  BY <1>1, <1>2, <1>3, <1>4, <1>5, <1>6, <1>7, <1>8, <1>9, <1>10, <1>11,
     <1>12, <1>13, <1>14
  DEF Next, HandlerStep, RecordStep

-----------------------------------------------------------------------------
\* The invariant holds in every reachable state.
THEOREM InvHolds == Spec => []Inv
<1>. QED  BY InitInv, NextInv, PTL DEF Spec

\* Every variable keeps its type, whatever the constants are.
THEOREM TypeCorrect == Spec => []TypeOK
<1>1. Inv => TypeOK
  BY DEF Inv
<1>. QED  BY <1>1, InvHolds, PTL

-----------------------------------------------------------------------------
\* A step of UsageCaps is a step of TokenLedger or leaves its variables alone: a
\* COMMIT adds the tokens to both rollups and appends the event.
LEMMA LedgerStep == Inv /\ [Next]_vars => [Ledger!Next]_<<daily, monthly, events>>
<1>. SUFFICES ASSUME Inv, [Next]_vars PROVE [Ledger!Next]_<<daily, monthly, events>>
  OBVIOUS
<1>1. ASSUME NEW r \in Requests, Commit(r) PROVE Ledger!Next
  <2> DEFINE t == req[r].tenant
             d == req[r].on
             n == req[r].tokens
  <2>1. t \in Tenants /\ d \in Days /\ MonthOf(d) \in Months /\ n \in Usages /\ req[r].pc = "commit"
    BY <1>1, MonthOfDay DEF Commit, Inv, TypeOK, Request, ToRecord, Writing
  <2>2. req[r].newDaily = daily[t][d] + n /\ req[r].newMonthly = monthly[t][MonthOf(d)] + n
    BY <2>1 DEF Inv, WrittenDaily, WrittenMonthly
  <2>3. /\ daily' = [daily EXCEPT ![t][d] = @ + n]
        /\ monthly' = [monthly EXCEPT ![t][MonthOf(d)] = @ + n]
        /\ events' = Append(events, [tenant |-> t, day |-> d, tokens |-> n])
    BY <1>1, <2>1, <2>2 DEF Commit, Inv, TypeOK
  <2>4. Ledger!Record(t, d, n)
    BY <2>3 DEF Ledger!Record
  <2>. QED  BY <2>1, <2>4 DEF Ledger!Next
<1>2. ASSUME NEW r \in Requests, ~Commit(r), HandlerStep(r) \/ Lose(r) \/ Rollback(r)
      PROVE  UNCHANGED <<daily, monthly, events>>
  BY <1>2 DEF HandlerStep, RecordStep, Start, ReadCaps, ReadDaily, ReadMonthly, Decide, EndStream, Begin,
     InsertEvent, UpsertDaily, UpsertMonthly, Lose, Rollback, usage
<1>3. CASE (\E t \in Tenants : SetCaps(t)) \/ NextDay \/ UNCHANGED vars
  BY <1>3 DEF SetCaps, NextDay, vars, usage
<1>. QED
  BY <1>1, <1>2, <1>3
  DEF Next, HandlerStep, RecordStep

\* The transactions of recordUsage implement TokenLedger: whatever they overlap
\* with and wherever they fail, an event and both its rollups change in one step.
THEOREM ImplementsLedger == Spec => RecordsAtomically
<1>1. Init => Ledger!Init
  BY DEF Init, Ledger!Init, Months, Ledger!Months
<1>. QED  BY <1>1, InvHolds, LedgerStep, PTL DEF Spec, RecordsAtomically, Ledger!Spec

-----------------------------------------------------------------------------
(***************************************************************************)
(* Sums.  Total counts tokens: the units of a member of S are its pairs    *)
(* with 1, 2, and so on up to the number of its tokens.                    *)
(***************************************************************************)

Units(tokens, S) == UNION {{x} \X (1..tokens[x]) : x \in S}

\* The units of a set are those of its members.
LEMMA UnitsOf ==
  \A tokens, S, u : u \in Units(tokens, S) <=> \E x \in S : u \in {x} \X (1..tokens[x])
BY DEF Units

\* A sum depends on the members' tokens only.
LEMMA TotalSame ==
  ASSUME NEW f, NEW g, NEW S, \A x \in S : f[x] = g[x]
  PROVE  Units(f, S) = Units(g, S) /\ Total(f, S) = Total(g, S)
<1>1. ASSUME NEW u PROVE u \in Units(f, S) <=> u \in Units(g, S)
  BY UnitsOf
<1>2. Units(f, S) = Units(g, S)
  BY <1>1
<1>. QED  BY <1>2 DEF Total, Units

\* A larger set has more units and no smaller sum.
LEMMA TotalGrows ==
  ASSUME NEW f, NEW S, NEW T, S \subseteq T, IsFiniteSet(Units(f, T))
  PROVE  /\ Units(f, S) \subseteq Units(f, T) /\ IsFiniteSet(Units(f, S))
         /\ Total(f, S) \in Nat /\ Total(f, T) \in Nat /\ Total(f, S) <= Total(f, T)
<1>1. Units(f, S) \subseteq Units(f, T)
  BY UnitsOf
<1>2. /\ IsFiniteSet(Units(f, S)) /\ Cardinality(Units(f, S)) \in Nat
      /\ Cardinality(Units(f, T)) \in Nat
      /\ Cardinality(Units(f, S)) <= Cardinality(Units(f, T))
  BY <1>1, FS_Subset, FS_CardinalityType
<1>. QED  BY <1>1, <1>2 DEF Total, Units

\* The units of one member are as many as its tokens.
LEMMA UnitsOfOne ==
  ASSUME NEW x, NEW n \in Nat
  PROVE  IsFiniteSet({x} \X (1..n)) /\ Cardinality({x} \X (1..n)) = n
<1>. DEFINE f == [k \in 1..n |-> <<x, k>>]
<1>1. IsFiniteSet(1..n) /\ Cardinality(1..n) = n
  BY FS_Interval
<1>2. f \in Bijection(1..n, {x} \X (1..n))
  <2>1. f \in [1..n -> {x} \X (1..n)]
    OBVIOUS
  <2>2. \A j, k \in 1..n : f[j] = f[k] => j = k
    OBVIOUS
  <2>3. \A u \in {x} \X (1..n) : \E k \in 1..n : f[k] = u
    OBVIOUS
  <2>. HIDE DEF f
  <2>. QED  BY <2>1, <2>2, <2>3 DEF Bijection, Injection, Surjection, IsInjective
<1>3. ExistsBijection(1..n, {x} \X (1..n))
  BY <1>2 DEF ExistsBijection
<1>. QED  BY <1>1, <1>3, FS_Bijection

\* One more member adds its tokens.
LEMMA TotalAdds ==
  ASSUME NEW f, NEW S, NEW x, x \notin S, f[x] \in Nat, IsFiniteSet(Units(f, S))
  PROVE  /\ IsFiniteSet(Units(f, S \cup {x})) /\ Total(f, S) \in Nat
         /\ Total(f, S \cup {x}) = Total(f, S) + f[x]
<1>. DEFINE A == Units(f, S)
            B == {x} \X (1..f[x])
<1>1. Units(f, S \cup {x}) = A \cup B
  <2>1. ASSUME NEW u PROVE u \in Units(f, S \cup {x}) <=> u \in A \/ u \in B
    BY UnitsOf
  <2>. QED  BY <2>1
<1>2. A \cap B = {}
  <2>1. ASSUME NEW u, u \in A, u \in B PROVE FALSE
    <3>1. PICK y \in S : u \in {y} \X (1..f[y])
      BY <2>1, UnitsOf
    <3>. QED  BY <2>1, <3>1
  <2>. QED  BY <2>1
<1>3. IsFiniteSet(B) /\ Cardinality(B) = f[x]
  BY UnitsOfOne
<1>4. IsFiniteSet(A) /\ Cardinality(A) \in Nat
  BY FS_CardinalityType
<1>. HIDE DEF A, B
<1>5. Cardinality(A \cap B) = 0
  BY <1>2, FS_EmptySet
<1>6. IsFiniteSet(A \cup B) /\ Cardinality(A \cup B) = Cardinality(A) + f[x]
  BY <1>3, <1>4, <1>5, FS_Union
<1>. QED  BY <1>1, <1>4, <1>6 DEF Total, Units, A

\* The units of the events of a log.
Logged(log) == Units([i \in 1..Len(log) |-> log[i].tokens], 1..Len(log))

\* What a log records is not less than what its beginning does.
LEMMA RecordedGrows ==
  ASSUME NEW log \in Seq(Usage), IsFiniteSet(Logged(log)), NEW t, NEW D, NEW n \in 0..Len(log)
  PROVE  /\ Recorded(log, t, D, n) \in Nat /\ Recorded(log, t, D, Len(log)) \in Nat
         /\ Recorded(log, t, D, n) <= Recorded(log, t, D, Len(log))
<1>. DEFINE f == [i \in 1..Len(log) |-> log[i].tokens]
            g == [i \in 1..n |-> log[i].tokens]
            S(m) == {i \in 1..m : log[i].tenant = t /\ log[i].day \in D}
<1>1. Len(log) \in Nat /\ 1..n \subseteq 1..Len(log)
  OBVIOUS
<1>2. Total(g, S(n)) = Total(f, S(n))
  <2>1. \A i \in S(n) : g[i] = f[i]
    BY <1>1
  <2>. HIDE DEF f, g, S
  <2>. QED  BY <2>1, TotalSame
<1>3. S(n) \subseteq S(Len(log)) /\ S(Len(log)) \subseteq 1..Len(log)
  BY <1>1
<1>4. IsFiniteSet(Units(f, 1..Len(log)))
  BY DEF Logged
<1>5. /\ Total(f, S(n)) \in Nat /\ Total(f, S(Len(log))) \in Nat
      /\ Total(f, S(n)) <= Total(f, S(Len(log)))
  <2>. HIDE DEF f, S
  <2>1. IsFiniteSet(Units(f, S(Len(log))))
    BY <1>3, <1>4, TotalGrows
  <2>. QED  BY <1>3, <2>1, TotalGrows
<1>. QED  BY <1>2, <1>5 DEF Recorded

\* An event is added to the sums of its tenant and its day, and to no beginning.
LEMMA RecordedAdds ==
  ASSUME NEW log \in Seq(Usage), IsFiniteSet(Logged(log)), NEW e \in Usage, NEW t, NEW D
  PROVE  LET new == Append(log, e)
         IN  /\ Len(new) = Len(log) + 1 /\ IsFiniteSet(Logged(new))
             /\ Recorded(new, t, D, Len(new))
                  = Recorded(log, t, D, Len(log))
                    + (IF e.tenant = t /\ e.day \in D THEN e.tokens ELSE 0)
             /\ \A n \in 0..Len(log) : Recorded(new, t, D, n) = Recorded(log, t, D, n)
<1>. DEFINE new == Append(log, e)
            m == Len(log)
            f == [i \in 1..m |-> log[i].tokens]
            g == [i \in 1..(m + 1) |-> new[i].tokens]
            S(n) == {i \in 1..n : log[i].tenant = t /\ log[i].day \in D}
            T == {i \in 1..(m + 1) : new[i].tenant = t /\ new[i].day \in D}
<1>1. /\ m \in Nat /\ Len(new) = m + 1 /\ new[m + 1] = e
      /\ \A i \in 1..m : new[i] = log[i] /\ i \in 1..(m + 1)
  OBVIOUS
<1>2. e.tokens \in Nat
  <2>1. e.tokens \in Usages
    BY DEF Usage
  <2>. QED  BY <2>1, NumbersAssumption
<1>. HIDE DEF new
<1>3. /\ \A i \in 1..m : g[i] = f[i]
      /\ g[m + 1] = e.tokens /\ m + 1 \notin 1..m /\ 1..(m + 1) = (1..m) \cup {m + 1}
      /\ S(m) \subseteq 1..m
  BY <1>1
<1>4. T = S(m) \cup (IF e.tenant = t /\ e.day \in D THEN {m + 1} ELSE {})
  <2>. HIDE DEF m
  <2>1. ASSUME NEW i \in 1..(m + 1)
        PROVE  i \in T <=> i \in S(m) \/ (i = m + 1 /\ e.tenant = t /\ e.day \in D)
    <3>1. CASE i \in 1..m
      <4>1. i # m + 1 /\ new[i] = log[i]
        BY <1>1, <3>1
      <4>. QED  BY <3>1, <4>1
    <3>2. CASE i = m + 1
      BY <1>1, <1>3, <3>2
    <3>. QED  BY <1>3, <3>1, <3>2
  <2>2. S(m) \subseteq 1..(m + 1) /\ m + 1 \in 1..(m + 1) /\ T \subseteq 1..(m + 1)
    BY <1>1, <1>3
  <2>. HIDE DEF S, T
  <2>. QED  BY <2>1, <2>2
<1>5. IsFiniteSet(Units(f, 1..m))
  BY DEF Logged
<1>. HIDE DEF f, g, m
<1>6. IsFiniteSet(Units(g, 1..m))
  <2>1. \A i \in 1..m : f[i] = g[i]
    BY <1>3
  <2>2. Units(f, 1..m) = Units(g, 1..m)
    BY <2>1, TotalSame
  <2>. QED  BY <1>5, <2>2
<1>7. IsFiniteSet(Units(g, 1..(m + 1)))
  <2>1. g[m + 1] \in Nat
    BY <1>2, <1>3
  <2>2. IsFiniteSet(Units(g, (1..m) \cup {m + 1}))
    BY <1>3, <1>6, <2>1, TotalAdds
  <2>. QED  BY <1>3, <2>2
<1>8. Total(f, S(m)) = Total(g, S(m))
  <2>1. \A i \in S(m) : f[i] = g[i]
    BY <1>3
  <2>. HIDE DEF S
  <2>. QED  BY <2>1, TotalSame
<1>9. Total(g, T) = Total(f, S(m)) + (IF e.tenant = t /\ e.day \in D THEN e.tokens ELSE 0)
  <2>. HIDE DEF S, T
  <2>1. IsFiniteSet(Units(g, S(m))) /\ Total(g, S(m)) \in Nat
    BY <1>3, <1>6, TotalGrows
  <2>2. CASE e.tenant = t /\ e.day \in D
    <3>1. T = S(m) \cup {m + 1} /\ m + 1 \notin S(m) /\ g[m + 1] \in Nat
      BY <1>2, <1>3, <1>4, <2>2
    <3>2. Total(g, S(m) \cup {m + 1}) = Total(g, S(m)) + g[m + 1]
      BY <2>1, <3>1, TotalAdds
    <3>. QED  BY <1>3, <1>8, <2>2, <3>1, <3>2
  <2>3. CASE ~(e.tenant = t /\ e.day \in D)
    <3>1. T = S(m)
      BY <1>4, <2>3
    <3>. QED  BY <1>8, <2>1, <2>3, <3>1
  <2>. QED  BY <2>2, <2>3
<1>10. ASSUME NEW n \in 0..m PROVE Recorded(new, t, D, n) = Recorded(log, t, D, n)
  <2>. DEFINE h == [i \in 1..n |-> new[i].tokens]
              k == [i \in 1..n |-> log[i].tokens]
              U == {i \in 1..n : new[i].tenant = t /\ new[i].day \in D}
  <2>1. \A i \in 1..n : new[i] = log[i]
    BY <1>1
  <2>2. U = S(n) /\ \A i \in S(n) : h[i] = k[i]
    BY <2>1
  <2>3. Total(h, U) = Total(k, S(n))
    <3>. HIDE DEF h, k, U, S
    <3>. QED  BY <2>2, TotalSame
  <2>. QED  BY <2>3 DEF Recorded
<1>11. Recorded(new, t, D, Len(new)) = Total(g, T) /\ Recorded(log, t, D, m) = Total(f, S(m))
  BY <1>1 DEF Recorded, g, f, m
<1>12. IsFiniteSet(Logged(new))
  BY <1>1, <1>7 DEF Logged, g
<1>. HIDE DEF S, T
<1>. QED  BY <1>1, <1>9, <1>10, <1>11, <1>12 DEF new, m

-----------------------------------------------------------------------------
(***************************************************************************)
(* What is charged and what is decided.  Each rollup is the sum of the     *)
(* events of its day or month; a read of one lies between what was         *)
(* recorded before its check began and what is recorded now; and the       *)
(* events are those of a set of requests that ended.                       *)
(***************************************************************************)

TokensOf == [r \in Requests |-> req[r].tokens]

Rollups ==
  \A t \in Tenants :
    /\ \A d \in Days : daily[t][d] = Recorded(events, t, {d}, Len(events))
    /\ \A m \in Months : monthly[t][m] = Recorded(events, t, DaysOf(m), Len(events))

\* used lies between what the first n events record and what all do.
Between(log, t, D, n, used) ==
  Recorded(log, t, D, n) <= used /\ used <= Recorded(log, t, D, Len(log))

ReadsRight(r) ==
  LET q == req[r] IN
  q.pc # "off" =>
    /\ q.events \in 0..Len(events)
    /\ "daily" \notin q.todo => Between(events, q.tenant, {q.day}, q.events, q.usedDaily)
    /\ "monthly" \notin q.todo =>
         Between(events, q.tenant, DaysOf(MonthOf(q.day)), q.events, q.usedMonthly)

Admitted == {"stream", "connect"} \cup Writing

Decided(r) ==
  /\ req[r].pc \in Admitted => req[r].todo = {} /\ ~Refused(r)
  /\ req[r].pc = "refused" => req[r].todo = {} /\ Refused(r)

\* C are the requests that the events charge.
Charges(C) ==
  /\ \A r \in Requests : req[r].pc = "done" => r \in C
  /\ \A r \in C : req[r].pc \in {"done", "failed"}
  /\ \A t \in Tenants :
       Recorded(events, t, Days, Len(events)) = Total(TokensOf, {r \in C : req[r].tenant = t})

CapsInv ==
  /\ Inv
  /\ IsFiniteSet(Logged(events)) /\ IsFiniteSet(Units(TokensOf, Requests))
  /\ Rollups
  /\ \A r \in Requests : ReadsRight(r) /\ Decided(r)
  /\ \E C \in SUBSET Requests : Charges(C)

\* The fields of a request that its check and its bill are made of.
SameCheck(r) ==
  /\ req'[r].tenant = req[r].tenant /\ req'[r].day = req[r].day
  /\ req'[r].events = req[r].events /\ req'[r].est = req[r].est
  /\ req'[r].caps = req[r].caps
  /\ req'[r].usedDaily = req[r].usedDaily /\ req'[r].usedMonthly = req[r].usedMonthly
  /\ req'[r].todo = req[r].todo

\* At first nothing is recorded.
LEMMA CapsInit == Init => CapsInv
<1>. SUFFICES ASSUME Init PROVE CapsInv
  OBVIOUS
<1>1. \A f : Units(f, {}) = {} /\ Total(f, {}) = 0
  BY FS_EmptySet DEF Units, Total
<1>2. /\ events = <<>> /\ Len(events) = 0
      /\ \A r \in Requests : req[r].pc = "off" /\ req[r].tokens = 0
      /\ \A t \in Tenants : (\A d \in Days : daily[t][d] = 0) /\ \A m \in Months : monthly[t][m] = 0
  BY DEF Init
<1>3. \A t, D : Recorded(events, t, D, Len(events)) = 0
  <2>1. ASSUME NEW t, NEW D PROVE Recorded(events, t, D, Len(events)) = 0
    <3>1. {i \in 1..Len(events) : events[i].tenant = t /\ events[i].day \in D} = {}
      BY <1>2
    <3>. QED  BY <1>1, <3>1 DEF Recorded
  <2>. QED  BY <2>1
<1>4. IsFiniteSet(Logged(events))
  <2>1. 1..Len(events) = {}
    BY <1>2
  <2>. QED  BY <1>1, <2>1, FS_EmptySet DEF Logged
<1>5. IsFiniteSet(Units(TokensOf, Requests))
  <2>1. ASSUME NEW u PROVE u \notin Units(TokensOf, Requests)
    <3>1. \A r \in Requests : TokensOf[r] = 0
      BY <1>2 DEF TokensOf
    <3>2. \A r \in Requests : u \notin {r} \X (1..TokensOf[r])
      BY <3>1
    <3>. QED  BY <3>2, UnitsOf
  <2>2. Units(TokensOf, Requests) = {}
    BY <2>1
  <2>. QED  BY <2>2, FS_EmptySet
<1>6. Charges({})
  <2>1. \A t : {r \in {} : req[r].tenant = t} = {}
    OBVIOUS
  <2>. QED  BY <1>1, <1>2, <1>3, <2>1 DEF Charges
<1>. QED  BY <1>2, <1>3, <1>4, <1>5, <1>6, InitInv
     DEF CapsInv, Rollups, ReadsRight, Decided, Admitted, Writing

\* What exceeds a cap does so with more that is used, too.
LEMMA ExceedsMore ==
  ASSUME NEW a \in Nat, NEW b \in Nat, a <= b, NEW est \in Nat, NEW cap,
         cap # Unlimited => cap \in Nat
  PROVE  Exceeds(a, est, cap) => Exceeds(b, est, cap)
BY DEF Exceeds

\* What the invariant says of the decisions.
LEMMA CapsInvDecides == CapsInv => DecisionsFollowCaps
<1>. SUFFICES ASSUME CapsInv PROVE DecisionsFollowCaps
  OBVIOUS
<1>1. ASSUME NEW r \in Requests, req[r].pc # "off"
      PROVE  LET q == req[r]
                 D == DaysOf(MonthOf(q.day))
             IN  /\ Recorded(events, q.tenant, {q.day}, q.events) \in Nat
                 /\ Recorded(events, q.tenant, {q.day}, Len(events)) \in Nat
                 /\ Recorded(events, q.tenant, D, q.events) \in Nat
                 /\ Recorded(events, q.tenant, D, Len(events)) \in Nat
                 /\ q.est \in Nat /\ q.usedDaily \in Nat /\ q.usedMonthly \in Nat
                 /\ q.caps.daily # Unlimited => q.caps.daily \in Nat
                 /\ q.caps.monthly # Unlimited => q.caps.monthly \in Nat
  <2>1. events \in Seq(Usage) /\ req[r].events \in 0..Len(events)
    BY <1>1 DEF CapsInv, Inv, TypeOK, ReadsRight
  <2>2. req[r] \in Request /\ req[r].caps \in Caps
    BY DEF CapsInv, Inv, TypeOK, Request
  <2>3. /\ req[r].est \in Nat /\ req[r].usedDaily \in Nat /\ req[r].usedMonthly \in Nat
    <3>1. \A e \in Estimates \cup {0} : e \in Nat
      BY NumbersAssumption
    <3>. QED  BY <2>2, <3>1 DEF Request
  <2>4. /\ req[r].caps.daily # Unlimited => req[r].caps.daily \in Nat
        /\ req[r].caps.monthly # Unlimited => req[r].caps.monthly \in Nat
    <3>1. \A c \in CapValues : c \in Nat
      BY NumbersAssumption
    <3>. QED  BY <2>2, <3>1 DEF Caps
  <2>5. IsFiniteSet(Logged(events))
    BY DEF CapsInv
  <2>. QED  BY <2>1, <2>3, <2>4, <2>5, RecordedGrows
<1>2. AdmittedWithinCap
  <2>. SUFFICES ASSUME NEW r \in Requests, req[r].pc \in Admitted, req[r].caps.hard
                PROVE  /\ ~Exceeds(Recorded(events, req[r].tenant, {req[r].day}, req[r].events),
                                   req[r].est, req[r].caps.daily)
                       /\ ~Exceeds(Recorded(events, req[r].tenant,
                                            DaysOf(MonthOf(req[r].day)), req[r].events),
                                   req[r].est, req[r].caps.monthly)
    BY DEF AdmittedWithinCap, Admitted
  <2>1. req[r].pc # "off" /\ req[r].todo = {} /\ ~Refused(r)
    BY DEF CapsInv, Decided, Admitted, Writing
  <2>2. /\ Between(events, req[r].tenant, {req[r].day}, req[r].events, req[r].usedDaily)
        /\ Between(events, req[r].tenant, DaysOf(MonthOf(req[r].day)), req[r].events,
                   req[r].usedMonthly)
    BY <2>1 DEF CapsInv, ReadsRight
  <2>3. /\ ~Exceeds(req[r].usedDaily, req[r].est, req[r].caps.daily)
        /\ ~Exceeds(req[r].usedMonthly, req[r].est, req[r].caps.monthly)
    BY <2>1 DEF Refused
  <2>. DEFINE day == Recorded(events, req[r].tenant, {req[r].day}, req[r].events)
              month == Recorded(events, req[r].tenant, DaysOf(MonthOf(req[r].day)), req[r].events)
  <2>4. day <= req[r].usedDaily /\ month <= req[r].usedMonthly
    BY <2>2 DEF Between
  <2>5. /\ day \in Nat /\ month \in Nat
        /\ req[r].est \in Nat /\ req[r].usedDaily \in Nat /\ req[r].usedMonthly \in Nat
        /\ req[r].caps.daily # Unlimited => req[r].caps.daily \in Nat
        /\ req[r].caps.monthly # Unlimited => req[r].caps.monthly \in Nat
    BY <1>1, <2>1
  <2>. HIDE DEF day, month
  <2>6. /\ ~Exceeds(day, req[r].est, req[r].caps.daily)
        /\ ~Exceeds(month, req[r].est, req[r].caps.monthly)
    BY <2>3, <2>4, <2>5, ExceedsMore
  <2>. QED  BY <2>6 DEF day, month
<1>3. RefusedOnlyOverCap
  <2>. SUFFICES ASSUME NEW r \in Requests, req[r].pc = "refused"
                PROVE  /\ req[r].caps.hard
                       /\ \/ Exceeds(Recorded(events, req[r].tenant, {req[r].day}, Len(events)),
                                     req[r].est, req[r].caps.daily)
                          \/ Exceeds(Recorded(events, req[r].tenant,
                                              DaysOf(MonthOf(req[r].day)), Len(events)),
                                     req[r].est, req[r].caps.monthly)
    BY DEF RefusedOnlyOverCap
  <2>1. req[r].pc # "off" /\ req[r].todo = {} /\ Refused(r)
    BY DEF CapsInv, Decided
  <2>2. /\ Between(events, req[r].tenant, {req[r].day}, req[r].events, req[r].usedDaily)
        /\ Between(events, req[r].tenant, DaysOf(MonthOf(req[r].day)), req[r].events,
                   req[r].usedMonthly)
    BY <2>1 DEF CapsInv, ReadsRight
  <2>3. /\ req[r].caps.hard
        /\ \/ Exceeds(req[r].usedDaily, req[r].est, req[r].caps.daily)
           \/ Exceeds(req[r].usedMonthly, req[r].est, req[r].caps.monthly)
    BY <2>1 DEF Refused
  <2>. DEFINE day == Recorded(events, req[r].tenant, {req[r].day}, Len(events))
              month == Recorded(events, req[r].tenant, DaysOf(MonthOf(req[r].day)), Len(events))
  <2>4. req[r].usedDaily <= day /\ req[r].usedMonthly <= month
    BY <2>2 DEF Between
  <2>5. /\ day \in Nat /\ month \in Nat
        /\ req[r].est \in Nat /\ req[r].usedDaily \in Nat /\ req[r].usedMonthly \in Nat
        /\ req[r].caps.daily # Unlimited => req[r].caps.daily \in Nat
        /\ req[r].caps.monthly # Unlimited => req[r].caps.monthly \in Nat
    BY <1>1, <2>1
  <2>. HIDE DEF day, month
  <2>6. \/ Exceeds(day, req[r].est, req[r].caps.daily)
        \/ Exceeds(month, req[r].est, req[r].caps.monthly)
    BY <2>3, <2>4, <2>5, ExceedsMore
  <2>. QED  BY <2>3, <2>6 DEF day, month
<1>. QED  BY <1>2, <1>3 DEF DecisionsFollowCaps

\* What it says of the bill.
LEMMA CapsInvCharges == CapsInv => ChargedOnce
<1>. SUFFICES ASSUME CapsInv, NEW t \in Tenants
              PROVE  LET Ended(pcs) == {r \in Requests : req[r].tenant = t /\ req[r].pc \in pcs}
                         charged == Recorded(events, t, Days, Len(events))
                     IN  /\ Total(TokensOf, Ended({"done"})) <= charged
                         /\ charged <= Total(TokensOf, Ended({"done", "failed"}))
  BY DEF ChargedOnce, TokensOf
<1>. DEFINE Ended(pcs) == {r \in Requests : req[r].tenant = t /\ req[r].pc \in pcs}
<1>1. PICK C \in SUBSET Requests : Charges(C)
  BY DEF CapsInv
<1>. DEFINE charged == {r \in C : req[r].tenant = t}
<1>2. /\ Ended({"done"}) \subseteq charged /\ charged \subseteq Ended({"done", "failed"})
      /\ Ended({"done", "failed"}) \subseteq Requests
  BY <1>1 DEF Charges
<1>3. IsFiniteSet(Units(TokensOf, Requests))
  BY DEF CapsInv
<1>4. Recorded(events, t, Days, Len(events)) = Total(TokensOf, charged)
  BY <1>1 DEF Charges
<1>. HIDE DEF Ended, charged
<1>5. IsFiniteSet(Units(TokensOf, Ended({"done", "failed"})))
  BY <1>2, <1>3, TotalGrows
<1>6. /\ IsFiniteSet(Units(TokensOf, charged))
      /\ Total(TokensOf, charged) <= Total(TokensOf, Ended({"done", "failed"}))
  BY <1>2, <1>5, TotalGrows
<1>7. Total(TokensOf, Ended({"done"})) <= Total(TokensOf, charged)
  BY <1>2, <1>6, TotalGrows
<1>. QED  BY <1>4, <1>6, <1>7 DEF Ended

\* A step of r that is not a COMMIT records nothing, so it keeps what was
\* recorded and who is charged.  A request that ends without a COMMIT ends with
\* an error or without tokens.
LEMMA BillKept ==
  ASSUME CapsInv, NEW r \in Requests, UNCHANGED usage,
         req[r].pc \notin {"done", "failed"},
         req' = [req EXCEPT ![r] = req'[r]],
         req'[r].tenant = req[r].tenant, req'[r].tokens \in Nat,
         req'[r].pc = "done" => req'[r].tokens = 0
  PROVE  /\ IsFiniteSet(Logged(events')) /\ IsFiniteSet(Units(TokensOf', Requests))
         /\ Rollups'
         /\ \E C \in SUBSET Requests : Charges(C)'
<1>1. /\ UNCHANGED <<daily, monthly, events>> /\ IsFiniteSet(Logged(events))
      /\ IsFiniteSet(Units(TokensOf, Requests))
  BY DEF CapsInv, usage
<1>2. /\ \A s \in Requests : s # r => req'[s] = req[s]
      /\ \A s \in Requests : s # r => TokensOf'[s] = TokensOf[s]
      /\ TokensOf'[r] = req'[r].tokens
      /\ \A s \in Requests : req'[s].tenant = req[s].tenant
  <2>1. req \in [Requests -> Request]
    BY DEF CapsInv, Inv, TypeOK
  <2>2. \A s \in Requests : s # r => req'[s] = req[s]
    BY <2>1
  <2>. QED  BY <2>2 DEF TokensOf
<1>3. Rollups'
  BY <1>1 DEF CapsInv, Rollups
<1>4. \A S \in SUBSET Requests : r \notin S =>
        /\ Units(TokensOf', S) = Units(TokensOf, S) /\ IsFiniteSet(Units(TokensOf', S))
        /\ Total(TokensOf', S) = Total(TokensOf, S) /\ Total(TokensOf', S) \in Nat
  <2>. SUFFICES ASSUME NEW S \in SUBSET Requests, r \notin S
                PROVE  /\ Units(TokensOf', S) = Units(TokensOf, S)
                       /\ IsFiniteSet(Units(TokensOf', S))
                       /\ Total(TokensOf', S) = Total(TokensOf, S)
                       /\ Total(TokensOf', S) \in Nat
    OBVIOUS
  <2>1. \A s \in S : TokensOf'[s] = TokensOf[s]
    BY <1>2
  <2>2. /\ Units(TokensOf', S) = Units(TokensOf, S)
        /\ Total(TokensOf', S) = Total(TokensOf, S)
    BY <2>1, TotalSame
  <2>3. IsFiniteSet(Units(TokensOf, S)) /\ Total(TokensOf, S) \in Nat
    BY <1>1, TotalGrows
  <2>. QED  BY <2>2, <2>3
<1>5. IsFiniteSet(Units(TokensOf', Requests))
  <2>1. IsFiniteSet(Units(TokensOf', Requests \ {r}))
    BY <1>4
  <2>2. TokensOf'[r] \in Nat /\ r \notin Requests \ {r} /\ Requests = (Requests \ {r}) \cup {r}
    BY <1>2
  <2>. HIDE DEF TokensOf
  <2>3. IsFiniteSet(Units(TokensOf', (Requests \ {r}) \cup {r}))
    BY <2>1, <2>2, TotalAdds
  <2>. QED  BY <2>2, <2>3
<1>6. PICK C \in SUBSET Requests : Charges(C)
  BY DEF CapsInv
<1>7. r \notin C
  BY <1>6 DEF Charges
<1>. DEFINE Of(S, t) == {s \in S : req[s].tenant = t}
<1>10. PICK D \in SUBSET Requests : D = IF req'[r].pc = "done" THEN C \cup {r} ELSE C
  OBVIOUS
<1>8. ASSUME NEW t \in Tenants
      PROVE  Total(TokensOf', Of(D, t)) = Total(TokensOf, Of(C, t))
  <2>1. Of(C, t) \in SUBSET Requests /\ r \notin Of(C, t)
    BY <1>7
  <2>2. CASE Of(D, t) = Of(C, t)
    BY <1>4, <2>1, <2>2
  <2>3. CASE Of(D, t) # Of(C, t)
    <3>1. Of(D, t) = Of(C, t) \cup {r} /\ req'[r].pc = "done"
      BY <1>10, <2>3
    <3>2. TokensOf'[r] = 0
      BY <1>2, <3>1
    <3>. HIDE DEF Of
    <3>3. /\ IsFiniteSet(Units(TokensOf', Of(C, t))) /\ Total(TokensOf', Of(C, t)) \in Nat
          /\ Total(TokensOf', Of(C, t)) = Total(TokensOf, Of(C, t))
      BY <1>4, <2>1
    <3>4. TokensOf'[r] \in Nat
      BY <3>2
    <3>5. Total(TokensOf', Of(C, t) \cup {r}) = Total(TokensOf', Of(C, t)) + TokensOf'[r]
      BY <2>1, <3>3, <3>4, TotalAdds
    <3>. QED  BY <3>1, <3>2, <3>3, <3>5
  <2>. QED  BY <2>2, <2>3
<1>9. D \in SUBSET Requests /\ Charges(D)'
  <2>1. \A s \in Requests : req'[s].pc = "done" => s \in D
    BY <1>2, <1>6, <1>10 DEF Charges
  <2>2. \A s \in D : req'[s].pc \in {"done", "failed"}
    BY <1>2, <1>6, <1>7, <1>10 DEF Charges
  <2>3. ASSUME NEW t \in Tenants
        PROVE  Recorded(events', t, Days, Len(events'))
                 = Total(TokensOf', {s \in D : req'[s].tenant = t})
    <3>1. {s \in D : req'[s].tenant = t} = Of(D, t)
      BY <1>2
    <3>2. Recorded(events, t, Days, Len(events)) = Total(TokensOf, Of(C, t))
      BY <1>6 DEF Charges
    <3>. QED  BY <1>1, <1>8, <3>1, <3>2
  <2>4. D \in SUBSET Requests
    OBVIOUS
  <2>. QED  BY <2>1, <2>2, <2>3, <2>4 DEF Charges
<1>. QED  BY <1>1, <1>3, <1>5, <1>9

\* What lay between two sums still does when one more event is recorded.
LEMMA BetweenGrows ==
  ASSUME NEW log \in Seq(Usage), IsFiniteSet(Logged(log)), NEW e \in Usage, NEW t, NEW D,
         NEW n \in 0..Len(log), NEW used \in Nat, Between(log, t, D, n, used)
  PROVE  Between(Append(log, e), t, D, n, used)
<1>. DEFINE new == Append(log, e)
            added == IF e.tenant = t /\ e.day \in D THEN e.tokens ELSE 0
<1>1. added \in Nat
  <2>1. e.tokens \in Usages
    BY DEF Usage
  <2>. QED  BY <2>1, NumbersAssumption
<1>2. /\ Recorded(new, t, D, Len(new)) = Recorded(log, t, D, Len(log)) + added
      /\ Recorded(new, t, D, n) = Recorded(log, t, D, n)
  BY RecordedAdds
<1>3. Recorded(log, t, D, Len(log)) \in Nat /\ Recorded(log, t, D, n) \in Nat
  BY RecordedGrows
<1>. HIDE DEF new, added
<1>4. Between(new, t, D, n, used)
  BY <1>1, <1>2, <1>3 DEF Between
<1>. QED  BY <1>4 DEF new

\* The checks of the requests that do not step, or whose fields stay.
LEMMA ChecksKept ==
  ASSUME CapsInv, NEW r \in Requests, SameCheck(r),
         events' = events \/ \E e \in Usage : events' = Append(events, e),
         req[r].pc # "off",
         \/ req'[r].pc = req[r].pc
         \/ req'[r].pc \in Admitted /\ req[r].pc \in Admitted
         \/ req'[r].pc \in {"done", "failed"}
  PROVE  ReadsRight(r)' /\ Decided(r)'
<1>1. events \in Seq(Usage) /\ IsFiniteSet(Logged(events)) /\ req[r] \in Request
  BY DEF CapsInv, Inv, TypeOK
<1>2. req[r].usedDaily \in Nat /\ req[r].usedMonthly \in Nat /\ req[r].events \in 0..Len(events)
  BY <1>1 DEF Request, CapsInv, ReadsRight
<1>3. /\ Len(events) \in Nat /\ Len(events) <= Len(events')
      /\ Len(events') \in Nat
  BY <1>1
<1>4. ASSUME NEW t, NEW D, NEW n \in 0..Len(events), NEW used \in Nat,
             Between(events, t, D, n, used)
      PROVE  Between(events', t, D, n, used)
  <2>1. CASE events' = events
    BY <1>4, <2>1
  <2>2. CASE events' # events
    <3>1. PICK e \in Usage : events' = Append(events, e)
      BY <2>2
    <3>2. Between(Append(events, e), t, D, n, used)
      BY <1>1, <1>4, BetweenGrows
    <3>. QED  BY <3>1, <3>2
  <2>. QED  BY <2>1, <2>2
<1>5. ReadsRight(r)
  BY DEF CapsInv
<1>6. ReadsRight(r)'
  BY <1>2, <1>3, <1>4, <1>5 DEF ReadsRight, SameCheck
<1>7. Refused(r)' <=> Refused(r)
  BY DEF Refused, SameCheck
<1>8. Decided(r)'
  BY <1>7 DEF CapsInv, Decided, SameCheck, Admitted, Writing
<1>. QED  BY <1>6, <1>8

\* The checks of a request that waits for its turn stay as they are.
LEMMA OthersKept ==
  ASSUME CapsInv, NEW r \in Requests, req'[r] = req[r],
         events' = events \/ \E e \in Usage : events' = Append(events, e)
  PROVE  ReadsRight(r)' /\ Decided(r)'
<1>1. CASE req[r].pc # "off"
  BY <1>1, ChecksKept DEF SameCheck
<1>2. CASE req[r].pc = "off"
  BY <1>2 DEF ReadsRight, Decided, Admitted, Writing
<1>. QED  BY <1>1, <1>2

\* A step of r alone that records nothing keeps the invariant if r's own check
\* and decision stay right.
LEMMA AloneKept ==
  ASSUME CapsInv, Inv', NEW r \in Requests, NEW q \in Request, UNCHANGED usage,
         req[r].pc \notin {"done", "failed"}, req' = [req EXCEPT ![r] = q],
         q.tenant = req[r].tenant, q.pc = "done" => q.tokens = 0,
         ReadsRight(r)', Decided(r)'
  PROVE  CapsInv'
<1>1. /\ req'[r] = q /\ req' = [req EXCEPT ![r] = req'[r]] /\ events' = events
      /\ \A s \in Requests : s # r => req'[s] = req[s]
  BY DEF CapsInv, Inv, TypeOK, usage
<1>2. req'[r].tokens \in Nat
  <2>1. \A n \in Usages \cup {0} : n \in Nat
    BY NumbersAssumption
  <2>. QED  BY <1>1, <2>1 DEF Request
<1>3. \A s \in Requests : ReadsRight(s)' /\ Decided(s)'
  BY <1>1, OthersKept
<1>4. /\ IsFiniteSet(Logged(events')) /\ IsFiniteSet(Units(TokensOf', Requests))
      /\ Rollups'
      /\ \E C \in SUBSET Requests : Charges(C)'
  BY <1>1, <1>2, BillKept
<1>. QED  BY <1>3, <1>4 DEF CapsInv

\* A check begins: what is recorded now is recorded before it.
LEMMA CheckStarts ==
  ASSUME CapsInv, Inv', NEW r \in Requests, Start(r)
  PROVE  CapsInv'
<1>1. req[r] \in Request /\ req'[r] \in Request /\ req[r].pc = "off"
  BY DEF CapsInv, Inv, TypeOK, Start
<1>2. PICK e \in Estimates :
        req' = [req EXCEPT ![r] = [req[r] EXCEPT !.pc = "check", !.est = e, !.day = today,
                                                 !.events = Len(events),
                                                 !.todo = {"caps", "daily", "monthly"}]]
  BY DEF Start
<1>3. /\ req'[r].tenant = req[r].tenant /\ req'[r].pc = "check"
      /\ req'[r].events = Len(events) /\ req'[r].todo = {"caps", "daily", "monthly"}
      /\ req' = [req EXCEPT ![r] = req'[r]]
  BY <1>1, <1>2 DEF CapsInv, Inv, TypeOK, Request
<1>4. UNCHANGED usage /\ events' = events /\ Len(events) \in 0..Len(events)
  BY DEF Start, usage, CapsInv, Inv, TypeOK
<1>5. ReadsRight(r)' /\ Decided(r)'
  BY <1>3, <1>4 DEF ReadsRight, Decided, Admitted, Writing
<1>. QED  BY <1>1, <1>3, <1>4, <1>5, AloneKept

\* A rollup that is read is the sum of what is recorded, so it lies between.
LEMMA SumsRead ==
  ASSUME CapsInv, NEW t \in Tenants, NEW D, NEW n \in 0..Len(events)
  PROVE  LET used == Recorded(events, t, D, Len(events)) IN Between(events, t, D, n, used)
<1>1. events \in Seq(Usage) /\ IsFiniteSet(Logged(events))
  BY DEF CapsInv, Inv, TypeOK
<1>2. /\ Recorded(events, t, D, n) \in Nat /\ Recorded(events, t, D, Len(events)) \in Nat
      /\ Recorded(events, t, D, n) <= Recorded(events, t, D, Len(events))
  BY <1>1, RecordedGrows
<1>. QED  BY <1>2 DEF Between

\* The three reads of a check.
LEMMA CheckReads ==
  ASSUME CapsInv, Inv', NEW r \in Requests, ReadCaps(r) \/ ReadDaily(r) \/ ReadMonthly(r)
  PROVE  CapsInv'
<1>1. /\ req[r] \in Request /\ req[r].pc = "check" /\ UNCHANGED usage /\ events' = events
      /\ req'[r] \in Request /\ req[r].tenant \in Tenants /\ req[r].day \in Days
      /\ MonthOf(req[r].day) \in Months
  BY FieldTypes DEF CapsInv, Inv, TypeOK, ReadCaps, ReadDaily, ReadMonthly, Reads, usage
<1>2. /\ req[r].events \in 0..Len(events)
      /\ daily[req[r].tenant][req[r].day]
           = Recorded(events, req[r].tenant, {req[r].day}, Len(events))
      /\ monthly[req[r].tenant][MonthOf(req[r].day)]
           = Recorded(events, req[r].tenant, DaysOf(MonthOf(req[r].day)), Len(events))
  BY <1>1 DEF CapsInv, ReadsRight, Rollups
<1>3. /\ Between(events, req[r].tenant, {req[r].day}, req[r].events,
                 daily[req[r].tenant][req[r].day])
      /\ Between(events, req[r].tenant, DaysOf(MonthOf(req[r].day)), req[r].events,
                 monthly[req[r].tenant][MonthOf(req[r].day)])
  BY <1>1, <1>2, SumsRead
<1>4. ReadsRight(r)
  BY DEF CapsInv
<1>5. CASE ReadCaps(r)
  <2>1. req' = [req EXCEPT ![r] = [req[r] EXCEPT !.todo = req[r].todo \ {"caps"},
                                                 !.caps = caps[req[r].tenant]]]
    BY <1>5 DEF ReadCaps
  <2>2. /\ req' = [req EXCEPT ![r] = req'[r]]
        /\ req'[r].pc = "check" /\ req'[r].tenant = req[r].tenant /\ req'[r].day = req[r].day
        /\ req'[r].events = req[r].events /\ req'[r].todo = req[r].todo \ {"caps"}
        /\ req'[r].usedDaily = req[r].usedDaily /\ req'[r].usedMonthly = req[r].usedMonthly
    BY <1>1, <2>1 DEF CapsInv, Inv, TypeOK, Request
  <2>3. ReadsRight(r)' /\ Decided(r)'
    BY <1>1, <1>4, <2>2 DEF ReadsRight, Decided, Admitted, Writing
  <2>. QED  BY <1>1, <2>2, <2>3, AloneKept
<1>6. CASE ReadDaily(r)
  <2>1. req' = [req EXCEPT ![r] = [req[r] EXCEPT !.todo = req[r].todo \ {"daily"},
                                       !.usedDaily = daily[req[r].tenant][req[r].day]]]
    BY <1>6 DEF ReadDaily
  <2>2. /\ req' = [req EXCEPT ![r] = req'[r]]
        /\ req'[r].pc = "check" /\ req'[r].tenant = req[r].tenant /\ req'[r].day = req[r].day
        /\ req'[r].events = req[r].events /\ req'[r].todo = req[r].todo \ {"daily"}
        /\ req'[r].usedDaily = daily[req[r].tenant][req[r].day]
        /\ req'[r].usedMonthly = req[r].usedMonthly
    BY <1>1, <2>1 DEF CapsInv, Inv, TypeOK, Request
  <2>3. ReadsRight(r)' /\ Decided(r)'
    BY <1>1, <1>3, <1>4, <2>2 DEF ReadsRight, Decided, Admitted, Writing
  <2>. QED  BY <1>1, <2>2, <2>3, AloneKept
<1>7. CASE ReadMonthly(r)
  <2>1. req' = [req EXCEPT ![r] = [req[r] EXCEPT !.todo = req[r].todo \ {"monthly"},
                                       !.usedMonthly = monthly[req[r].tenant][MonthOf(req[r].day)]]]
    BY <1>7 DEF ReadMonthly
  <2>2. /\ req' = [req EXCEPT ![r] = req'[r]]
        /\ req'[r].pc = "check" /\ req'[r].tenant = req[r].tenant /\ req'[r].day = req[r].day
        /\ req'[r].events = req[r].events /\ req'[r].todo = req[r].todo \ {"monthly"}
        /\ req'[r].usedDaily = req[r].usedDaily
        /\ req'[r].usedMonthly = monthly[req[r].tenant][MonthOf(req[r].day)]
    BY <1>1, <2>1 DEF CapsInv, Inv, TypeOK, Request
  <2>3. ReadsRight(r)' /\ Decided(r)'
    BY <1>1, <1>3, <1>4, <2>2 DEF ReadsRight, Decided, Admitted, Writing
  <2>. QED  BY <1>1, <2>2, <2>3, AloneKept
<1>. QED  BY <1>5, <1>6, <1>7

\* The decision follows the reads.
LEMMA CheckDecides ==
  ASSUME CapsInv, Inv', NEW r \in Requests, Decide(r)
  PROVE  CapsInv'
<1>1. /\ req[r] \in Request /\ req'[r] \in Request
      /\ req[r].pc = "check" /\ req[r].todo = {} /\ UNCHANGED usage /\ events' = events
  BY DEF CapsInv, Inv, TypeOK, Decide, usage
<1>2. req' = [req EXCEPT ![r] = [req[r] EXCEPT !.pc = IF Refused(r) THEN "refused" ELSE "stream"]]
  BY DEF Decide, Goto
<1>3. /\ req' = [req EXCEPT ![r] = req'[r]] /\ SameCheck(r)
      /\ req'[r].pc = IF Refused(r) THEN "refused" ELSE "stream"
  BY <1>1, <1>2 DEF CapsInv, Inv, TypeOK, Request, SameCheck
<1>4. Refused(r)' <=> Refused(r)
  BY <1>3 DEF Refused, SameCheck
<1>5. ReadsRight(r)'
  BY <1>1, <1>3 DEF CapsInv, ReadsRight, SameCheck
<1>6. Decided(r)'
  BY <1>1, <1>3, <1>4 DEF Decided, SameCheck, Admitted, Writing
<1>7. req'[r].pc # "done"
  BY <1>3
<1>. QED  BY <1>1, <1>3, <1>5, <1>6, <1>7, AloneKept DEF SameCheck

\* After its decision a request only goes on or fails, until its COMMIT.
LEMMA StreamGoesOn ==
  ASSUME CapsInv, Inv', NEW r \in Requests,
         \/ EndStream(r) \/ Begin(r) \/ InsertEvent(r) \/ UpsertDaily(r) \/ UpsertMonthly(r)
         \/ Lose(r) \/ Rollback(r)
  PROVE  CapsInv'
<1>1. req[r] \in Request /\ req'[r] \in Request
  BY DEF CapsInv, Inv, TypeOK
<1>2. UNCHANGED usage /\ events' = events /\ req' = [req EXCEPT ![r] = req'[r]]
  BY DEF CapsInv, Inv, TypeOK, EndStream, Begin, InsertEvent, UpsertDaily, UpsertMonthly, Lose,
         Rollback, Goto, usage
<1>3. /\ SameCheck(r)
      /\ \/ req'[r].pc = "failed" /\ req[r].pc \in {"check"} \cup Admitted
         \/ req'[r].pc = "done" /\ req'[r].tokens = 0 /\ req[r].pc = "stream"
         \/ req'[r].pc \in Admitted /\ req[r].pc \in Admitted
  <2>1. CASE EndStream(r)
    <3>1. PICK n \in Usages :
        req' = [req EXCEPT ![r] = [req[r] EXCEPT !.pc = IF n = 0 THEN "done" ELSE "connect",
                                                 !.tokens = n]]
      BY <2>1 DEF EndStream
    <3>. QED  BY <1>1, <2>1, <3>1 DEF EndStream, CapsInv, Inv, TypeOK, Request, SameCheck, Admitted, Writing
  <2>2. CASE Begin(r)
    BY <1>1, <2>2 DEF Begin, CapsInv, Inv, TypeOK, Request, SameCheck, Admitted, Writing
  <2>3. CASE InsertEvent(r)
    BY <1>1, <2>3 DEF InsertEvent, Goto, CapsInv, Inv, TypeOK, Request, SameCheck, Admitted, Writing
  <2>4. CASE UpsertDaily(r)
    BY <1>1, <2>4 DEF UpsertDaily, CapsInv, Inv, TypeOK, Request, SameCheck, Admitted, Writing
  <2>5. CASE UpsertMonthly(r)
    BY <1>1, <2>5 DEF UpsertMonthly, CapsInv, Inv, TypeOK, Request, SameCheck, Admitted, Writing
  <2>6. CASE Lose(r)
    BY <1>1, <2>6 DEF Lose, Goto, CapsInv, Inv, TypeOK, Request, SameCheck, Admitted, Writing
  <2>7. CASE Rollback(r)
    BY <1>1, <2>7 DEF Rollback, Goto, CapsInv, Inv, TypeOK, Request, SameCheck, Admitted, Writing
  <2>. QED  BY <2>1, <2>2, <2>3, <2>4, <2>5, <2>6, <2>7
<1>4. req[r].pc # "off" /\ req[r].pc \notin {"done", "failed"}
  BY <1>3 DEF Admitted, Writing
<1>5. ReadsRight(r)' /\ Decided(r)'
  <2>1. \/ req'[r].pc \in Admitted /\ req[r].pc \in Admitted
        \/ req'[r].pc \in {"done", "failed"}
    BY <1>3
  <2>. QED  BY <1>2, <1>3, <1>4, <2>1, ChecksKept
<1>6. req'[r].pc = "done" => req'[r].tokens = 0
  BY <1>3 DEF Admitted, Writing
<1>. QED  BY <1>1, <1>2, <1>3, <1>4, <1>5, <1>6, AloneKept DEF SameCheck

\* COMMIT adds the tokens to both rollups, and its request to those that are charged.
LEMMA CommitCharges ==
  ASSUME CapsInv, Inv', NEW r \in Requests, Commit(r)
  PROVE  CapsInv'
<1>. DEFINE t == req[r].tenant
            d == req[r].on
            n == req[r].tokens
            e == [tenant |-> t, day |-> d, tokens |-> n]
            Of(S, u) == {s \in S : req[s].tenant = u}
<1>1. /\ req[r] \in Request /\ t \in Tenants /\ d \in Days /\ n \in Usages /\ req[r].pc = "commit"
      /\ MonthOf(d) \in Months
  BY FieldTypes DEF CapsInv, Inv, Commit, ToRecord, Writing
<1>2. PICK pc \in {"done", "failed"} : req' = [req EXCEPT ![r] = [req[r] EXCEPT !.pc = pc]]
  BY DEF Commit, Goto
<1>3. /\ SameCheck(r) /\ req'[r].pc = pc /\ req'[r].tokens = n
      /\ \A s \in Requests : s # r => req'[s] = req[s]
      /\ \A s \in Requests : req'[s].tenant = req[s].tenant /\ req'[s].tokens = req[s].tokens
  BY <1>1, <1>2 DEF CapsInv, Inv, TypeOK, Request, SameCheck
<1>4. e \in Usage /\ e.tenant = t /\ e.day = d /\ e.tokens = n /\ n \in Nat
  BY <1>1, NumbersAssumption DEF Usage
<1>5. /\ daily' = [daily EXCEPT ![t][d] = daily[t][d] + n]
      /\ monthly' = [monthly EXCEPT ![t][MonthOf(d)] = monthly[t][MonthOf(d)] + n]
      /\ events' = Append(events, e)
  <2>1. req[r].newDaily = daily[t][d] + n /\ req[r].newMonthly = monthly[t][MonthOf(d)] + n
    BY <1>1 DEF CapsInv, Inv, WrittenDaily, WrittenMonthly
  <2>. QED  BY <2>1 DEF Commit
<1>6. events \in Seq(Usage) /\ IsFiniteSet(Logged(events))
  BY DEF CapsInv, Inv, TypeOK
<1>. HIDE DEF e
<1>7. /\ IsFiniteSet(Logged(events'))
      /\ \A u, D : Recorded(events', u, D, Len(events'))
                     = Recorded(events, u, D, Len(events)) + (IF u = t /\ d \in D THEN n ELSE 0)
  BY <1>4, <1>5, <1>6, RecordedAdds
<1>8. Rollups'
  <2>1. ASSUME NEW u \in Tenants, NEW x \in Days
        PROVE  daily'[u][x] = Recorded(events', u, {x}, Len(events'))
    <3>1. daily[u][x] = Recorded(events, u, {x}, Len(events)) /\ daily[u][x] \in Nat
      BY DEF CapsInv, Rollups, Inv, TypeOK
    <3>2. daily'[u][x] = daily[u][x] + (IF u = t /\ x = d THEN n ELSE 0)
      <4>1. daily \in [Tenants -> [Days -> Nat]]
        BY DEF CapsInv, Inv, TypeOK
      <4>. HIDE DEF t, d, n
      <4>. QED  BY <1>1, <1>4, <1>5, <3>1, <4>1
    <3>3. d \in {x} <=> x = d
      OBVIOUS
    <3>. QED  BY <1>7, <3>1, <3>2, <3>3
  <2>2. ASSUME NEW u \in Tenants, NEW m \in Months
        PROVE  monthly'[u][m] = Recorded(events', u, DaysOf(m), Len(events'))
    <3>1. /\ monthly[u][m] = Recorded(events, u, DaysOf(m), Len(events)) /\ monthly[u][m] \in Nat
      BY DEF CapsInv, Rollups, Inv, TypeOK
    <3>2. monthly'[u][m] = monthly[u][m] + (IF u = t /\ m = MonthOf(d) THEN n ELSE 0)
      <4>1. monthly \in [Tenants -> [Months -> Nat]]
        BY DEF CapsInv, Inv, TypeOK
      <4>. HIDE DEF t, d, n
      <4>. QED  BY <1>1, <1>4, <1>5, <3>1, <4>1
    <3>3. d \in DaysOf(m) <=> m = MonthOf(d)
      BY <1>1 DEF DaysOf
    <3>. QED  BY <1>7, <3>1, <3>2, <3>3
  <2>. QED  BY <2>1, <2>2 DEF Rollups
<1>9. TokensOf' = TokensOf
  BY <1>3 DEF TokensOf
<1>10. PICK C \in SUBSET Requests : Charges(C)
  BY DEF CapsInv
<1>11. r \notin C
  BY <1>1, <1>10 DEF Charges
<1>12. ASSUME NEW u \in Tenants
       PROVE  /\ Recorded(events', u, Days, Len(events')) = Total(TokensOf, Of(C \cup {r}, u))
  <2>1. Recorded(events, u, Days, Len(events)) = Total(TokensOf, Of(C, u))
    BY <1>10 DEF Charges
  <2>2. /\ IsFiniteSet(Units(TokensOf, Requests)) /\ Of(C, u) \subseteq Requests
        /\ r \notin Of(C, u) /\ TokensOf[r] = n
    BY <1>11 DEF CapsInv, TokensOf
  <2>3. /\ IsFiniteSet(Units(TokensOf, Of(C, u))) /\ Total(TokensOf, Of(C, u)) \in Nat
    <3>. HIDE DEF Of
    <3>. QED  BY <2>2, TotalGrows
  <2>4. CASE u = t
    <3>1. Of(C \cup {r}, u) = Of(C, u) \cup {r}
      BY <2>4
    <3>. HIDE DEF Of, n
    <3>2. Total(TokensOf, Of(C, u) \cup {r}) = Total(TokensOf, Of(C, u)) + n
      BY <1>4, <2>2, <2>3, TotalAdds
    <3>. QED  BY <1>1, <1>7, <2>1, <2>4, <3>1, <3>2
  <2>5. CASE u # t
    <3>1. Of(C \cup {r}, u) = Of(C, u)
      BY <2>5
    <3>. HIDE DEF Of, n
    <3>. QED  BY <1>7, <2>1, <2>3, <2>5, <3>1
  <2>. QED  BY <2>4, <2>5
<1>13. Charges(C \cup {r})'
  <2>1. \A s \in Requests : req'[s].pc = "done" => s \in C \cup {r}
    BY <1>3, <1>10 DEF Charges
  <2>2. \A s \in C \cup {r} : req'[s].pc \in {"done", "failed"}
    BY <1>3, <1>10, <1>11 DEF Charges
  <2>3. \A u \in Tenants : Recorded(events', u, Days, Len(events'))
                             = Total(TokensOf', {s \in C \cup {r} : req'[s].tenant = u})
    <3>1. \A u : {s \in C \cup {r} : req'[s].tenant = u} = Of(C \cup {r}, u)
      BY <1>3
    <3>. QED  BY <1>9, <1>12, <3>1
  <2>. QED  BY <2>1, <2>2, <2>3 DEF Charges
<1>14. ReadsRight(r)' /\ Decided(r)'
  BY <1>1, <1>3, <1>4, <1>5, ChecksKept
<1>15. \A s \in Requests : ReadsRight(s)' /\ Decided(s)'
  BY <1>3, <1>4, <1>5, <1>14, OthersKept
<1>16. IsFiniteSet(Units(TokensOf', Requests))
  BY <1>9 DEF CapsInv
<1>17. \E B \in SUBSET Requests : Charges(B)'
  BY <1>13
<1>. QED  BY <1>7, <1>8, <1>15, <1>16, <1>17 DEF CapsInv

\* Every step keeps the invariant.
LEMMA CapsNext == CapsInv /\ [Next]_vars => CapsInv'
<1>. SUFFICES ASSUME CapsInv, [Next]_vars PROVE CapsInv'
  OBVIOUS
<1>1. Inv'
  BY NextInv DEF CapsInv
<1>2. ASSUME NEW r \in Requests, HandlerStep(r) \/ Lose(r) \/ Rollback(r)
      PROVE  CapsInv'
  BY <1>1, <1>2, CheckStarts, CheckReads, CheckDecides, StreamGoesOn, CommitCharges
     DEF HandlerStep, RecordStep
<1>3. CASE (\E t \in Tenants : SetCaps(t)) \/ NextDay \/ UNCHANGED vars
  <2>1. UNCHANGED <<daily, monthly, events, req>>
    BY <1>3 DEF SetCaps, NextDay, vars, usage
  <2>2. \A r \in Requests : ReadsRight(r)' /\ Decided(r)'
    BY <2>1, OthersKept
  <2>3. TokensOf' = TokensOf
    BY <2>1 DEF TokensOf
  <2>4. PICK C \in SUBSET Requests : Charges(C)
    BY DEF CapsInv
  <2>5. Charges(C)'
    BY <2>1, <2>3, <2>4 DEF Charges
  <2>. QED  BY <1>1, <2>1, <2>2, <2>3, <2>5 DEF CapsInv, Rollups
<1>. QED  BY <1>2, <1>3 DEF Next

\* The invariant holds in every reachable state.
LEMMA CapsInvHolds == Spec => []CapsInv
<1>. QED  BY CapsInit, CapsNext, PTL DEF Spec

\* For any requests, tenants, estimates and days: a tenant is charged what its
\* requests used, each once, whichever transactions fail or lose their answer.
THEOREM ChargesOnce == Spec => []ChargedOnce
<1>. QED  BY CapsInvCharges, CapsInvHolds, PTL

\* A request that is admitted under a hard cap fits in it with all that was
\* recorded before its check began, and one that is refused would not fit in what
\* is recorded now, however the reads overlap with what others record.
THEOREM DecisionsFollow == Spec => []DecisionsFollowCaps
<1>. QED  BY CapsInvDecides, CapsInvHolds, PTL

=============================================================================
