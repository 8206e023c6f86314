---------------------------- MODULE ProviderConfig ----------------------------
(***************************************************************************)
(* The AI provider configurations of one tenant: the routes of             *)
(* providers/routes over TenantAIConfigService and the repository, the     *)
(* constraint of migration 002, and the settings page of each admin with   *)
(* the list it loaded.  Requests for a row of another tenant get 404 and   *)
(* change nothing.                                                         *)
(***************************************************************************)
EXTENDS Integers, Sequences

CONSTANTS
  Admins,
  Providers,
  MaxConfigs    \* bound: rows of tenant.ai_configs

VARIABLES
  configs,      \* id |-> row
  shown,        \* admin |-> the list on the page: id |-> provider
  op            \* admin |-> the request that runs

vars == <<configs, shown, op>>

Ids == 1..MaxConfigs
NoOp == [pc |-> "none", kind |-> "none", id |-> 0, provider |-> "none", answer |-> 0]

Active(c) == configs[c].active

Init ==
  /\ configs = <<>>
  /\ shown = [a \in Admins |-> {}]
  /\ op = [a \in Admins |-> NoOp]

\* handleSubmit for a new or a listed configuration, handleDeleteConfig.
Start(a, kind, id, p) ==
  /\ op[a].pc = "none"
  /\ op' = [op EXCEPT ![a] = [pc |-> "check", kind |-> kind, id |-> id, provider |-> p,
                              answer |-> 0]]
  /\ UNCHANGED <<configs, shown>>

Submit(a) ==
  \E p \in Providers : Start(a, "post", 0, p) \/ \E id \in shown[a] : Start(a, "put", id, p)

Deactivate(a) == \E id \in shown[a] : Start(a, "delete", id, "none")

Answer(a, status) == op' = [op EXCEPT ![a] = [@ EXCEPT !.pc = "answered", !.answer = status]]

\* findByTenantAndProvider, by POST and by PUT with another provider.
Conflict(a) ==
  /\ op[a].kind = "post" \/ (op[a].kind = "put" /\ configs[op[a].id].provider # op[a].provider)
  /\ \E c \in DOMAIN configs : Active(c) /\ configs[c].provider = op[a].provider

Check(a) ==
  /\ op[a].pc = "check"
  /\ IF Conflict(a) THEN Answer(a, 409) ELSE op' = [op EXCEPT ![a].pc = "write"]
  /\ UNCHANGED <<configs, shown>>

\* Mutant of Unique: the table has no constraint.
NoConstraint(id, p, active) == TRUE

\* tenant_ai_configs_unique_active: node-pg-migrate makes a plain UNIQUE of
\* (tenant_id, provider, is_active); a table constraint takes no WHERE.
Unique(id, p, active) ==
  ~\E c \in DOMAIN configs \ {id} : configs[c].provider = p /\ configs[c].active = active

\* The row that create, update and deactivate leave.
Created(o) == [provider |-> o.provider, active |-> TRUE]
Updated(o) == [configs[o.id] EXCEPT !.provider = o.provider]
Deactivated(o) == [configs[o.id] EXCEPT !.active = FALSE]

\* INSERT or UPDATE; a violated constraint is answered 500.
Write(a) ==
  /\ op[a].pc = "write"
  /\ LET o == op[a]
         new == CASE o.kind = "post" -> Created(o)
                  [] o.kind = "put" -> Updated(o)
                  [] o.kind = "delete" -> Deactivated(o)
     IN IF Unique(o.id, new.provider, new.active)
        THEN /\ o.kind = "post" => Len(configs) < MaxConfigs
             /\ configs' = IF o.kind = "post" THEN Append(configs, new)
                           ELSE [configs EXCEPT ![o.id] = new]
             /\ Answer(a, 200)
        ELSE Answer(a, 500) /\ UNCHANGED configs
  /\ UNCHANGED shown

\* findActiveByTenant, by loadData after a success and on mount.
ActiveIds == {c \in DOMAIN configs : Active(c)}

Answered(a) ==
  /\ op[a].pc = "answered"
  /\ op' = [op EXCEPT ![a] = NoOp]
  /\ shown' = IF op[a].answer = 200 THEN [shown EXCEPT ![a] = ActiveIds] ELSE shown
  /\ UNCHANGED configs

LoadData(a) ==
  /\ op[a].pc = "none"
  /\ shown' = [shown EXCEPT ![a] = ActiveIds]
  /\ UNCHANGED <<configs, op>>

Next ==
  \E a \in Admins : \/ Submit(a) \/ Deactivate(a) \/ Check(a) \/ Write(a) \/ Answered(a)
                    \/ LoadData(a)

Spec == Init /\ [][Next]_vars

-----------------------------------------------------------------------------
\* Every variable has its type.
TypeOK ==
  /\ configs \in Seq([provider : Providers, active : BOOLEAN]) /\ Len(configs) <= MaxConfigs
  /\ shown \in [Admins -> SUBSET Ids]
  /\ op \in [Admins -> [pc : {"none", "check", "write", "answered"},
                        kind : {"none", "post", "put", "delete"}, id : {0} \cup Ids,
                        provider : Providers \cup {"none"}, answer : {0, 200, 409, 500}]]

\* Two admins who create, change and deactivate configurations at once, from
\* lists that are out of date, never leave two active ones of a provider.
OneActivePerProvider ==
  \A c, d \in DOMAIN configs :
    Active(c) /\ Active(d) /\ configs[c].provider = configs[d].provider => c = d

=============================================================================
