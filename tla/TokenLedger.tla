---------------------------- MODULE TokenLedger -----------------------------
(***************************************************************************)
(* What recordUsage (usage-caps/repository.ts) promises of the three usage *)
(* tables: an event and the two rollups it is added to change together, in *)
(* one step, by the same number of tokens, and nothing is ever taken back. *)
(***************************************************************************)
EXTENDS Integers, Sequences

CONSTANTS Tenants, Days, MonthOf(_), Usages

VARIABLES
  daily,      \* tenant |-> day |-> tokens
  monthly,    \* tenant |-> month |-> tokens
  events      \* sequence of [tenant, day, tokens]

Months == {MonthOf(d) : d \in Days}

Init ==
  /\ daily = [t \in Tenants |-> [d \in Days |-> 0]]
  /\ monthly = [t \in Tenants |-> [m \in Months |-> 0]]
  /\ events = <<>>

Record(t, d, n) ==
  /\ daily' = [daily EXCEPT ![t][d] = @ + n]
  /\ monthly' = [monthly EXCEPT ![t][MonthOf(d)] = @ + n]
  /\ events' = Append(events, [tenant |-> t, day |-> d, tokens |-> n])

Next == \E t \in Tenants, d \in Days, n \in Usages : Record(t, d, n)

Spec == Init /\ [][Next]_<<daily, monthly, events>>

=============================================================================
