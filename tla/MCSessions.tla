----------------------------- MODULE MCSessions -----------------------------
(***************************************************************************)
(* Sessions for TLC: few users, token ids and handlers, all               *)
(* interchangeable.                                                        *)
(***************************************************************************)
EXTENDS Sessions, TLC

Symmetry == Permutations(Users) \cup Permutations(Tokens) \cup Permutations(Requests)

=============================================================================
