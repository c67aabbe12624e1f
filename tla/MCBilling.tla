----------------------------- MODULE MCBilling -----------------------------
(* Instances of Billing small enough for TLC. *)
EXTENDS Billing, TLC

CONSTANTS u1, k1, k2

\* One account with two keys.
OneOwner == [t \in Tokens |-> u1]
MeteredStart == [u \in Users |-> 1]
UnlimitedOrMetered == {-1, 1}
NoValues == {}
PlanValues == {-1, 0, 1}
OnePlan == {1}

\* Keys of one account, and request handlers, are interchangeable.
Interchangeable == Permutations(Tokens) \cup Permutations(Requests)
=============================================================================
