----------------------------- MODULE MCAccounts -----------------------------
(* Instances of Accounts small enough for TLC. *)
EXTENDS Accounts, TLC

\* Accounts, sessions, keys and handlers are interchangeable.
Interchangeable ==
    Permutations(Users) \cup Permutations(Sessions) \cup
    Permutations(Keys) \cup Permutations(Handlers)
=============================================================================
