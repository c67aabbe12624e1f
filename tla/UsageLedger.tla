---------------------------- MODULE UsageLedger ----------------------------
(***************************************************************************)
(* What metering promises, whatever the interleaving: every priced answer  *)
(* opens one debt, and each debt is either settled once, for exactly its   *)
(* cost, on the account that incurred it, or written off without touching  *)
(* any account (the process died, or the database refused the statement).  *)
(* The quota columns, the API keys and the handlers that share an account  *)
(* are left out; module Billing implements this specification.             *)
(***************************************************************************)
EXTENDS Integers

CONSTANTS
    Accounts,   \* the rows of the users table
    Handlers,   \* the request handlers that may run at the same time
    MaxCost     \* the dearest answer

VARIABLES
    used,   \* users.used_quota
    debts   \* answers delivered and not yet booked

vars == <<used, debts>>

Debt == [handler : Handlers, account : Accounts, cost : 1..MaxCost]

TypeOK ==
    /\ used \in [Accounts -> Nat]
    /\ debts \subseteq Debt

Init ==
    /\ used = [a \in Accounts |-> 0]
    /\ debts = {}

\* A handler delivers a priced answer; it has at most one open debt.
Incur(d) ==
    /\ \A e \in debts : e.handler # d.handler
    /\ debts' = debts \cup {d}
    /\ UNCHANGED used

Settle(d) ==
    /\ d \in debts
    /\ used' = [used EXCEPT ![d.account] = @ + d.cost]
    /\ debts' = debts \ {d}

WriteOff ==
    /\ debts' \subseteq debts
    /\ UNCHANGED used

Next ==
    \/ \E d \in Debt : Incur(d) \/ Settle(d)
    \/ WriteOff

Spec == Init /\ [][Next]_vars
=============================================================================
