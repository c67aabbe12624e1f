--------------------------- MODULE BillingProofs ---------------------------
(***************************************************************************)
(* Theorems about module Billing, for every number of accounts, keys,      *)
(* handlers and grants, every price bound and every quota.                 *)
(***************************************************************************)
EXTENDS Billing, FiniteSetTheorems, WellFoundedInduction, TLAPS

\* What charging a row does to its quota (the CASE of DeductQuota).
LEMMA DeductBounds ==
    ASSUME NEW q \in Quota, NEW c \in Nat
    PROVE  /\ Deduct(q, c) \in Nat
           /\ q # Unlimited => Deduct(q, c) <= q
BY DEF Deduct, Quota, Unlimited

LEMMA SignRange == \A q \in Quota : Sign(q) \in -1..1
BY DEF Sign, Quota, Unlimited

\* A charged row keeps its type and its status.
LEMMA ChargedRow ==
    ASSUME NEW m, NEW c \in Nat
    PROVE  /\ \A row \in UserRow : Charged(row, m, c) \in UserRow
           /\ \A row \in TokenRow : Charged(row, m, c) \in TokenRow
<1>1. ASSUME NEW row \in UserRow PROVE Charged(row, m, c) \in UserRow
    <2>1. row.quota \in Quota /\ Deduct(row.quota, c) \in Quota
        BY DeductBounds DEF UserRow, Quota
    <2>2. row.used + c \in Nat
        BY DEF UserRow
    <2>3. CASE m # Unlimited
        <3>1. Charged(row, m, c) = [row EXCEPT !.used = row.used + c,
                                               !.quota = Deduct(row.quota, c)]
            BY <2>3 DEF Charged, UserRow
        <3> QED BY <2>1, <2>2, <3>1 DEF UserRow
    <2>4. CASE m = Unlimited
        <3>1. Charged(row, m, c) = [row EXCEPT !.used = row.used + c]
            BY <2>4 DEF Charged, UserRow
        <3> QED BY <2>2, <3>1 DEF UserRow
    <2> QED BY <2>3, <2>4
<1>2. ASSUME NEW row \in TokenRow PROVE Charged(row, m, c) \in TokenRow
    <2>1. row.quota \in Quota /\ Deduct(row.quota, c) \in Quota
        BY DeductBounds DEF TokenRow, Quota
    <2>2. row.used + c \in Nat
        BY DEF TokenRow
    <2>3. CASE m # Unlimited
        <3>1. Charged(row, m, c) = [row EXCEPT !.used = row.used + c,
                                               !.quota = Deduct(row.quota, c)]
            BY <2>3 DEF Charged, TokenRow
        <3> QED BY <2>1, <2>2, <3>1 DEF TokenRow
    <2>4. CASE m = Unlimited
        <3>1. Charged(row, m, c) = [row EXCEPT !.used = row.used + c]
            BY <2>4 DEF Charged, TokenRow
        <3> QED BY <2>2, <3>1 DEF TokenRow
    <2> QED BY <2>3, <2>4
<1> QED BY <1>1, <1>2

\* The fields of a request record.
LEMMA RequestFields ==
    ASSUME TypeOK, NEW r \in Requests
    PROVE  /\ reqs[r] \in Request
           /\ reqs[r].cost \in 0..MaxCost /\ reqs[r].cost \in Nat
           /\ reqs[r].pc # "idle" => reqs[r].tok \in Tokens /\ Payer(r) \in Users
BY BillingAssumption DEF TypeOK, Request, Payer

LEMMA IdleReqType == IdleReq \in Request /\ IdleReq.pc = "idle"
BY BillingAssumption DEF IdleReq, Request

\* Replacing one request record keeps the two conjuncts about reqs.
LEMMA RequestUpdate ==
    ASSUME TypeOK, NEW r \in Requests, NEW x \in Request, reqs' = [reqs EXCEPT ![r] = x],
           x.pc # "idle" => x.tok \in Tokens
    PROVE  /\ reqs' \in [Requests -> Request]
           /\ \A s \in Requests : reqs'[s].pc # "idle" => reqs'[s].tok \in Tokens
BY DEF TypeOK

LEMMA TokenStep ==
    ASSUME TypeOK, NEW t \in Tokens, TokenNext(t) PROVE TypeOK'
<1> USE BillingAssumption
<1>1. CASE DraftToken(t)
    <2> DEFINE q == users[Owner[t]].quota
               limit == IF q = 0 THEN Unlimited ELSE q
    <2>1. users[Owner[t]] \in UserRow
        BY DEF TypeOK
    <2>2. limit \in Quota
        BY <2>1 DEF UserRow, Quota
    <2> HIDE DEF limit
    <2>3. [status |-> "draft", quota |-> limit, used |-> 0, limit |-> limit] \in TokenRow
        BY <2>2 DEF TokenRow
    <2>4. tokens' = [tokens EXCEPT ![t] = [status |-> "draft", quota |-> limit,
                                           used |-> 0, limit |-> limit]]
        BY <1>1 DEF DraftToken, limit
    <2> QED BY <1>1, <2>3, <2>4 DEF DraftToken, TypeOK
<1>2. ASSUME NEW s \in {"active", "disabled", "deleted"},
             tokens' = [tokens EXCEPT ![t].status = s],
             UNCHANGED <<users, reqs, grants, subs, books, faults>>
      PROVE TypeOK'
    <2>1. [tokens[t] EXCEPT !.status = s] \in TokenRow
        BY DEF TypeOK, TokenRow
    <2> QED BY <1>2, <2>1 DEF TypeOK
<1> QED BY <1>1, <1>2 DEF TokenNext, CreateToken, UpdateTokenStatus, DeleteToken

LEMMA RequestStep ==
    ASSUME TypeOK, NEW r \in Requests, RequestNext(r) PROVE TypeOK'
<1> USE BillingAssumption, RequestFields, IdleReqType
<1>0. ASSUME NEW t \in Tokens, ReadKey(r, t) PROVE TypeOK'
    <2> DEFINE x == [IdleReq EXCEPT !.pc = "keyRead", !.tok = t,
                                    !.tokenCopy = Sign(tokens[t].quota)]
    <2>1. tokens[t].quota \in Quota
        BY DEF TypeOK, TokenRow
    <2>2. x \in Request /\ x.tok \in Tokens
        BY <2>1, SignRange DEF Request, IdleReq
    <2>3. reqs' = [reqs EXCEPT ![r] = x]
        BY <1>0 DEF ReadKey
    <2> HIDE DEF x
    <2> QED BY <1>0, <2>2, <2>3, RequestUpdate DEF ReadKey, TypeOK
<1>1. CASE Admit(r)
    <2> DEFINE copy == Sign(users[Payer(r)].quota)
               x == [reqs[r] EXCEPT !.pc = "admitted", !.userCopy = copy, !.fresh = TRUE]
    <2>1. reqs[r].pc # "idle" /\ Payer(r) \in Users
        BY <1>1 DEF Admit
    <2>2. copy \in -1..1
        BY <2>1, SignRange DEF TypeOK, UserRow
    <2> HIDE DEF copy
    <2>3. x \in Request /\ x.tok \in Tokens
        BY <2>1, <2>2 DEF Request
    <2>4. reqs' = [reqs EXCEPT ![r] = x]
        BY <1>1 DEF Admit, copy
    <2> HIDE DEF x
    <2> QED BY <1>1, <2>3, <2>4, RequestUpdate DEF Admit, TypeOK
<1>2. CASE AnswerFree(r)
    BY <1>2, RequestUpdate DEF AnswerFree, TypeOK
<1>3. ASSUME NEW c \in 1..MaxCost, Answer(r, c) PROVE TypeOK'
    <2> DEFINE x == [reqs[r] EXCEPT !.pc = "chargeToken", !.cost = c]
    <2>1. reqs[r].pc # "idle"
        BY <1>3 DEF Answer
    <2>2. x \in Request /\ x.tok \in Tokens
        <3>1. reqs[r] \in Request /\ reqs[r].tok \in Tokens /\ c \in 0..MaxCost
            BY <2>1
        <3> QED BY <3>1 DEF Request
    <2>3. reqs' = [reqs EXCEPT ![r] = x]
        BY <1>3 DEF Answer
    <2>4. [books[Payer(r)] EXCEPT !.delivered = @ + c] \in Books
        <3>1. books[Payer(r)] \in Books /\ c \in Nat
            BY <2>1 DEF TypeOK
        <3> QED BY <3>1 DEF Books
    <2>5. books' \in [Users -> Books]
        BY <1>3, <2>1, <2>4 DEF TypeOK, Answer
    <2> HIDE DEF x
    <2> QED BY <1>3, <2>2, <2>3, <2>5, RequestUpdate DEF Answer, TypeOK
<1>4. CASE ChargeToken(r)
    <2> DEFINE x == [reqs[r] EXCEPT !.pc = "chargeUser"]
               t == reqs[r].tok
    <2>1. reqs[r].pc # "idle" /\ t \in Tokens
        BY <1>4 DEF ChargeToken
    <2>2. x \in Request /\ x.tok \in Tokens
        BY <2>1 DEF Request
    <2>3. reqs' = [reqs EXCEPT ![r] = x]
        BY <1>4 DEF ChargeToken
    <2>4. Charged(tokens[t], reqs[r].tokenCopy, reqs[r].cost) \in TokenRow
        BY <2>1, ChargedRow DEF TypeOK
    <2>5. tokens' \in [Tokens -> TokenRow]
        BY <1>4, <2>1, <2>4 DEF ChargeToken, TypeOK
    <2>6. faults' \in 0..MaxFaults
        BY <1>4 DEF ChargeToken, TypeOK
    <2> HIDE DEF x
    <2> QED BY <1>4, <2>2, <2>3, <2>5, <2>6, RequestUpdate DEF ChargeToken, TypeOK
<1>5. CASE ChargeUser(r)
    <2> DEFINE u == Payer(r)
    <2>1. reqs[r].pc # "idle" /\ u \in Users
        BY <1>5 DEF ChargeUser
    <2>2. reqs' = [reqs EXCEPT ![r] = IdleReq]
        BY <1>5 DEF ChargeUser
    <2>3. Charged(users[u], reqs[r].userCopy, reqs[r].cost) \in UserRow
        BY <2>1, ChargedRow DEF TypeOK
    <2>4. users' \in [Users -> UserRow]
        BY <1>5, <2>1, <2>3 DEF ChargeUser, TypeOK
    <2>5. /\ [books[u] EXCEPT !.spent = IF Counted(r) THEN @ + reqs[r].cost ELSE @] \in Books
          /\ [books[u] EXCEPT !.lost = @ + reqs[r].cost] \in Books
        BY <2>1 DEF TypeOK, Books
    <2>6. books' \in [Users -> Books]
        BY <1>5, <2>1, <2>5 DEF ChargeUser, TypeOK
    <2>7. faults' \in 0..MaxFaults
        BY <1>5 DEF ChargeUser, TypeOK
    <2> QED BY <1>5, <2>2, <2>4, <2>6, <2>7, RequestUpdate DEF ChargeUser, TypeOK
<1>6. CASE RequestDies(r)
    <2>1. reqs[r].pc # "idle" /\ Payer(r) \in Users
        BY <1>6 DEF RequestDies
    <2>2. [books[Payer(r)] EXCEPT !.lost = IF Owing(r) THEN @ + reqs[r].cost ELSE @] \in Books
        BY <2>1 DEF TypeOK, Books
    <2>3. books' \in [Users -> Books]
        BY <1>6, <2>1, <2>2 DEF RequestDies, TypeOK
    <2> QED BY <1>6, <2>1, <2>3, RequestUpdate DEF RequestDies, TypeOK
<1> QED BY <1>0, <1>1, <1>2, <1>3, <1>4, <1>5, <1>6 DEF RequestNext

\* What an admin's write of a quota leaves of the types.
LEMMA WriteQuotaStep ==
    ASSUME TypeOK, NEW u \in Users, NEW q \in Quota, WriteQuota(u, q)
    PROVE  /\ users' \in [Users -> UserRow]
           /\ reqs' \in [Requests -> Request]
           /\ \A r \in Requests : reqs'[r].pc # "idle" => reqs'[r].tok \in Tokens
           /\ books' \in [Users -> Books]
<1>1. [users[u] EXCEPT !.quota = q] \in UserRow
    BY DEF TypeOK, UserRow
<1>2. [books[u] EXCEPT !.budget = q, !.spent = 0] \in Books
    BY DEF TypeOK, Books
<1>3. ASSUME NEW r \in Requests
      PROVE  reqs'[r] \in Request /\ reqs'[r].pc = reqs[r].pc /\ reqs'[r].tok = reqs[r].tok
    <2>1. reqs'[r] \in {reqs[r], [reqs[r] EXCEPT !.fresh = FALSE]}
        BY DEF WriteQuota
    <2> QED BY <2>1, RequestFields DEF Request
<1> QED BY <1>1, <1>2, <1>3 DEF TypeOK, WriteQuota

LEMMA GrantStep ==
    ASSUME TypeOK, NEW g \in Grants, GrantNext(g) PROVE TypeOK'
<1> USE BillingAssumption
<1>0. /\ NewGrant \in GrantOp
      /\ \A pc \in {"done", "dead"} : [NewGrant EXCEPT !.pc = pc] \in GrantOp
    BY DEF NewGrant, GrantOp, Quota
<1>1. ASSUME NEW u \in Users, NEW q \in PlanQuotas, GrantRead(g, u, q) PROVE TypeOK'
    <2>1. [pc |-> "planRead", user |-> u, userQuota |-> users[u].quota, quota |-> q] \in GrantOp
        BY DEF TypeOK, UserRow, GrantOp
    <2> QED BY <1>1, <2>1 DEF GrantRead, TypeOK
<1>2. CASE GrantCreate(g)
    <2>1. [grants[g] EXCEPT !.pc = "subCreated"] \in GrantOp
        BY DEF TypeOK, GrantOp
    <2>2. grants' \in [Grants -> GrantOp]
        BY <1>0, <1>2, <2>1 DEF GrantCreate, TypeOK
    <2>3. /\ faults' \in 0..MaxFaults
          /\ subs' \in [Grants -> {"none", "active", "expired", "cancelled"}]
        BY <1>2 DEF GrantCreate, TypeOK
    <2> QED BY <1>2, <2>2, <2>3 DEF GrantCreate, TypeOK
<1>3. CASE GrantApply(g)
    <2> DEFINE u == grants[g].user
               q == TopUp(grants[g].userQuota, grants[g].quota)
    <2>1. u \in Users /\ grants[g].userQuota \in Quota /\ grants[g].quota \in Quota
        BY DEF TypeOK, GrantOp
    <2>2. WritesQuota(grants[g].userQuota, grants[g].quota) => q \in Quota
        BY <2>1 DEF WritesQuota, TopUp, Quota, Unlimited
    <2>3. grants' \in [Grants -> GrantOp]
        BY <1>0, <1>3 DEF GrantApply, TypeOK
    <2>4. faults' \in 0..MaxFaults /\ UNCHANGED <<tokens, subs>>
        BY <1>3 DEF GrantApply, TypeOK
    <2>5. \/ q \in Quota /\ WriteQuota(u, q)
          \/ UNCHANGED <<users, reqs, books>>
        BY <1>3, <2>2 DEF GrantApply
    <2> QED BY <2>1, <2>3, <2>4, <2>5, WriteQuotaStep DEF TypeOK
<1>4. CASE GrantDies(g)
    BY <1>0, <1>4 DEF GrantDies, TypeOK
<1>5. CASE Cancel(g)
    BY <1>5 DEF Cancel, TypeOK
<1> QED BY <1>1, <1>2, <1>3, <1>4, <1>5 DEF GrantNext

\* The type invariant is inductive.
LEMMA TypeStep == TypeOK /\ [Next]_vars => TypeOK'
<1> SUFFICES ASSUME TypeOK, [Next]_vars PROVE TypeOK'
    OBVIOUS
<1>1. ASSUME NEW u \in Users, NEW q \in AdminQuotas, UpdateQuota(u, q) PROVE TypeOK'
    <2>1. q \in Quota /\ WriteQuota(u, q)
        BY <1>1, BillingAssumption DEF UpdateQuota
    <2> QED BY <1>1, <2>1, WriteQuotaStep DEF UpdateQuota, TypeOK
<1>2. ASSUME NEW due \in SUBSET Grants, ExpireDue(due) PROVE TypeOK'
    BY <1>2 DEF ExpireDue, TypeOK
<1>3. CASE UNCHANGED vars
    BY <1>3 DEF vars, TypeOK
<1> QED BY <1>1, <1>2, <1>3, TokenStep, RequestStep, GrantStep DEF Next

\* The columns, the handlers' records and the history stay in their types:
\* above all, quota is never below -1 (DeductQuota, Grant, UpdateQuota).
THEOREM TypeCorrect == Spec => []TypeOK
<1>1. Init => TypeOK
    <2>1. NewGrant \in GrantOp
        BY BillingAssumption DEF NewGrant, GrantOp, Quota
    <2> QED BY <2>1, BillingAssumption, IdleReqType
            DEF Init, TypeOK, UserRow, TokenRow, Books, Quota
<1> QED BY <1>1, TypeStep, PTL DEF Spec

----------------------------------------------------------------------------
(* Billing implements UsageLedger.                                         *)

\* A handler that owes something owes a positive amount.
OwingCosts == \A r \in Requests : Owing(r) => reqs[r].cost \in 1..MaxCost

LEMMA OwingCostsStep ==
    ASSUME TypeOK, OwingCosts, [Next]_vars PROVE OwingCosts'
<1> SUFFICES ASSUME NEW s \in Requests, Owing(s)' PROVE reqs'[s].cost \in 1..MaxCost
    BY DEF OwingCosts
<1> USE BillingAssumption DEF TypeOK, OwingCosts, Owing
<1>1. ASSUME NEW r \in Requests, RequestNext(r) PROVE reqs'[s].cost \in 1..MaxCost
    <2>1. Admit(r) \/ (\E t \in Tokens : ReadKey(r, t)) => reqs'[s].cost \in 1..MaxCost
        <3>1. CASE Admit(r)
            BY <3>1 DEF Admit, Request
        <3>2. ASSUME NEW t \in Tokens, ReadKey(r, t) PROVE reqs'[s].cost \in 1..MaxCost
            <4>1. s # r
                BY <3>2 DEF ReadKey, IdleReq
            <4> QED BY <3>2, <4>1 DEF ReadKey
        <3> QED BY <3>1, <3>2
    <2>2. AnswerFree(r) => reqs'[s].cost \in 1..MaxCost
        BY DEF AnswerFree, IdleReq
    <2>3. \A c \in 1..MaxCost : Answer(r, c) => reqs'[s].cost \in 1..MaxCost
        BY DEF Answer, Request
    <2>4. ChargeToken(r) => reqs'[s].cost \in 1..MaxCost
        BY DEF ChargeToken, Request
    <2>5. ChargeUser(r) \/ RequestDies(r) => reqs'[s].cost \in 1..MaxCost
        BY DEF ChargeUser, RequestDies, IdleReq
    <2> QED BY <1>1, <2>1, <2>2, <2>3, <2>4, <2>5 DEF RequestNext
<1>2. ASSUME NEW u, NEW q, WriteQuota(u, q) PROVE reqs'[s].cost \in 1..MaxCost
    <2>1. reqs'[s] \in {reqs[s], [reqs[s] EXCEPT !.fresh = FALSE]}
        BY <1>2 DEF WriteQuota
    <2> QED BY <2>1 DEF Request
<1>3. ASSUME NEW g \in Grants, GrantNext(g) PROVE reqs'[s].cost \in 1..MaxCost
    BY <1>2, <1>3 DEF GrantNext, GrantRead, GrantCreate, GrantApply, GrantDies, Cancel
<1>4. CASE UNCHANGED reqs
    BY <1>4
<1> QED BY <1>1, <1>2, <1>3, <1>4
        DEF Next, TokenNext, DraftToken, CreateToken, UpdateTokenStatus, DeleteToken, UpdateQuota,
            ExpireDue, vars

\* Steps that leave alone who owes what leave the debts alone.
LEMMA SameDebts ==
    ASSUME \A r \in Requests : /\ Owing(r)' = Owing(r)
                               /\ Owing(r) => DebtOf(r)' = DebtOf(r)
    PROVE  Debts' = Debts
BY DEF Debts

\* A handler that stops owing takes its debt, and only its debt, away.
LEMMA DebtGone ==
    ASSUME NEW r \in Requests, Owing(r), ~Owing(r)',
           \A s \in Requests \ {r} : Owing(s)' = Owing(s) /\ DebtOf(s)' = DebtOf(s)
    PROVE  Debts' = Debts \ {DebtOf(r)}
<1>1. \A s \in Requests : DebtOf(s).handler = s
    BY DEF DebtOf
<1>2. \A s \in Requests \ {r} : DebtOf(s) # DebtOf(r)
    BY <1>1
<1> QED BY <1>2 DEF Debts

LEMMA DebtNew ==
    ASSUME NEW r \in Requests, ~Owing(r), Owing(r)',
           \A s \in Requests \ {r} : Owing(s)' = Owing(s) /\ DebtOf(s)' = DebtOf(s)
    PROVE  Debts' = Debts \cup {DebtOf(r)'}
BY DEF Debts

\* What happens to one request record decides what happens to its debt.
LEMMA OtherDebts ==
    ASSUME TypeOK, NEW r \in Requests, NEW x, reqs' = [reqs EXCEPT ![r] = x]
    PROVE  /\ \A s \in Requests \ {r} : Owing(s)' = Owing(s) /\ DebtOf(s)' = DebtOf(s)
           /\ Owing(r)' = (x.pc \in {"chargeToken", "chargeUser"})
           /\ x.tok = reqs[r].tok /\ x.cost = reqs[r].cost => DebtOf(r)' = DebtOf(r)
BY DEF TypeOK, Owing, DebtOf, Payer

\* A handler that owes nothing before or after its step changes no debt.
LEMMA NoDebt ==
    ASSUME TypeOK, NEW r \in Requests, NEW x, reqs' = [reqs EXCEPT ![r] = x],
           ~Owing(r), x.pc \notin {"chargeToken", "chargeUser"}
    PROVE  Debts' = Debts
<1>1. ~Owing(r)'
    BY DEF TypeOK, Owing
<1>2. \A s \in Requests \ {r} : Owing(s)' = Owing(s) /\ DebtOf(s)' = DebtOf(s)
    BY OtherDebts
<1> QED BY <1>1, <1>2 DEF Debts

LEMMA LedgerRequestStep ==
    ASSUME TypeOK, OwingCosts, NEW r \in Requests, RequestNext(r)
    PROVE  [Ledger!Next]_Ledger!vars
<1> USE RequestFields DEF Ledger!vars
<1>0. ASSUME NEW t \in Tokens, ReadKey(r, t) PROVE UNCHANGED <<UsedQuota, Debts>>
    <2> DEFINE x == [IdleReq EXCEPT !.pc = "keyRead", !.tok = t,
                                    !.tokenCopy = Sign(tokens[t].quota)]
    <2>1. reqs' = [reqs EXCEPT ![r] = x] /\ ~Owing(r) /\ x.pc = "keyRead"
        BY <1>0 DEF ReadKey, Owing, IdleReq
    <2>2. Debts' = Debts
        <3> HIDE DEF x
        <3> QED BY <2>1, NoDebt
    <2> QED BY <1>0, <2>2 DEF ReadKey, UsedQuota
<1>1. CASE Admit(r)
    <2> DEFINE x == [reqs[r] EXCEPT !.pc = "admitted", !.fresh = TRUE,
                                    !.userCopy = Sign(users[Payer(r)].quota)]
    <2>1. reqs' = [reqs EXCEPT ![r] = x] /\ ~Owing(r) /\ x.pc = "admitted"
        BY <1>1 DEF Admit, Owing, Request
    <2>2. Debts' = Debts
        <3> HIDE DEF x
        <3> QED BY <2>1, NoDebt
    <2> QED BY <1>1, <2>2 DEF Admit, UsedQuota
<1>2. CASE AnswerFree(r)
    <2>1. reqs' = [reqs EXCEPT ![r] = IdleReq] /\ ~Owing(r) /\ IdleReq.pc = "idle"
        BY <1>2 DEF AnswerFree, Owing, IdleReq
    <2>2. Debts' = Debts
        BY <2>1, NoDebt
    <2> QED BY <1>2, <2>2 DEF AnswerFree, UsedQuota
<1>3. ASSUME NEW c \in 1..MaxCost, Answer(r, c) PROVE Ledger!Next
    <2> DEFINE x == [reqs[r] EXCEPT !.pc = "chargeToken", !.cost = c]
    <2>1. reqs' = [reqs EXCEPT ![r] = x] /\ ~Owing(r) /\ reqs[r].pc = "admitted"
        BY <1>3 DEF Answer, Owing
    <2>2. x.pc = "chargeToken" /\ x.cost = c /\ x.tok = reqs[r].tok
        BY DEF Request
    <2>3. Debts' = Debts \cup {DebtOf(r)'}
        BY <2>1, <2>2, OtherDebts, DebtNew
    <2>4. DebtOf(r)' = [handler |-> r, account |-> Payer(r), cost |-> c]
        BY <2>1, <2>2 DEF DebtOf, Payer, TypeOK
    <2>5. DebtOf(r)' \in Ledger!Debt
        BY <2>1, <2>4 DEF Ledger!Debt
    <2>6. \A e \in Debts : e.handler # DebtOf(r)'.handler
        BY <2>1, <2>4 DEF Debts, DebtOf
    <2>7. UsedQuota' = UsedQuota
        BY <1>3 DEF Answer, UsedQuota
    <2> QED BY <2>3, <2>5, <2>6, <2>7 DEF Ledger!Next, Ledger!Incur
<1>4. CASE ChargeToken(r)
    <2> DEFINE x == [reqs[r] EXCEPT !.pc = "chargeUser"]
    <2>1. reqs' = [reqs EXCEPT ![r] = x] /\ Owing(r)
        BY <1>4 DEF ChargeToken, Owing
    <2>2. x.pc = "chargeUser" /\ x.cost = reqs[r].cost /\ x.tok = reqs[r].tok
        BY DEF Request
    <2> HIDE DEF x
    <2>3. Owing(r)' /\ DebtOf(r)' = DebtOf(r)
        BY <2>1, <2>2, OtherDebts DEF TypeOK, Owing
    <2>4. \A s \in Requests \ {r} : Owing(s)' = Owing(s) /\ DebtOf(s)' = DebtOf(s)
        BY <2>1, OtherDebts
    <2>5. Debts' = Debts
        BY <2>1, <2>3, <2>4 DEF Debts
    <2> QED BY <1>4, <2>5 DEF ChargeToken, UsedQuota
<1>5. ASSUME reqs' = [reqs EXCEPT ![r] = IdleReq]
      PROVE  Debts' = IF Owing(r) THEN Debts \ {DebtOf(r)} ELSE Debts
    <2>1. ~Owing(r)'
        BY <1>5 DEF Owing, IdleReq, TypeOK
    <2>2. CASE Owing(r)
        BY <1>5, <2>1, <2>2, OtherDebts, DebtGone
    <2>3. CASE ~Owing(r)
        BY <1>5, <2>3, NoDebt DEF IdleReq
    <2> QED BY <2>2, <2>3
<1>6. CASE ChargeUser(r)
    <2> DEFINE u == Payer(r)
               row == Charged(users[u], reqs[r].userCopy, reqs[r].cost)
    <2>1. Owing(r) /\ u \in Users
        BY <1>6 DEF ChargeUser, Owing
    <2>2. Debts' = Debts \ {DebtOf(r)}
        BY <1>5, <1>6, <2>1 DEF ChargeUser
    <2>3. CASE users' = users
        BY <2>2, <2>3 DEF Ledger!Next, Ledger!WriteOff, UsedQuota
    <2>4. CASE users' = [users EXCEPT ![u] = row]
        <3>1. row.used = users[u].used + reqs[r].cost
            BY <2>1 DEF Charged, TypeOK, UserRow
        <3>2. UsedQuota' = [UsedQuota EXCEPT ![u] = @ + reqs[r].cost]
            <4> HIDE DEF row
            <4> QED BY <2>1, <2>4, <3>1 DEF UsedQuota, TypeOK
        <3>3. DebtOf(r) \in Debts /\ DebtOf(r).account = u /\ DebtOf(r).cost = reqs[r].cost
            BY <2>1 DEF Debts, DebtOf
        <3>4. DebtOf(r) \in Ledger!Debt
            BY <2>1 DEF DebtOf, Ledger!Debt, OwingCosts
        <3> QED BY <2>2, <3>2, <3>3, <3>4 DEF Ledger!Next, Ledger!Settle
    <2> QED BY <1>6, <2>3, <2>4 DEF ChargeUser
<1>7. CASE RequestDies(r)
    <2>1. Debts' \subseteq Debts
        BY <1>5, <1>7 DEF RequestDies
    <2> QED BY <1>7, <2>1 DEF RequestDies, Ledger!Next, Ledger!WriteOff, UsedQuota
<1> QED BY <1>0, <1>1, <1>2, <1>3, <1>4, <1>6, <1>7 DEF RequestNext

LEMMA LedgerWriteQuota ==
    ASSUME TypeOK, NEW u \in Users, NEW q, WriteQuota(u, q)
    PROVE  UNCHANGED <<UsedQuota, Debts>>
<1>1. \A r \in Requests : /\ reqs'[r].pc = reqs[r].pc
                          /\ reqs'[r].tok = reqs[r].tok
                          /\ reqs'[r].cost = reqs[r].cost
    <2> SUFFICES ASSUME NEW r \in Requests
                 PROVE  reqs'[r].pc = reqs[r].pc /\ reqs'[r].tok = reqs[r].tok
                                                 /\ reqs'[r].cost = reqs[r].cost
        OBVIOUS
    <2>1. reqs'[r] \in {reqs[r], [reqs[r] EXCEPT !.fresh = FALSE]}
        BY DEF WriteQuota
    <2> QED BY <2>1, RequestFields DEF Request
<1>2. Debts' = Debts
    BY <1>1, SameDebts DEF Owing, DebtOf, Payer
<1>3. UsedQuota' = UsedQuota
    <2>1. [users[u] EXCEPT !.quota = q].used = users[u].used
        BY DEF TypeOK, UserRow
    <2> QED BY <2>1 DEF WriteQuota, UsedQuota, TypeOK
<1> QED BY <1>2, <1>3

\* Each priced answer is one debt, settled once for exactly its cost on the
\* account that asked, or written off: DeductQuota under any interleaving
\* with admin writes, grants, crashes and failed statements.
THEOREM MeteringRefinesLedger == Spec => MetersUsage
<1> USE DEF Ledger!vars
<1>1. Init => Ledger!Init
    BY DEF Init, Ledger!Init, Debts, UsedQuota, Owing, IdleReq
<1>2. Init => OwingCosts
    BY DEF Init, OwingCosts, Owing, IdleReq
<1>3. TypeOK /\ OwingCosts /\ [Next]_vars => [Ledger!Next]_Ledger!vars
    <2> SUFFICES ASSUME TypeOK, OwingCosts, [Next]_vars PROVE [Ledger!Next]_Ledger!vars
        OBVIOUS
    <2>1. CASE UNCHANGED <<users, reqs>>
        BY <2>1 DEF UsedQuota, Debts, DebtOf, Owing, Payer
    <2>2. ASSUME NEW u \in Users, NEW q, WriteQuota(u, q) PROVE [Ledger!Next]_Ledger!vars
        BY <2>2, LedgerWriteQuota
    <2>3. ASSUME NEW g \in Grants, GrantNext(g) PROVE [Ledger!Next]_Ledger!vars
        <3>1. grants[g].user \in Users
            BY DEF TypeOK, GrantOp
        <3> QED BY <2>1, <2>2, <2>3, <3>1
                DEF GrantNext, GrantRead, GrantCreate, GrantApply, GrantDies, Cancel
    <2> QED BY <2>1, <2>2, <2>3, LedgerRequestStep
            DEF Next, TokenNext, DraftToken, CreateToken, UpdateTokenStatus, DeleteToken, UpdateQuota,
                ExpireDue, vars
<1>4. TypeOK /\ OwingCosts /\ [Next]_vars => OwingCosts'
    BY OwingCostsStep
<1> QED BY <1>1, <1>2, <1>3, <1>4, TypeCorrect, PTL DEF Spec, MetersUsage, Ledger!Spec

----------------------------------------------------------------------------
(* Action properties.                                                      *)

\* A charge takes from a metered row, whatever the copy said.
LEMMA ChargedTakes ==
    ASSUME NEW m, NEW c \in Nat, NEW row \in UserRow \cup TokenRow, row.quota # Unlimited
    PROVE  Charged(row, m, c).quota \in 0..row.quota
<1>1. row.quota \in Nat /\ row.quota \in Quota
    BY DEF UserRow, TokenRow, Quota, Unlimited
<1>2. Deduct(row.quota, c) \in 0..row.quota
    <2>1. Deduct(row.quota, c) \in Nat /\ Deduct(row.quota, c) <= row.quota
        BY <1>1, DeductBounds
    <2> QED BY <1>1, <2>1
<1>3. CASE m # Unlimited
    BY <1>1, <1>2, <1>3 DEF Charged, UserRow, TokenRow
<1>4. CASE m = Unlimited
    BY <1>1, <1>4 DEF Charged, UserRow, TokenRow
<1> QED BY <1>3, <1>4

LEMMA ChargeStep ==
    ASSUME TypeOK, [Next]_vars
    PROVE  /\ \A u \in Users :
                users'[u].used # users[u].used /\ users[u].quota # Unlimited =>
                    users'[u].quota \in 0..users[u].quota
           /\ \A t \in Tokens :
                tokens'[t].used > tokens[t].used /\ tokens[t].quota # Unlimited =>
                    tokens'[t].quota \in 0..tokens[t].quota
<1> USE DEF TypeOK
<1>1. ASSUME NEW u \in Users, NEW q, WriteQuota(u, q)
      PROVE  \A v \in Users : users'[v].used = users[v].used
    BY <1>1 DEF WriteQuota, UserRow
<1>2. CASE \A u \in Users : users'[u].used = users[u].used
    <2>1. CASE UNCHANGED tokens
        BY <1>2, <2>1 DEF TokenRow
    <2>2. ASSUME NEW r \in Requests, ChargeToken(r)
          PROVE  \A t \in Tokens :
                    tokens'[t].used > tokens[t].used /\ tokens[t].quota # Unlimited =>
                        tokens'[t].quota \in 0..tokens[t].quota
        <3>1. reqs[r].pc # "idle" /\ reqs[r].tok \in Tokens /\ reqs[r].cost \in Nat
            BY <2>2, RequestFields DEF ChargeToken
        <3>2. \A t \in Tokens :
                 tokens'[t] = tokens[t] \/ tokens'[t] = Charged(tokens[t], reqs[r].tokenCopy, reqs[r].cost)
            BY <2>2, <3>1 DEF ChargeToken
        <3> QED BY <3>1, <3>2, ChargedTakes DEF TokenRow
    <2>3. ASSUME NEW t \in Tokens, TokenNext(t)
          PROVE  \A s \in Tokens : ~(tokens'[s].used > tokens[s].used)
        BY <2>3 DEF TokenNext, DraftToken, CreateToken, UpdateTokenStatus, DeleteToken, TokenRow
    <2>4. ASSUME NEW r \in Requests, RequestNext(r), ~ChargeToken(r) PROVE UNCHANGED tokens
        BY <2>4 DEF RequestNext, ReadKey, Admit, AnswerFree, Answer, ChargeUser, RequestDies
    <2>5. ASSUME NEW g \in Grants, GrantNext(g) PROVE UNCHANGED tokens
        BY <2>5 DEF GrantNext, GrantRead, GrantCreate, GrantApply, GrantDies, Cancel
    <2>6. CASE \E t \in Tokens : TokenNext(t)
        BY <1>2, <2>3, <2>6 DEF TokenRow
    <2> QED BY <1>2, <2>1, <2>2, <2>4, <2>5, <2>6 DEF Next, vars, UpdateQuota, ExpireDue
<1>3. ASSUME NEW r \in Requests, ChargeUser(r)
      PROVE  /\ UNCHANGED tokens
             /\ \A u \in Users :
                  users'[u].used # users[u].used /\ users[u].quota # Unlimited =>
                      users'[u].quota \in 0..users[u].quota
    <2>1. Payer(r) \in Users /\ reqs[r].cost \in Nat
        BY <1>3, RequestFields DEF ChargeUser
    <2>2. \A u \in Users :
             users'[u] = users[u] \/ users'[u] = Charged(users[u], reqs[r].userCopy, reqs[r].cost)
        BY <1>3, <2>1 DEF ChargeUser
    <2> QED BY <1>3, <2>1, <2>2, ChargedTakes DEF ChargeUser
<1>4. ASSUME NEW r \in Requests, RequestNext(r), ~ChargeUser(r) PROVE UNCHANGED users
    BY <1>4 DEF RequestNext, ReadKey, Admit, AnswerFree, Answer, ChargeToken, RequestDies
<1>5. ASSUME NEW g \in Grants, GrantNext(g) PROVE \A u \in Users : users'[u].used = users[u].used
    BY <1>1, <1>5 DEF GrantNext, GrantRead, GrantCreate, GrantApply, GrantDies, Cancel, GrantOp
<1>6. ASSUME NEW t \in Tokens, TokenNext(t) PROVE UNCHANGED users
    BY <1>6 DEF TokenNext, DraftToken, CreateToken, UpdateTokenStatus, DeleteToken
<1>7. CASE \E r \in Requests : ChargeUser(r)
    BY <1>3, <1>7 DEF TokenRow
<1>8. CASE ~\E r \in Requests : ChargeUser(r)
    <2>1. \A u \in Users : users'[u].used = users[u].used
        BY <1>1, <1>4, <1>5, <1>6, <1>8 DEF Next, vars, UpdateQuota, ExpireDue
    <2> QED BY <1>2, <2>1
<1> QED BY <1>7, <1>8

\* Charging a metered account or key never leaves it richer, and never turns
\* a spent balance into the -1 that means unlimited, for any cost and however
\* old the copies are that DeductQuota decides by.
THEOREM ChargesNeverFund == Spec => ChargeNeverFunds
<1>1. TypeOK /\ [Next]_vars =>
        [/\ \A u \in Users :
              users'[u].used # users[u].used /\ users[u].quota # Unlimited =>
                  users'[u].quota \in 0..users[u].quota
         /\ \A t \in Tokens :
              tokens'[t].used > tokens[t].used /\ tokens[t].quota # Unlimited =>
                  tokens'[t].quota \in 0..tokens[t].quota]_vars
    BY ChargeStep
<1> QED BY <1>1, TypeCorrect, PTL DEF Spec, ChargeNeverFunds

\* A grant that has not inserted its subscription has none.
Unborn(g) == grants[g].pc \in {"new", "planRead"} => subs[g] = "none"
UnbornSubs == \A g \in Grants : Unborn(g)

LEMMA SubscriptionStep ==
    ASSUME TypeOK, UnbornSubs, [Next]_vars
    PROVE  /\ UnbornSubs'
           /\ \A g \in Grants : subs[g] \in {"expired", "cancelled"} => subs'[g] = subs[g]
<1> USE DEF TypeOK, UnbornSubs, Unborn
<1>1. CASE UNCHANGED <<grants, subs>>
    BY <1>1
<1>2. ASSUME NEW g \in Grants, GrantCreate(g)
      PROVE  /\ UnbornSubs'
             /\ \A h \in Grants : subs[h] \in {"expired", "cancelled"} => subs'[h] = subs[h]
    BY <1>2 DEF GrantCreate, GrantOp, NewGrant
<1>3. ASSUME NEW g \in Grants, NEW u \in Users, NEW q \in PlanQuotas, GrantRead(g, u, q)
      PROVE  UnbornSubs' /\ UNCHANGED subs
    BY <1>3 DEF GrantRead, GrantOp
<1>4. ASSUME NEW g \in Grants, GrantApply(g) \/ GrantDies(g)
      PROVE  UnbornSubs' /\ UNCHANGED subs
    BY <1>4 DEF GrantApply, GrantDies, GrantOp, NewGrant
<1>5. ASSUME NEW g \in Grants, Cancel(g)
      PROVE  /\ UnbornSubs'
             /\ \A h \in Grants : subs[h] \in {"expired", "cancelled"} => subs'[h] = subs[h]
    BY <1>5 DEF Cancel
<1>6. ASSUME NEW due \in SUBSET Grants, ExpireDue(due)
      PROVE  /\ UnbornSubs'
             /\ \A h \in Grants : subs[h] \in {"expired", "cancelled"} => subs'[h] = subs[h]
    BY <1>6 DEF ExpireDue
<1>7. ASSUME NEW r \in Requests, RequestNext(r) PROVE UNCHANGED <<grants, subs>>
    BY <1>7 DEF RequestNext, ReadKey, Admit, AnswerFree, Answer, ChargeToken, ChargeUser, RequestDies
<1>8. ASSUME NEW t \in Tokens, TokenNext(t) PROVE UNCHANGED <<grants, subs>>
    BY <1>8 DEF TokenNext, DraftToken, CreateToken, UpdateTokenStatus, DeleteToken
<1> QED BY <1>1, <1>2, <1>3, <1>4, <1>5, <1>6, <1>7, <1>8
        DEF Next, GrantNext, UpdateQuota, vars

\* An expired or cancelled subscription never comes back, in whatever order
\* grants, cancellations and any number of expireDue calls run.
THEOREM SubscriptionsEndOnce == Spec => SubscriptionEndsOnce
<1>1. Init => UnbornSubs
    BY DEF Init, UnbornSubs, Unborn
<1>2. TypeOK /\ UnbornSubs /\ [Next]_vars =>
        /\ UnbornSubs'
        /\ [\A g \in Grants : subs[g] \in {"expired", "cancelled"} => subs'[g] = subs[g]]_vars
    BY SubscriptionStep
<1> QED BY <1>1, <1>2, TypeCorrect, PTL DEF Spec, SubscriptionEndsOnce

----------------------------------------------------------------------------
(* Sums over the handlers.  MapThenSumSet takes a set apart member by      *)
(* member, in the order CHOOSE gives; these lemmas are its laws.           *)

\* What holds of the empty set, and of a set when it holds of the set less
\* any one member, holds of every finite set.
LEMMA SubsetInduction ==
    ASSUME NEW X, IsFiniteSet(X), NEW Good \in SUBSET (SUBSET X), {} \in Good,
           \A A \in SUBSET X : A # {} /\ (\A x \in A : A \ {x} \in Good) => A \in Good
    PROVE  X \in Good
<1> DEFINE Bad == (SUBSET X) \ Good
<1>1. SUFFICES ASSUME Bad # {} PROVE FALSE
    OBVIOUS
<1>2. IsWellFoundedOn(StrictSubsetOrdering(X), SUBSET X)
    BY FS_StrictSubsetOrderingWellFounded, FS_FiniteSubsetsOfFinite
<1>3. PICK A \in Bad : \A D \in Bad : <<D, A>> \notin StrictSubsetOrdering(X)
    <2>1. Bad \subseteq SUBSET X OBVIOUS
    <2> HIDE DEF Bad
    <2> QED BY <1>1, <1>2, <2>1, WFMin
<1>4. ASSUME NEW x \in A PROVE A \ {x} \in Good
    <2>1. A \ {x} \in SUBSET X /\ A \in SUBSET X /\ A \ {x} # A OBVIOUS
    <2>2. <<A \ {x}, A>> \in StrictSubsetOrdering(X)
        BY <2>1 DEF StrictSubsetOrdering
    <2> QED BY <1>3, <2>1, <2>2
<1>5. A # {} BY <1>3
<1> QED BY <1>3, <1>4, <1>5

\* MapThenSumSet takes the members of a set in the order CHOOSE gives them.
First(s) == CHOOSE x \in s : TRUE

\* f adds up c over every subset of X, in that order.
Adds(f, c, X) ==
    f = [s \in SUBSET X |-> IF s = {} THEN 0 ELSE c[First(s)] + f[s \ {First(s)}]]

\* CHOOSE takes a member, where there is one.
LEMMA FirstIn == ASSUME NEW s, s # {} PROVE First(s) \in s
BY DEF First

\* One unfolding of the recursion.
LEMMA AddsAt ==
    ASSUME NEW f, NEW c, NEW X, Adds(f, c, X), NEW s \in SUBSET X
    PROVE  f[s] = IF s = {} THEN 0 ELSE c[First(s)] + f[s \ {First(s)}]
BY DEF Adds

\* Two such functions agree where both are defined.
LEMMA AddsAgree ==
    ASSUME NEW X, IsFiniteSet(X), NEW Y, X \subseteq Y, NEW c, NEW f, NEW g,
           Adds(f, c, X), Adds(g, c, Y)
    PROVE  f[X] = g[X]
<1> DEFINE Good == {A \in SUBSET X : f[A] = g[A]}
<1>1. {} \in Good
    BY AddsAt
<1>2. ASSUME NEW A \in SUBSET X, A # {}, \A x \in A : A \ {x} \in Good
      PROVE  A \in Good
    <2>1. First(A) \in A /\ f[A \ {First(A)}] = g[A \ {First(A)}]
        BY <1>2, FirstIn
    <2>2. A \in SUBSET Y OBVIOUS
    <2> QED BY <1>2, <2>1, <2>2, AddsAt
<1>3. X \in Good
    <2> HIDE DEF Good
    <2>1. Good \in SUBSET (SUBSET X) BY DEF Good
    <2> QED BY <1>1, <1>2, <2>1, SubsetInduction
<1> QED BY <1>3

\* A function that adds up the subsets of a set serves each of them.
LEMMA AddsBelow ==
    ASSUME NEW X, NEW Y \in SUBSET X, NEW c, NEW f, Adds(f, c, X)
    PROVE  Adds([s \in SUBSET Y |-> f[s]], c, Y)
<1> DEFINE h == [s \in SUBSET Y |-> f[s]]
<1>1. ASSUME NEW s \in SUBSET Y
      PROVE  h[s] = IF s = {} THEN 0 ELSE c[First(s)] + h[s \ {First(s)}]
    <2>1. s \in SUBSET X /\ s \ {First(s)} \in SUBSET Y OBVIOUS
    <2>2. f[s] = IF s = {} THEN 0 ELSE c[First(s)] + f[s \ {First(s)}]
        BY <2>1, AddsAt
    <2>3. h[s] = f[s] /\ h[s \ {First(s)}] = f[s \ {First(s)}]
        BY <2>1
    <2> HIDE DEF h
    <2> QED BY <2>2, <2>3
<1>2. h = [s \in SUBSET Y |-> h[s]] OBVIOUS
<1> HIDE DEF h
<1>3. h = [s \in SUBSET Y |-> IF s = {} THEN 0 ELSE c[First(s)] + h[s \ {First(s)}]]
    BY <1>1, <1>2
<1> QED BY <1>3 DEF Adds, h

\* There is one for every finite set.
LEMMA AddsExist ==
    ASSUME NEW X, IsFiniteSet(X), NEW c PROVE \E f : Adds(f, c, X)
<1> DEFINE Good == {A \in SUBSET X : \E f : Adds(f, c, A)}
<1>1. {} \in Good
    <2>1. Adds([s \in SUBSET {} |-> 0], c, {})
        <3>1. \A s \in SUBSET {} : s = {} OBVIOUS
        <3> QED BY <3>1 DEF Adds
    <2> QED BY <2>1
<1>2. ASSUME NEW A \in SUBSET X, A # {}, \A x \in A : A \ {x} \in Good
      PROVE  A \in Good
    <2> DEFINE a == First(A)
               T(s) == (CHOOSE f : Adds(f, c, s))[s]
               h == [s \in SUBSET A |-> IF s = A THEN c[a] + T(A \ {a}) ELSE T(s)]
    <2>1. ASSUME NEW s \in SUBSET A, s # A PROVE Adds(CHOOSE f : Adds(f, c, s), c, s)
        <3>1. PICK x \in A : x \notin s BY <2>1
        <3>2. PICK f : Adds(f, c, A \ {x}) BY <1>2, <3>1
        <3>3. s \in SUBSET (A \ {x}) BY <3>1
        <3>4. Adds([t \in SUBSET s |-> f[t]], c, s) BY <3>2, <3>3, AddsBelow
        <3> QED BY <3>4
    <2>2. T({}) = 0
        <3>1. {} \in SUBSET A /\ {} # A BY <1>2
        <3>2. Adds(CHOOSE f : Adds(f, c, {}), c, {}) BY <2>1, <3>1
        <3>3. {} \in SUBSET {} OBVIOUS
        <3> QED BY <3>2, <3>3, AddsAt
    <2>3. ASSUME NEW s \in SUBSET A, s # A, s # {} PROVE T(s) = c[First(s)] + T(s \ {First(s)})
        <3> DEFINE t == s \ {First(s)}
                   f == CHOOSE f : Adds(f, c, s)
                   g == CHOOSE g : Adds(g, c, t)
        <3>1. t \subseteq s /\ t \in SUBSET A /\ t # A /\ IsFiniteSet(t)
            BY <2>3, FS_Subset
        <3>2. Adds(f, c, s) /\ Adds(g, c, t) BY <2>1, <2>3, <3>1
        <3>3. g[t] = f[t]
            <4> HIDE DEF f, g, t
            <4> QED BY <3>1, <3>2, AddsAgree
        <3>4. s \in SUBSET s OBVIOUS
        <3>5. f[s] = c[First(s)] + f[t]
            <4> HIDE DEF f
            <4> QED BY <2>3, <3>2, <3>4, AddsAt
        <3> QED BY <3>3, <3>5
    <2>4. a \in A BY <1>2, FirstIn
    <2>5. ASSUME NEW s \in SUBSET A
          PROVE  h[s] = IF s = {} THEN 0 ELSE c[First(s)] + h[s \ {First(s)}]
        <3> HIDE DEF T
        <3>1. CASE s = {} BY <1>2, <2>2, <3>1
        <3>2. CASE s = A
            <4>1. A \ {a} # A /\ A \ {a} \in SUBSET A BY <2>4
            <4> QED BY <1>2, <3>2, <4>1
        <3>3. CASE s # {} /\ s # A
            <4>1. s \ {First(s)} # A /\ s \ {First(s)} \in SUBSET A BY <3>3
            <4> QED BY <2>3, <3>3, <4>1
        <3> QED BY <3>1, <3>2, <3>3
    <2>6. h = [s \in SUBSET A |-> h[s]] OBVIOUS
    <2>7. Adds(h, c, A)
        <3> HIDE DEF h
        <3> QED BY <2>5, <2>6 DEF Adds
    <2> QED BY <2>7
<1>3. X \in Good
    <2> HIDE DEF Good
    <2>1. Good \in SUBSET (SUBSET X) BY DEF Good
    <2> QED BY <1>1, <1>2, <2>1, SubsetInduction
<1> QED BY <1>3

\* The order does not matter: any member may be taken out first.
LEMMA AddsAny ==
    ASSUME NEW X, IsFiniteSet(X), NEW c \in [X -> Nat], NEW f, Adds(f, c, X)
    PROVE  \A A \in SUBSET X :
             f[A] \in Nat /\ \A x \in A : f[A] = c[x] + f[A \ {x}]
<1> DEFINE P(A) == f[A] \in Nat /\ \A x \in A : f[A] = c[x] + f[A \ {x}]
           Good == {A \in SUBSET X : \A B \in SUBSET A : P(B)}
<1>1. {} \in Good
    <2>1. {} \in SUBSET X /\ \A B \in SUBSET {} : B = {} OBVIOUS
    <2>2. f[{}] = 0 BY <2>1, AddsAt
    <2>3. P({}) BY <2>2
    <2> QED BY <2>1, <2>3
<1>2. ASSUME NEW A \in SUBSET X, A # {}, \A x \in A : A \ {x} \in Good
      PROVE  A \in Good
    <2> DEFINE a == First(A)
    <2>1. a \in A BY <1>2, FirstIn
    <2>2. ASSUME NEW B \in SUBSET A, B # A PROVE P(B)
        <3>1. PICK x \in A : x \notin B BY <2>2
        <3>2. A \ {x} \in Good /\ B \in SUBSET (A \ {x}) BY <1>2, <3>1
        <3> HIDE DEF P
        <3> QED BY <3>2
    <2>3. f[A] = c[a] + f[A \ {a}] BY <1>2, AddsAt
    <2>4. P(A \ {a}) BY <2>1, <2>2
    <2>5. c[a] \in Nat BY <2>1
    <2>6. f[A] \in Nat BY <2>3, <2>4, <2>5
    <2>7. ASSUME NEW x \in A, x # a PROVE f[A] = c[x] + f[A \ {x}]
        <3>1. P(A \ {x}) BY <2>2
        <3>2. (A \ {a}) \ {x} = (A \ {x}) \ {a} OBVIOUS
        <3>3. f[A \ {a}] = c[x] + f[(A \ {a}) \ {x}] BY <2>4, <2>7
        <3>4. f[A \ {x}] = c[a] + f[(A \ {x}) \ {a}] BY <2>1, <2>7, <3>1
        <3>5. f[(A \ {a}) \ {x}] \in Nat
            <4>1. P((A \ {a}) \ {x}) BY <2>1, <2>2
            <4> QED BY <4>1
        <3>6. c[x] \in Nat OBVIOUS
        <3>7. f[(A \ {x}) \ {a}] = f[(A \ {a}) \ {x}] BY <3>2
        <3>8. \A i, j, k \in Nat : i + (j + k) = j + (i + k) OBVIOUS
        <3> HIDE DEF P, a
        <3>9. c[a] + (c[x] + f[(A \ {a}) \ {x}]) = c[x] + (c[a] + f[(A \ {a}) \ {x}])
            BY <2>5, <3>5, <3>6, <3>8, Zenon
        <3> QED BY <2>3, <3>3, <3>4, <3>7, <3>9, Zenon
    <2>8. P(A) BY <2>3, <2>6, <2>7
    <2> HIDE DEF P
    <2> QED BY <2>2, <2>8
<1>3. X \in Good
    <2> HIDE DEF Good
    <2>1. Good \in SUBSET (SUBSET X) BY DEF Good
    <2> QED BY <1>1, <1>2, <2>1, SubsetInduction
<1> QED BY <1>3

\* Values that agree on a set have the same sum over it.
LEMMA AddsSame ==
    ASSUME NEW X, IsFiniteSet(X), NEW c, NEW d, NEW f, NEW g,
           Adds(f, c, X), Adds(g, d, X), NEW A \in SUBSET X, \A x \in A : c[x] = d[x]
    PROVE  f[A] = g[A]
<1>1. IsFiniteSet(A) BY FS_Subset
<1>2. PICK h : Adds(h, c, A) BY <1>1, AddsExist
<1>3. \A s \in SUBSET A : s # {} => c[First(s)] = d[First(s)]
    BY FirstIn
<1>4. Adds(h, d, A)
    <2>1. [s \in SUBSET A |-> IF s = {} THEN 0 ELSE c[First(s)] + h[s \ {First(s)}]]
            = [s \in SUBSET A |-> IF s = {} THEN 0 ELSE d[First(s)] + h[s \ {First(s)}]]
        BY <1>3
    <2> QED BY <1>2, <2>1 DEF Adds
<1>5. h[A] = f[A] /\ h[A] = g[A]
    BY <1>1, <1>2, <1>4, AddsAgree
<1> QED BY <1>5

\* What the handlers in flight still owe for an account, as UsageAccounted has it.
Owed(u) == MapThenSumSet(LAMBDA r : reqs[r].cost, OwedBy(u))
Costs == [r \in Requests |-> reqs[r].cost]

\* Some function adds up the costs, and gives each account what it owes.
OwedAdds == \E f : Adds(f, Costs, Requests) /\ \A u \in Users : Owed(u) = f[OwedBy(u)]

\* There is: the fold of UsageAccounted is such a sum.
LEMMA OwedIsSum == OwedAdds
<1>1. IsFiniteSet(Requests) BY BillingAssumption
<1>2. PICK f : Adds(f, Costs, Requests) BY <1>1, AddsExist
<1>3. ASSUME NEW u \in Users PROVE Owed(u) = f[OwedBy(u)]
    <2> DEFINE X == OwedBy(u)
               body(g) == [s \in SUBSET X |-> IF s = {} THEN 0
                                             ELSE reqs[First(s)].cost + g[s \ {First(s)}]]
               it == CHOOSE g : g = body(g)
    <2>1. X \in SUBSET Requests /\ IsFiniteSet(X) BY <1>1, FS_Subset DEF OwedBy
    <2>2. Owed(u) = it[X]
        <3>1. MapThenSumSet(LAMBDA r : reqs[r].cost, X)
                = LET iter[s \in SUBSET X] == IF s = {} THEN 0
                        ELSE LET x == CHOOSE x \in s : TRUE IN reqs[x].cost + iter[s \ {x}]
                  IN  iter[X]
            <4> HIDE DEF X
            <4> QED BY DEF MapThenSumSet, MapThenFoldSet
        <3> QED BY <3>1 DEF Owed, First
    <2> HIDE DEF X
    <2>3. ASSUME NEW g PROVE Adds(g, Costs, X) <=> g = body(g)
        <3>1. \A s \in SUBSET X : s # {} => Costs[First(s)] = reqs[First(s)].cost
            BY <2>1, FirstIn DEF Costs
        <3>2. body(g) = [s \in SUBSET X |-> IF s = {} THEN 0 ELSE Costs[First(s)] + g[s \ {First(s)}]]
            BY <3>1
        <3> HIDE DEF body
        <3> QED BY <3>2 DEF Adds
    <2>4. PICK g : Adds(g, Costs, X) BY <2>1, AddsExist
    <2>5. it = body(it)
        <3>1. g = body(g) BY <2>3, <2>4
        <3> HIDE DEF body
        <3> QED BY <3>1
    <2>6. Adds(it, Costs, X)
        <3> HIDE DEF it, body
        <3> QED BY <2>3, <2>5
    <2>7. it[X] = f[X]
        <3> HIDE DEF it
        <3> QED BY <1>2, <2>1, <2>6, AddsAgree
    <2> HIDE DEF it
    <2> QED BY <2>2, <2>7 DEF X
<1> QED BY <1>2, <1>3 DEF OwedAdds

LEMMA OwedIsSumNext == OwedAdds'
BY OwedIsSum, PTL

----------------------------------------------------------------------------
(* Every answer is accounted for.                                          *)

\* The same handlers owing the same costs owe the same.
LEMMA OwedSame ==
    ASSUME NEW u \in Users, OwedBy(u)' = OwedBy(u),
           \A r \in OwedBy(u) : reqs'[r].cost = reqs[r].cost
    PROVE  Owed(u)' = Owed(u)
<1>1. IsFiniteSet(Requests) /\ OwedBy(u) \in SUBSET Requests BY BillingAssumption DEF OwedBy
<1>2. PICK f : Adds(f, Costs, Requests) /\ Owed(u) = f[OwedBy(u)]
    BY OwedIsSum DEF OwedAdds
<1>3. PICK g : Adds(g, Costs', Requests) /\ Owed(u)' = g[OwedBy(u)']
    BY OwedIsSumNext DEF OwedAdds
<1>4. \A r \in OwedBy(u) : Costs[r] = Costs'[r]
    BY <1>1 DEF Costs
<1>5. f[OwedBy(u)] = g[OwedBy(u)]
    BY <1>1, <1>2, <1>3, <1>4, AddsSame
<1> QED BY <1>2, <1>3, <1>5

OwedNats == \A u \in Users : Owed(u) \in Nat

LEMMA OwedIsNat == TypeOK => OwedNats
<1> SUFFICES ASSUME TypeOK, NEW u \in Users PROVE Owed(u) \in Nat
    BY DEF OwedNats
<1>1. IsFiniteSet(Requests) /\ OwedBy(u) \in SUBSET Requests BY BillingAssumption DEF OwedBy
<1>2. PICK f : Adds(f, Costs, Requests) /\ Owed(u) = f[OwedBy(u)]
    BY OwedIsSum DEF OwedAdds
<1>3. Costs \in [Requests -> Nat] BY RequestFields DEF Costs
<1> QED BY <1>1, <1>2, <1>3, AddsAny

LEMMA OwedIsNatNext == TypeOK' => OwedNats'
BY OwedIsNat, PTL

\* A handler that stops owing takes its cost out of the sum.
LEMMA OwedGone ==
    ASSUME TypeOK, NEW u \in Users, NEW r \in OwedBy(u), OwedBy(u)' = OwedBy(u) \ {r},
           \A s \in OwedBy(u) \ {r} : reqs'[s].cost = reqs[s].cost
    PROVE  Owed(u) = Owed(u)' + reqs[r].cost
<1>1. IsFiniteSet(Requests) /\ OwedBy(u) \in SUBSET Requests /\ r \in Requests
    BY BillingAssumption DEF OwedBy
<1>2. PICK f : Adds(f, Costs, Requests) /\ Owed(u) = f[OwedBy(u)]
    BY OwedIsSum DEF OwedAdds
<1>3. PICK g : Adds(g, Costs', Requests) /\ Owed(u)' = g[OwedBy(u)']
    BY OwedIsSumNext DEF OwedAdds
<1>4. \A s \in OwedBy(u) \ {r} : Costs[s] = Costs'[s]
    BY <1>1 DEF Costs
<1>5. f[OwedBy(u) \ {r}] = g[OwedBy(u) \ {r}]
    <2>1. OwedBy(u) \ {r} \in SUBSET Requests BY <1>1
    <2> QED BY <1>1, <1>2, <1>3, <1>4, <2>1, AddsSame
<1>6. Costs \in [Requests -> Nat] BY RequestFields DEF Costs
<1>7. /\ f[OwedBy(u)] = Costs[r] + f[OwedBy(u) \ {r}]
      /\ f[OwedBy(u) \ {r}] \in Nat
    <2>1. OwedBy(u) \ {r} \in SUBSET Requests BY <1>1
    <2> QED BY <1>1, <1>2, <1>6, <2>1, AddsAny
<1>8. Costs[r] = reqs[r].cost /\ reqs[r].cost \in Nat BY <1>1, RequestFields DEF Costs
<1>9. Owed(u)' = f[OwedBy(u) \ {r}] BY <1>3, <1>5
<1> HIDE DEF Owed
<1> QED BY <1>2, <1>7, <1>8, <1>9

\* A handler that starts to owe brings its cost in.
LEMMA OwedNew ==
    ASSUME TypeOK, TypeOK', NEW u \in Users, NEW r \in Requests \ OwedBy(u),
           OwedBy(u)' = OwedBy(u) \cup {r},
           \A s \in OwedBy(u) : reqs'[s].cost = reqs[s].cost
    PROVE  Owed(u)' = Owed(u) + reqs'[r].cost
<1>1. IsFiniteSet(Requests) /\ OwedBy(u) \in SUBSET Requests
    BY BillingAssumption DEF OwedBy
<1>2. PICK f : Adds(f, Costs, Requests) /\ Owed(u) = f[OwedBy(u)]
    BY OwedIsSum DEF OwedAdds
<1>3. PICK g : Adds(g, Costs', Requests) /\ Owed(u)' = g[OwedBy(u)']
    BY OwedIsSumNext DEF OwedAdds
<1>4. \A s \in OwedBy(u) : Costs[s] = Costs'[s]
    BY <1>1 DEF Costs
<1>5. f[OwedBy(u)] = g[OwedBy(u)]
    BY <1>1, <1>2, <1>3, <1>4, AddsSame
<1>6. Costs' \in [Requests -> Nat]
    BY BillingAssumption DEF Costs, TypeOK, Request
<1>7. /\ g[OwedBy(u)'] = Costs'[r] + g[OwedBy(u)' \ {r}]
      /\ g[OwedBy(u)' \ {r}] \in Nat
    <2>1. OwedBy(u)' \in SUBSET Requests /\ OwedBy(u)' \ {r} \in SUBSET Requests /\ r \in OwedBy(u)'
        BY <1>1
    <2> QED BY <1>1, <1>3, <1>6, <2>1, AddsAny
<1>8. Costs'[r] = reqs'[r].cost /\ Costs'[r] \in Nat BY <1>6 DEF Costs
<1>9. OwedBy(u)' \ {r} = OwedBy(u) BY <1>1
<1>10. Owed(u) = g[OwedBy(u)' \ {r}] BY <1>2, <1>5, <1>9
<1>11. Owed(u)' = Costs'[r] + g[OwedBy(u)' \ {r}] BY <1>3, <1>7
<1> HIDE DEF Owed
<1> QED BY <1>7, <1>8, <1>10, <1>11

\* One handler's new record decides who owes what.
LEMMA OwedByOthers ==
    ASSUME TypeOK, NEW r \in Requests, NEW x, reqs' = [reqs EXCEPT ![r] = x], NEW u \in Users
    PROVE  /\ OwedBy(u) \subseteq Requests /\ OwedBy(u)' \subseteq Requests
           /\ \A s \in Requests \ {r} : s \in OwedBy(u)' <=> s \in OwedBy(u)
           /\ r \in OwedBy(u)' <=> x.pc \in {"chargeToken", "chargeUser"} /\ Owner[x.tok] = u
           /\ \A s \in Requests \ {r} : reqs'[s].cost = reqs[s].cost
BY DEF TypeOK, OwedBy, Owing, Payer

\* The same, as sets.
LEMMA OwedByOther ==
    ASSUME TypeOK, NEW r \in Requests, NEW x, reqs' = [reqs EXCEPT ![r] = x], NEW u \in Users
    PROVE  /\ IF x.pc \in {"chargeToken", "chargeUser"} /\ Owner[x.tok] = u
              THEN OwedBy(u)' = OwedBy(u) \cup {r} ELSE OwedBy(u)' = OwedBy(u) \ {r}
           /\ \A s \in OwedBy(u) \ {r} : reqs'[s].cost = reqs[s].cost
<1>1. /\ OwedBy(u) \subseteq Requests /\ OwedBy(u)' \subseteq Requests
      /\ \A s \in Requests \ {r} : s \in OwedBy(u)' <=> s \in OwedBy(u)
      /\ r \in OwedBy(u)' <=> x.pc \in {"chargeToken", "chargeUser"} /\ Owner[x.tok] = u
      /\ \A s \in Requests \ {r} : reqs'[s].cost = reqs[s].cost
    BY OwedByOthers
<1>2. CASE r \in OwedBy(u)'
    <2>1. \A s : s \in OwedBy(u)' <=> s \in OwedBy(u) \cup {r}
        BY <1>1, <1>2
    <2>2. OwedBy(u)' = OwedBy(u) \cup {r} BY <2>1
    <2> QED BY <1>1, <1>2, <2>2
<1>3. CASE r \notin OwedBy(u)'
    <2>1. \A s : s \in OwedBy(u)' <=> s \in OwedBy(u) \ {r}
        BY <1>1, <1>3
    <2>2. OwedBy(u)' = OwedBy(u) \ {r} BY <2>1
    <2> QED BY <1>1, <1>3, <2>2
<1> QED BY <1>2, <1>3

\* A handler that owes nothing to u before or after, or the same, leaves the sum.
LEMMA OwedKept ==
    ASSUME TypeOK, NEW r \in Requests, NEW x, reqs' = [reqs EXCEPT ![r] = x], NEW u \in Users,
           r \in OwedBy(u) <=> x.pc \in {"chargeToken", "chargeUser"} /\ Owner[x.tok] = u,
           r \in OwedBy(u) => x.cost = reqs[r].cost
    PROVE  Owed(u)' = Owed(u)
<1>1. OwedBy(u)' = OwedBy(u)
    <2>1. /\ OwedBy(u) \subseteq Requests /\ OwedBy(u)' \subseteq Requests
          /\ \A s \in Requests \ {r} : s \in OwedBy(u)' <=> s \in OwedBy(u)
          /\ r \in OwedBy(u)' <=> r \in OwedBy(u)
        BY OwedByOthers
    <2>2. \A s : s \in OwedBy(u)' <=> s \in OwedBy(u)
        BY <2>1
    <2> QED BY <2>2
<1>2. \A s \in OwedBy(u) : reqs'[s].cost = reqs[s].cost
    BY OwedByOthers DEF TypeOK, OwedBy
<1> QED BY <1>1, <1>2, OwedSame

\* The account's line of UsageAccounted, and that it stays true.
Accounted(u) == users[u].used + books[u].lost + Owed(u) = books[u].delivered

\* An answer adds its cost to what was served and to what is owed; a charge
\* moves it to the account, a failed one or a crash to what was lost.
LEMMA AccountedRequest ==
    ASSUME TypeOK, TypeOK', NEW u \in Users, Accounted(u), NEW r \in Requests, RequestNext(r)
    PROVE  Accounted(u)'
<1> USE RequestFields
<1> DEFINE mine == r \in OwedBy(u)
<1>0. /\ users[u].used \in Nat /\ books[u].lost \in Nat /\ books[u].delivered \in Nat
      /\ reqs[r].cost \in Nat /\ Owed(u) \in Nat
    BY OwedIsNat DEF TypeOK, UserRow, Books, OwedNats
<1>1. ASSUME NEW x, reqs' = [reqs EXCEPT ![r] = x], ~Owing(r),
             x.pc \notin {"chargeToken", "chargeUser"}, UNCHANGED <<users, books>>
      PROVE  Accounted(u)'
    <2>1. Owed(u)' = Owed(u) BY <1>1, OwedKept DEF OwedBy
    <2> QED BY <1>1, <2>1 DEF Accounted
<1>2. ASSUME NEW t \in Tokens, ReadKey(r, t) PROVE Accounted(u)'
    <2> DEFINE x == [IdleReq EXCEPT !.pc = "keyRead", !.tok = t,
                                    !.tokenCopy = Sign(tokens[t].quota)]
    <2>1. reqs' = [reqs EXCEPT ![r] = x] /\ ~Owing(r) /\ x.pc = "keyRead"
        BY <1>2 DEF ReadKey, Owing, IdleReq
    <2> HIDE DEF x
    <2> QED BY <1>1, <1>2, <2>1 DEF ReadKey
<1>3. CASE Admit(r)
    <2> DEFINE x == [reqs[r] EXCEPT !.pc = "admitted", !.fresh = TRUE,
                                    !.userCopy = Sign(users[Payer(r)].quota)]
    <2>1. reqs' = [reqs EXCEPT ![r] = x] /\ ~Owing(r) /\ x.pc = "admitted"
        BY <1>3 DEF Admit, Owing, Request
    <2> HIDE DEF x
    <2> QED BY <1>1, <1>3, <2>1 DEF Admit
<1>4. CASE AnswerFree(r)
    BY <1>1, <1>4 DEF AnswerFree, Owing, IdleReq
<1>5. ASSUME NEW c \in 1..MaxCost, Answer(r, c) PROVE Accounted(u)'
    <2> DEFINE x == [reqs[r] EXCEPT !.pc = "chargeToken", !.cost = c]
    <2>1. reqs' = [reqs EXCEPT ![r] = x] /\ ~Owing(r) /\ reqs[r].pc = "admitted"
        BY <1>5 DEF Answer, Owing
    <2>2. x.pc = "chargeToken" /\ x.cost = c /\ x.tok = reqs[r].tok
        BY DEF Request
    <2>3. reqs'[r].cost = c /\ c \in Nat BY <2>1, <2>2, BillingAssumption DEF TypeOK
    <2>4. ~mine BY <2>1 DEF OwedBy
    <2>5. users' = users BY <1>5 DEF Answer
    <2>6. Payer(r) \in Users /\ books' = [books EXCEPT ![Payer(r)].delivered = @ + c]
        BY <1>5, <2>1 DEF Answer
    <2>7. books'[u].lost = books[u].lost
          /\ books'[u].delivered = books[u].delivered + (IF Payer(r) = u THEN c ELSE 0)
        BY <2>6 DEF TypeOK, Books
    <2>8. CASE Payer(r) = u
        <3>1. Owner[x.tok] = u BY <2>2, <2>8 DEF Payer
        <3>2. OwedBy(u)' = OwedBy(u) \cup {r} /\ \A s \in OwedBy(u) : reqs'[s].cost = reqs[s].cost
            <4> HIDE DEF x
            <4> QED BY <2>1, <2>2, <2>4, <3>1, OwedByOther
        <3>3. Owed(u)' = Owed(u) + c BY <2>3, <2>4, <3>2, OwedNew
        <3> QED BY <1>0, <2>3, <2>5, <2>7, <2>8, <3>3 DEF Accounted
    <2>9. CASE Payer(r) # u
        <3>1. Owed(u)' = Owed(u)
            <4> HIDE DEF x
            <4> QED BY <2>1, <2>2, <2>4, <2>9, OwedKept DEF Payer
        <3> QED BY <1>0, <2>5, <2>7, <2>9, <3>1 DEF Accounted
    <2> QED BY <2>8, <2>9
<1>6. CASE ChargeToken(r)
    <2> DEFINE x == [reqs[r] EXCEPT !.pc = "chargeUser"]
    <2>1. reqs' = [reqs EXCEPT ![r] = x] /\ Owing(r) /\ UNCHANGED <<users, books>>
        BY <1>6 DEF ChargeToken, Owing
    <2>2. x.pc = "chargeUser" /\ x.cost = reqs[r].cost /\ x.tok = reqs[r].tok
        BY DEF Request
    <2> HIDE DEF x
    <2>3. mine <=> Owner[x.tok] = u BY <2>1, <2>2 DEF OwedBy, Payer
    <2>4. Owed(u)' = Owed(u) BY <2>1, <2>2, <2>3, OwedKept
    <2> QED BY <2>1, <2>4 DEF Accounted
<1>7. ASSUME reqs' = [reqs EXCEPT ![r] = IdleReq]
      PROVE  Owed(u) = Owed(u)' + (IF mine THEN reqs[r].cost ELSE 0)
    <2>1. IdleReq.pc = "idle" BY IdleReqType
    <2>2. CASE mine
        <3>1. OwedBy(u)' = OwedBy(u) \ {r} /\ \A s \in OwedBy(u) \ {r} : reqs'[s].cost = reqs[s].cost
            BY <1>7, <2>1, OwedByOther
        <3> QED BY <2>2, <3>1, OwedGone
    <2>3. CASE ~mine
        <3>1. Owed(u)' = Owed(u) BY <1>7, <2>1, <2>3, OwedKept
        <3> QED BY <1>0, <2>3, <3>1
    <2> QED BY <2>2, <2>3
<1>8. Owed(u)' \in Nat
    BY OwedIsNatNext DEF OwedNats
<1>9. CASE ChargeUser(r)
    <2>1. Owing(r) /\ Payer(r) \in Users /\ (mine <=> Payer(r) = u)
        BY <1>9 DEF ChargeUser, Owing, OwedBy
    <2>2. Owed(u) = Owed(u)' + (IF Payer(r) = u THEN reqs[r].cost ELSE 0)
        BY <1>7, <1>9, <2>1 DEF ChargeUser
    <2>3. books'[u].delivered = books[u].delivered
        BY <1>9, <2>1 DEF ChargeUser, TypeOK, Books
    <2>4. users'[u].used + books'[u].lost
            = users[u].used + books[u].lost + (IF Payer(r) = u THEN reqs[r].cost ELSE 0)
        <3>1. CASE users' = [users EXCEPT ![Payer(r)] = Charged(@, reqs[r].userCopy, reqs[r].cost)]
                   /\ books' = [books EXCEPT ![Payer(r)].spent = IF Counted(r) THEN @ + reqs[r].cost ELSE @]
            <4>1. Charged(users[u], reqs[r].userCopy, reqs[r].cost).used = users[u].used + reqs[r].cost
                BY DEF Charged, TypeOK, UserRow
            <4>2. users'[u].used = users[u].used + (IF Payer(r) = u THEN reqs[r].cost ELSE 0)
                BY <1>0, <2>1, <3>1, <4>1 DEF TypeOK
            <4>3. books'[u].lost = books[u].lost
                BY <2>1, <3>1 DEF TypeOK, Books
            <4> QED BY <1>0, <4>2, <4>3
        <3>2. CASE users' = users /\ books' = [books EXCEPT ![Payer(r)].lost = @ + reqs[r].cost]
            <4>1. books'[u].lost = books[u].lost + (IF Payer(r) = u THEN reqs[r].cost ELSE 0)
                BY <1>0, <2>1, <3>2 DEF TypeOK, Books
            <4> QED BY <1>0, <3>2, <4>1
        <3> QED BY <1>9, <3>1, <3>2 DEF ChargeUser
    <2>5. users'[u].used \in Nat /\ books'[u].lost \in Nat
        BY DEF TypeOK, UserRow, Books
    <2> HIDE DEF mine
    <2> QED BY <1>0, <1>8, <2>2, <2>3, <2>4, <2>5 DEF Accounted
<1>10. CASE RequestDies(r)
    <2>1. Payer(r) \in Users /\ (mine <=> Owing(r) /\ Payer(r) = u) /\ users' = users
        BY <1>10 DEF RequestDies, OwedBy
    <2>2. Owed(u) = Owed(u)' + (IF mine THEN reqs[r].cost ELSE 0)
        BY <1>7, <1>10 DEF RequestDies
    <2>3. /\ books'[u].delivered = books[u].delivered
          /\ books'[u].lost = books[u].lost + (IF mine THEN reqs[r].cost ELSE 0)
        BY <1>0, <1>10, <2>1 DEF RequestDies, TypeOK, Books
    <2> HIDE DEF mine
    <2> QED BY <1>0, <1>8, <2>1, <2>2, <2>3 DEF Accounted
<1> QED BY <1>2, <1>3, <1>4, <1>5, <1>6, <1>9, <1>10 DEF RequestNext

\* A write of the quota books nothing and leaves every debt where it is.
LEMMA AccountedWrite ==
    ASSUME TypeOK, NEW u \in Users, Accounted(u), NEW v \in Users, NEW q, WriteQuota(v, q)
    PROVE  Accounted(u)'
<1>1. ASSUME NEW r \in Requests
      PROVE  reqs'[r].pc = reqs[r].pc /\ reqs'[r].tok = reqs[r].tok /\ reqs'[r].cost = reqs[r].cost
    <2>1. reqs'[r] \in {reqs[r], [reqs[r] EXCEPT !.fresh = FALSE]}
        BY <1>1 DEF WriteQuota
    <2> QED BY <1>1, <2>1, RequestFields DEF Request
<1>2. OwedBy(u)' = OwedBy(u)
    BY <1>1 DEF OwedBy, Owing, Payer
<1>3. Owed(u)' = Owed(u)
    BY <1>1, <1>2, OwedSame DEF OwedBy
<1>4. users'[u].used = users[u].used
    BY DEF WriteQuota, TypeOK, UserRow
<1>5. books'[u].lost = books[u].lost /\ books'[u].delivered = books[u].delivered
    BY DEF WriteQuota, TypeOK, Books
<1> QED BY <1>3, <1>4, <1>5 DEF Accounted

LEMMA AccountedStep ==
    ASSUME TypeOK, TypeOK', NEW u \in Users, Accounted(u), [Next]_vars
    PROVE  Accounted(u)'
<1>1. CASE UNCHANGED <<users, reqs, books>>
    <2>1. Owed(u)' = Owed(u)
        <3>1. OwedBy(u)' = OwedBy(u) BY <1>1 DEF OwedBy, Owing, Payer
        <3> QED BY <1>1, <3>1, OwedSame
    <2> QED BY <1>1, <2>1 DEF Accounted
<1>2. ASSUME NEW g \in Grants, GrantNext(g) PROVE Accounted(u)'
    <2>1. grants[g].user \in Users
        BY DEF TypeOK, GrantOp
    <2> QED BY <1>1, <1>2, <2>1, AccountedWrite
            DEF GrantNext, GrantRead, GrantCreate, GrantApply, GrantDies, Cancel
<1>3. ASSUME NEW v \in Users, NEW q, UpdateQuota(v, q) PROVE Accounted(u)'
    BY <1>3, AccountedWrite DEF UpdateQuota
<1> QED BY <1>1, <1>2, <1>3, AccountedRequest
        DEF Next, TokenNext, DraftToken, CreateToken, UpdateTokenStatus, DeleteToken,
            ExpireDue, vars

\* No answer is charged twice or forgotten (DeductQuota): what an account
\* consumed is what it was served, less what handlers in flight still owe
\* and what a crash or a refused statement dropped.
THEOREM UsageIsAccounted == Spec => []UsageAccounted
<1> DEFINE Inv == \A u \in Users : Accounted(u)
<1>1. Init => Inv
    <2> SUFFICES ASSUME Init, NEW u \in Users PROVE Accounted(u)
        OBVIOUS
    <2>1. OwedBy(u) = {}
        BY DEF Init, OwedBy, Owing, IdleReq
    <2>2. PICK f : Adds(f, Costs, Requests) /\ Owed(u) = f[OwedBy(u)]
        BY OwedIsSum DEF OwedAdds
    <2>3. {} \in SUBSET Requests OBVIOUS
    <2>4. Owed(u) = 0
        BY <2>1, <2>2, <2>3, AddsAt
    <2> QED BY <2>4 DEF Init, Accounted
<1>2. TypeOK /\ TypeOK' /\ Inv /\ [Next]_vars => Inv'
    BY AccountedStep
<1>3. Inv => UsageAccounted
    BY DEF Accounted, Owed, UsageAccounted
<1> HIDE DEF Inv
<1> QED BY <1>1, <1>2, <1>3, TypeCorrect, PTL DEF Spec
=============================================================================
