------------------------------ MODULE Billing ------------------------------
(***************************************************************************)
(* Quota accounting: the quota and used_quota columns of users and tokens  *)
(* (API keys), the proxied requests that charge them after the fact, the   *)
(* admin's UpdateQuota, the Grant of a plan, and the subscriptions it      *)
(* leaves behind.  Each SQL statement is one step; what a handler read is  *)
(* kept in its record until it is used.  The group columns the same        *)
(* handlers write are left out.                                            *)
(***************************************************************************)
EXTENDS Integers, FiniteSets, FiniteSetsExt

CONSTANTS
    Users,          \* rows of the users table
    Tokens,         \* ids of the tokens table, never reused
    Owner,          \* Owner[t]: the user a token belongs to
    NoToken,        \* the token of an idle handler
    Requests,       \* handlers of proxied requests that may run concurrently
    Grants,         \* grant operations; the subscription of g has id g
    InitQuota,      \* InitQuota[u]: the quota an account starts with
    AdminQuotas,    \* the values an admin sets with UpdateQuota
    PlanQuotas,     \* the quota of the plans that may be granted
    MaxCost,        \* the dearest answer
    MaxDelivered,   \* bound: no answer starts on an account that consumed more
    MaxFaults       \* bound: crashes and failed statements

Unlimited == -1
Quota == Nat \cup {Unlimited}

ASSUME BillingAssumption ==
    /\ Users # {}
    /\ Owner \in [Tokens -> Users]
    /\ NoToken \notin Tokens
    /\ IsFiniteSet(Requests)
    /\ InitQuota \in [Users -> Quota]
    /\ AdminQuotas \subseteq Quota
    /\ PlanQuotas \subseteq Quota
    /\ MaxCost \in Nat \ {0}
    /\ MaxDelivered \in Nat
    /\ MaxFaults \in Nat

VARIABLES
    users,   \* users[u]: quota and used_quota
    tokens,  \* tokens[t]: status, quota, used_quota; limit: the quota at creation
    reqs,    \* reqs[r]: where a request stands, and the two rows it read
    grants,  \* grants[g]: where a Grant stands, and the quota it read
    subs,    \* subs[g]: status of the subscription that Grant g inserted
    books,   \* history, per account: see Books
    faults   \* crashes and failed statements so far

vars == <<users, tokens, reqs, grants, subs, books, faults>>

UserRow == [quota : Quota, used : Nat]

\* draft: a Create holds the row, not yet inserted.
TokenRow == [status : {"none", "draft", "active", "disabled", "deleted"},
             quota : Quota, used : Nat, limit : Quota]

\* All that a request asks of a quota it read: unlimited, spent or positive.
Sign(quota) == IF quota > 0 THEN 1 ELSE quota

\* userCopy and tokenCopy: the quotas the request read.  fresh: it read the
\* account after the last admin write of its quota.
Request == [pc : {"idle", "keyRead", "admitted", "chargeToken", "chargeUser"},
            tok : Tokens \cup {NoToken}, userCopy : -1..1, tokenCopy : -1..1,
            cost : 0..MaxCost, fresh : BOOLEAN]

IdleReq == [pc |-> "idle", tok |-> NoToken, userCopy |-> 0, tokenCopy |-> 0,
            cost |-> 0, fresh |-> FALSE]

GrantOp == [pc : {"new", "planRead", "subCreated", "done", "dead"},
            user : Users, userQuota : Quota, quota : Quota]

NewGrant == [pc |-> "new", user |-> CHOOSE u \in Users : TRUE, userQuota |-> 0, quota |-> 0]

\* delivered: cost of the answers served; lost: the part never booked; budget:
\* the quota last written by an admin; spent: booked by fresh requests since, when
\* that quota is finite.
Books == [delivered : Nat, lost : Nat, budget : Quota, spent : Nat]

TypeOK ==
    /\ users \in [Users -> UserRow]
    /\ tokens \in [Tokens -> TokenRow]
    /\ reqs \in [Requests -> Request]
    /\ \A r \in Requests : reqs[r].pc # "idle" => reqs[r].tok \in Tokens
    /\ grants \in [Grants -> GrantOp]
    /\ subs \in [Grants -> {"none", "active", "expired", "cancelled"}]
    /\ books \in [Users -> Books]
    /\ faults \in 0..MaxFaults

Init ==
    /\ users = [u \in Users |-> [quota |-> InitQuota[u], used |-> 0]]
    /\ tokens = [t \in Tokens |-> [status |-> "none", quota |-> 0, used |-> 0, limit |-> 0]]
    /\ reqs = [r \in Requests |-> IdleReq]
    /\ grants = [g \in Grants |-> NewGrant]
    /\ subs = [g \in Grants |-> "none"]
    /\ books = [u \in Users |-> [delivered |-> 0, lost |-> 0,
                                 budget |-> InitQuota[u], spent |-> 0]]
    /\ faults = 0

Payer(r) == Owner[reqs[r].tok]

----------------------------------------------------------------------------
(* API keys (handler/tokens.go).                                           *)

\* A key starts with the account's quota as the session read it.  The
\* column's gorm default is -1, which Create writes in place of a zero: an
\* empty account gets an unlimited key, and only its own balance stops it.
DraftToken(t) ==
    LET q == users[Owner[t]].quota
        limit == IF q = 0 THEN Unlimited ELSE q
    IN  /\ tokens[t].status = "none"
        /\ tokens' = [tokens EXCEPT ![t] = [status |-> "draft", quota |-> limit,
                                            used |-> 0, limit |-> limit]]
        /\ UNCHANGED <<users, reqs, grants, subs, books, faults>>

\* The INSERT; a Create that fails leaves the draft for ever.
CreateToken(t) ==
    /\ tokens[t].status = "draft"
    /\ tokens' = [tokens EXCEPT ![t].status = "active"]
    /\ UNCHANGED <<users, reqs, grants, subs, books, faults>>

UpdateTokenStatus(t, s) ==
    /\ tokens[t].status \in {"active", "disabled"} \ {s}
    /\ tokens' = [tokens EXCEPT ![t].status = s]
    /\ UNCHANGED <<users, reqs, grants, subs, books, faults>>

DeleteToken(t) ==
    /\ tokens[t].status \in {"active", "disabled"}
    /\ tokens' = [tokens EXCEPT ![t].status = "deleted"]
    /\ UNCHANGED <<users, reqs, grants, subs, books, faults>>

----------------------------------------------------------------------------
(* Proxied requests (middleware/auth.go, handler/proxy.go, handler/billing.go). *)

\* Mutant: an empty balance still admits.
AvailableAtZero(q) == q >= Unlimited

Available(q) == q = Unlimited \/ q > 0

\* Mutant: the key's own quota is not looked at.
AccountAvailable(userQuota, tokenQuota) == Available(userQuota)

QuotaAvailable(userQuota, tokenQuota) == Available(userQuota) /\ Available(tokenQuota)

\* Auth.Middleware loads an active token, and Preload then its user.
ReadKey(r, t) ==
    /\ reqs[r].pc = "idle"
    /\ tokens[t].status = "active"
    /\ books[Owner[t]].delivered < MaxDelivered
    /\ reqs' = [reqs EXCEPT ![r] = [IdleReq EXCEPT !.pc = "keyRead", !.tok = t,
                                                   !.tokenCopy = Sign(tokens[t].quota)]]
    /\ UNCHANGED <<users, tokens, grants, subs, books, faults>>

\* ChatCompletion admits the request on these copies, and keeps using them.
Admit(r) ==
    LET copy == Sign(users[Payer(r)].quota) IN
    /\ reqs[r].pc = "keyRead"
    /\ QuotaAvailable(copy, reqs[r].tokenCopy)
    /\ reqs' = [reqs EXCEPT ![r].pc = "admitted", ![r].userCopy = copy, ![r].fresh = TRUE]
    /\ UNCHANGED <<users, tokens, grants, subs, books, faults>>

\* The request was refused, the upstream failed, the answer carries no usage,
\* or the model has no price: nothing is charged.
AnswerFree(r) ==
    /\ reqs[r].pc \in {"keyRead", "admitted"}
    /\ reqs' = [reqs EXCEPT ![r] = IdleReq]
    /\ UNCHANGED <<users, tokens, grants, subs, books, faults>>

\* The upstream answered and recordUsage priced it; DeductQuota comes next.
Answer(r, cost) ==
    /\ reqs[r].pc = "admitted"
    /\ reqs' = [reqs EXCEPT ![r].pc = "chargeToken", ![r].cost = cost]
    /\ books' = [books EXCEPT ![Payer(r)].delivered = @ + cost]
    /\ UNCHANGED <<users, tokens, grants, subs, faults>>

\* Mutant: no clamp at zero.
DeductUnclamped(quota, cost) == quota - cost

\* CASE WHEN quota >= cost THEN quota - cost ELSE 0 END
Deduct(quota, cost) == IF quota >= cost THEN quota - cost ELSE 0

\* Mutant: unlimited rows skip the whole statement, consumption included.
ChargedIfMetered(row, copy, cost) ==
    IF copy = Unlimited THEN row
    ELSE [row EXCEPT !.used = @ + cost, !.quota = Deduct(@, cost)]

\* The row after the charge; whether quota is touched depends on the copy
\* the request read, not on the row.
Charged(row, copy, cost) ==
    [row EXCEPT !.used = @ + cost,
                !.quota = IF copy = Unlimited THEN @ ELSE Deduct(@, cost)]

\* First statement of DeductQuota.  A deleted key matches no row, and an
\* error is ignored.
ChargeToken(r) ==
    LET t == reqs[r].tok IN
    /\ reqs[r].pc = "chargeToken"
    /\ reqs' = [reqs EXCEPT ![r].pc = "chargeUser"]
    /\ \/ /\ tokens' = IF tokens[t].status = "deleted" THEN tokens
                       ELSE [tokens EXCEPT ![t] = Charged(@, reqs[r].tokenCopy, reqs[r].cost)]
          /\ UNCHANGED faults
       \/ /\ faults < MaxFaults
          /\ faults' = faults + 1
          /\ UNCHANGED tokens
    /\ UNCHANGED <<users, grants, subs, books>>

Counted(r) == reqs[r].fresh /\ books[Payer(r)].budget # Unlimited

\* Mutant: the statement is run again after it succeeded.
ChargeUserAgain(r) ==
    /\ reqs[r].pc = "chargeUser"
    /\ users' = [users EXCEPT ![Payer(r)] = Charged(@, reqs[r].userCopy, reqs[r].cost)]
    /\ UNCHANGED <<tokens, reqs, grants, subs, books, faults>>

\* Second statement of DeductQuota; the request is over.
ChargeUser(r) ==
    LET u == Payer(r)  cost == reqs[r].cost IN
    /\ reqs[r].pc = "chargeUser"
    /\ reqs' = [reqs EXCEPT ![r] = IdleReq]
    /\ \/ /\ users' = [users EXCEPT ![u] = Charged(@, reqs[r].userCopy, cost)]
          /\ books' = [books EXCEPT ![u].spent = IF Counted(r) THEN @ + cost ELSE @]
          /\ UNCHANGED faults
       \/ /\ faults < MaxFaults
          /\ faults' = faults + 1
          /\ books' = [books EXCEPT ![u].lost = @ + cost]
          /\ UNCHANGED users
    /\ UNCHANGED <<tokens, grants, subs>>

----------------------------------------------------------------------------
(* Admin writes of the account's quota (handler/admin.go, handler/subscriptions.go). *)

\* The row's new quota, and the history that starts with it.
WriteQuota(u, q) ==
    /\ users' = [users EXCEPT ![u].quota = q]
    /\ books' = [books EXCEPT ![u].budget = q, ![u].spent = 0]
    /\ reqs' = [r \in Requests |->
                  IF reqs[r].pc # "idle" /\ Payer(r) = u
                  THEN [reqs[r] EXCEPT !.fresh = FALSE] ELSE reqs[r]]

UpdateQuota(u, q) ==
    /\ WriteQuota(u, q)
    /\ UNCHANGED <<tokens, grants, subs, faults>>

\* Grant loads the user, then an active plan (quota q at that moment).
GrantRead(g, u, q) ==
    /\ grants[g].pc = "new"
    /\ grants' = [grants EXCEPT ![g] = [pc |-> "planRead", user |-> u,
                                        userQuota |-> users[u].quota, quota |-> q]]
    /\ UNCHANGED <<users, tokens, reqs, subs, books, faults>>

GrantCreate(g) ==
    /\ grants[g].pc = "planRead"
    /\ \/ /\ subs' = [subs EXCEPT ![g] = "active"]
          /\ grants' = [grants EXCEPT ![g].pc = "subCreated"]
          /\ UNCHANGED faults
       \/ /\ faults < MaxFaults
          /\ faults' = faults + 1
          /\ grants' = [grants EXCEPT ![g] = [NewGrant EXCEPT !.pc = "dead"]]
          /\ UNCHANGED subs
    /\ UNCHANGED <<users, tokens, reqs, books>>

\* What the grant makes of the balance it read; Unlimited copies and
\* zero-quota plans leave the column out of the UPDATE.
TopUp(copy, quota) == IF quota = Unlimited THEN Unlimited ELSE copy + quota
WritesQuota(copy, quota) == quota = Unlimited \/ (quota > 0 /\ copy # Unlimited)

GrantApply(g) ==
    LET copy == grants[g].userQuota  quota == grants[g].quota IN
    /\ grants[g].pc = "subCreated"
    /\ \/ /\ IF WritesQuota(copy, quota)
             THEN WriteQuota(grants[g].user, TopUp(copy, quota))
             ELSE UNCHANGED <<users, reqs, books>>
          /\ grants' = [grants EXCEPT ![g] = [NewGrant EXCEPT !.pc = "done"]]
          /\ UNCHANGED faults
       \/ /\ faults < MaxFaults
          /\ faults' = faults + 1
          /\ grants' = [grants EXCEPT ![g] = [NewGrant EXCEPT !.pc = "dead"]]
          /\ UNCHANGED <<users, reqs, books>>
    /\ UNCHANGED <<tokens, subs>>

----------------------------------------------------------------------------
(* Subscriptions after the grant.                                          *)

\* List and Mine run expireDue before they read: it flips every overdue
\* active row.  Time is left out: any active row may be overdue.
ExpireDue(due) ==
    /\ due # {} /\ \A g \in due : subs[g] = "active"
    /\ subs' = [g \in Grants |-> IF g \in due THEN "expired" ELSE subs[g]]
    /\ UNCHANGED <<users, tokens, reqs, grants, books, faults>>

\* Mutant: the UPDATE lacks its status condition.
CancelAny(g) ==
    /\ subs[g] # "none"
    /\ subs' = [subs EXCEPT ![g] = "cancelled"]
    /\ UNCHANGED <<users, tokens, reqs, grants, books, faults>>

Cancel(g) ==
    /\ subs[g] = "active"
    /\ subs' = [subs EXCEPT ![g] = "cancelled"]
    /\ UNCHANGED <<users, tokens, reqs, grants, books, faults>>

----------------------------------------------------------------------------

Owing(r) == reqs[r].pc \in {"chargeToken", "chargeUser"}

\* The handler dies where it stands: its process is killed, or it panics.
\* What it has not yet charged is never charged.
RequestDies(r) ==
    /\ reqs[r].pc # "idle" /\ faults < MaxFaults
    /\ reqs' = [reqs EXCEPT ![r] = IdleReq]
    /\ books' = [books EXCEPT ![Payer(r)].lost = IF Owing(r) THEN @ + reqs[r].cost ELSE @]
    /\ faults' = faults + 1
    /\ UNCHANGED <<users, tokens, grants, subs>>

GrantDies(g) ==
    /\ grants[g].pc \in {"planRead", "subCreated"} /\ faults < MaxFaults
    /\ grants' = [grants EXCEPT ![g] = [NewGrant EXCEPT !.pc = "dead"]]
    /\ faults' = faults + 1
    /\ UNCHANGED <<users, tokens, reqs, subs, books>>

RequestNext(r) ==
    \/ \E t \in Tokens : ReadKey(r, t)
    \/ Admit(r)
    \/ AnswerFree(r)
    \/ \E c \in 1..MaxCost : Answer(r, c)
    \/ ChargeToken(r)
    \/ ChargeUser(r)
    \/ RequestDies(r)

GrantNext(g) ==
    \/ \E u \in Users, q \in PlanQuotas : GrantRead(g, u, q)
    \/ GrantCreate(g)
    \/ GrantApply(g)
    \/ GrantDies(g)
    \/ Cancel(g)

TokenNext(t) ==
    \/ DraftToken(t)
    \/ CreateToken(t)
    \/ \E s \in {"active", "disabled"} : UpdateTokenStatus(t, s)
    \/ DeleteToken(t)

Next ==
    \/ \E r \in Requests : RequestNext(r)
    \/ \E g \in Grants : GrantNext(g)
    \/ \E t \in Tokens : TokenNext(t)
    \/ \E u \in Users, q \in AdminQuotas : UpdateQuota(u, q)
    \/ \E due \in SUBSET Grants : ExpireDue(due)

Spec == Init /\ [][Next]_vars

----------------------------------------------------------------------------
(* Properties.                                                             *)

OwedBy(u) == {r \in Requests : Owing(r) /\ Payer(r) = u}

\* No answer is charged twice or forgotten (DeductQuota): what an account
\* consumed is what it was served, less what handlers in flight still owe
\* and what a crash or a refused statement dropped.
UsageAccounted ==
    \A u \in Users :
        users[u].used + books[u].lost + MapThenSumSet(LAMBDA r : reqs[r].cost, OwedBy(u))
            = books[u].delivered

Overspend == Cardinality(Requests) * MaxCost - 1

\* Deduction after the fact lets an account overspend, but only by what the
\* requests running together can cost: once the balance is spent nothing
\* more is admitted, until an admin writes the quota again (QuotaAvailable,
\* and the clamp at zero in DeductQuota).
AccountOverspendBounded ==
    \A u \in Users :
        /\ books[u].budget = 0 => books[u].spent = 0
        /\ books[u].budget > 0 => books[u].spent <= books[u].budget + Overspend

\* The same for a key with a quota of its own, over its whole life.
KeyOverspendBounded ==
    \A t \in Tokens :
        tokens[t].limit # Unlimited =>
            tokens[t].used <= tokens[t].limit + Overspend

\* Charging a metered account or key never leaves it richer, and never
\* turns a spent balance into the -1 that means unlimited (DeductQuota).
ChargeNeverFunds ==
    [][/\ \A u \in Users :
            users'[u].used # users[u].used /\ users[u].quota # Unlimited =>
                users'[u].quota \in 0..users[u].quota
       /\ \A t \in Tokens :
            tokens'[t].used > tokens[t].used /\ tokens[t].quota # Unlimited =>
                tokens'[t].quota \in 0..tokens[t].quota]_vars

\* An expired or cancelled subscription never comes back, whichever of
\* expireDue and Cancel comes first (the status guard of both UPDATEs).
SubscriptionEndsOnce ==
    [][\A g \in Grants :
         subs[g] \in {"expired", "cancelled"} => subs'[g] = subs[g]]_vars

DebtOf(r) == [handler |-> r, account |-> Payer(r), cost |-> reqs[r].cost]
Debts == {DebtOf(r) : r \in {s \in Requests : Owing(s)}}
UsedQuota == [u \in Users |-> users[u].used]

\* The abstract ledger, whose debts are the costs not yet booked on a user.
Ledger == INSTANCE UsageLedger WITH
    Accounts <- Users, Handlers <- Requests, used <- UsedQuota, debts <- Debts

\* Each priced answer is one debt, settled once for its cost or written off.
MetersUsage == Ledger!Spec

\* "Unlimited (-1) never blocks" (QuotaAvailable) and "-1 switches the
\* account to unlimited" (Grant): a charge leaves such an account alone.
UnlimitedStaysUnlimited ==
    [][\A u \in Users :
         users'[u].used > users[u].used /\ users[u].quota = Unlimited =>
             users'[u].quota = Unlimited]_vars

\* "the granted quota is added to their balance" (Grant).
GrantAddsToBalance ==
    [][\A g \in Grants :
         grants[g].pc = "subCreated" /\ grants'[g].pc = "done" /\ grants[g].quota > 0
             /\ users[grants[g].user].quota # Unlimited =>
                users'[grants[g].user].quota = users[grants[g].user].quota + grants[g].quota]_vars
=============================================================================
