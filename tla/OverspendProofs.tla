-------------------------- MODULE OverspendProofs ---------------------------
(***************************************************************************)
(* How far an account, and a key with a quota of its own, may overspend,   *)
(* for any number of handlers, any prices and any quotas.                  *)
(***************************************************************************)
EXTENDS BillingProofs

-----------------------------------------------------------------------------
(* The balance, and what those under way may still cost.                   *)

\* A budget b of which s is spent: what is left is the quota q, until q is 0
\* and only the n handlers admitted before may still charge.
Bounded(b, q, s, n) ==
    /\ q > 0 => s + q <= b
    /\ q = 0 => s + MaxCost * n <= b + MaxCost * Cardinality(Requests) - 1

LEMMA Products ==
    ASSUME NEW k \in Nat, NEW a \in Nat, NEW b \in Nat, a <= b
    PROVE  k * a \in Nat /\ k * b \in Nat /\ k * a <= k * b /\ k * (a + 1) = k * a + k
OBVIOUS

LEMMA Handlers == Cardinality(Requests) \in Nat /\ MaxCost \in Nat \ {0}
BY BillingAssumption, FS_CardinalityType

\* A handler that was counted charges its cost, and is counted no more.
LEMMA CountedCharge ==
    ASSUME NEW b \in Nat, NEW q \in Nat, NEW s \in Nat, NEW c \in 0..MaxCost, NEW n \in Nat,
           n + 1 <= Cardinality(Requests), Bounded(b, q, s, n + 1)
    PROVE  Bounded(b, Deduct(q, c), s + c, n)
<1> DEFINE m == Cardinality(Requests)
           d == Deduct(q, c)
<1>1. m \in Nat /\ MaxCost \in Nat \ {0}
  BY Handlers
<1>2. MaxCost * n \in Nat /\ MaxCost * m \in Nat
  BY <1>1, Products
<1>3. MaxCost * (n + 1) = MaxCost * n + MaxCost
  BY <1>1, Products
<1>4. MaxCost * (n + 1) <= MaxCost * m
  BY <1>1, Products
<1> DEFINE x == MaxCost * n
           y == MaxCost * m
<1>5. CASE d > 0
  <2>1. d = q - c /\ q > 0
    BY <1>5, <1>1 DEF Deduct
  <2> QED BY <1>1, <1>5, <2>1 DEF Bounded
<1>6. CASE d = 0 /\ q > 0
  <2>1. c >= q /\ s + q <= b
    BY <1>1, <1>6 DEF Deduct, Bounded
  <2>2. x + MaxCost <= y /\ x \in Nat /\ y \in Nat
    BY <1>1, <1>2, <1>3, <1>4
  <2> HIDE DEF x, y
  <2>3. s + c + x <= b + y - 1
    BY <1>1, <1>6, <2>1, <2>2
  <2> QED BY <1>6, <2>3 DEF Bounded, x, y
<1>7. CASE d = 0 /\ q = 0
  <2>1. s + (x + MaxCost) <= b + y - 1
    BY <1>3, <1>7 DEF Bounded
  <2>2. x \in Nat /\ y \in Nat
    BY <1>2
  <2> HIDE DEF x, y
  <2>3. s + c + x <= b + y - 1
    BY <1>1, <2>1, <2>2
  <2> QED BY <1>7, <2>3 DEF Bounded, x, y
<1>8. d \in Nat
  BY <1>1 DEF Deduct
<1> QED BY <1>5, <1>6, <1>7, <1>8

\* The balance may only go down, and handlers only leave.
LEMMA LooseCharge ==
    ASSUME NEW b \in Nat, NEW q \in Nat, NEW s \in Nat, NEW n \in Nat, NEW p \in Nat, NEW k \in Nat,
           n <= Cardinality(Requests), Bounded(b, q, s, n), p <= q, k <= n
    PROVE  Bounded(b, p, s, k)
<1> DEFINE m == Cardinality(Requests)
           x == MaxCost * n
           y == MaxCost * m
           z == MaxCost * k
<1>1. m \in Nat /\ MaxCost \in Nat \ {0}
  BY Handlers
<1>2. x \in Nat /\ y \in Nat /\ z \in Nat /\ z <= x /\ x <= y
  BY <1>1, Products
<1>3. CASE p > 0
  BY <1>3 DEF Bounded
<1>4. CASE p = 0 /\ q > 0
  <2>1. s + q <= b
    BY <1>4 DEF Bounded
  <2> HIDE DEF x, y, z
  <2>2. s + z <= b + y - 1
    BY <1>2, <1>4, <2>1
  <2> QED BY <1>4, <2>2 DEF Bounded, y, z
<1>5. CASE p = 0 /\ q = 0
  <2>1. s + x <= b + y - 1
    BY <1>5 DEF Bounded
  <2> HIDE DEF x, y, z
  <2>2. s + z <= b + y - 1
    BY <1>2, <2>1
  <2> QED BY <1>5, <2>2 DEF Bounded, y, z
<1> QED BY <1>3, <1>4, <1>5

\* What Bounded says of the spending, whatever is left.
LEMMA BoundedSpending ==
    ASSUME NEW b \in Nat, NEW q \in Nat, NEW s \in Nat, NEW n \in Nat, Bounded(b, q, s, n)
    PROVE  s <= b + Overspend
<1> DEFINE m == Cardinality(Requests)
           x == MaxCost * n
           y == MaxCost * m
<1>1. m \in Nat /\ MaxCost \in Nat \ {0}
  BY Handlers
<1>2. x \in Nat /\ y \in Nat /\ m * MaxCost = y
  BY <1>1, Products
<1> HIDE DEF x, y
<1>3. s <= b + y - 1
  BY <1>2 DEF Bounded, x, y
<1> QED BY <1>2, <1>3 DEF Overspend

-----------------------------------------------------------------------------
(* Accounts.                                                               *)

\* The handlers admitted on what is now the account's budget.
Underway(u) == {r \in Requests : /\ reqs[r].pc \in {"admitted", "chargeToken", "chargeUser"}
                                 /\ Payer(r) = u
                                 /\ reqs[r].fresh}

\* An account with a finite budget has a finite balance, its handlers know
\* so, and budget, balance and what was spent belong together.
AccountInv(u) ==
    books[u].budget # Unlimited =>
        /\ users[u].quota # Unlimited
        /\ \A r \in Underway(u) : reqs[r].userCopy # Unlimited
        /\ books[u].budget = 0 => users[u].quota = 0 /\ books[u].spent = 0 /\ Underway(u) = {}
        /\ books[u].budget > 0 =>
               Bounded(books[u].budget, users[u].quota, books[u].spent, Cardinality(Underway(u)))

AccountsInv == \A u \in Users : AccountInv(u)

\* The columns and the history of one account.
LEMMA AccountFields ==
    ASSUME TypeOK, NEW u \in Users
    PROVE  /\ users[u].quota \in Quota /\ books[u].budget \in Quota /\ books[u].spent \in Nat
           /\ users[u] \in UserRow /\ books[u] \in Books
BY DEF TypeOK, UserRow, Books

LEMMA Counts ==
    ASSUME NEW A \in SUBSET Requests, NEW B \in SUBSET A
    PROVE  /\ Cardinality(A) \in Nat /\ Cardinality(B) \in Nat
           /\ Cardinality(B) <= Cardinality(A) /\ Cardinality(A) <= Cardinality(Requests)
<1>1. IsFiniteSet(A) /\ Cardinality(A) <= Cardinality(Requests)
  BY BillingAssumption, FS_Subset
<1>2. IsFiniteSet(B) /\ Cardinality(B) <= Cardinality(A)
  BY <1>1, FS_Subset
<1> QED BY <1>1, <1>2, FS_CardinalityType

LEMMA CountsLess ==
    ASSUME NEW A \in SUBSET Requests, NEW r \in A
    PROVE  /\ Cardinality(A \ {r}) \in Nat
           /\ Cardinality(A \ {r}) + 1 = Cardinality(A) /\ Cardinality(A) <= Cardinality(Requests)
<1>1. IsFiniteSet(A) /\ Cardinality(A) <= Cardinality(Requests)
  BY BillingAssumption, FS_Subset
<1>2. Cardinality(A) \in Nat /\ IsFiniteSet(A \ {r}) /\ Cardinality(A \ {r}) \in Nat
  BY <1>1, FS_CardinalityType, FS_Subset
<1>3. Cardinality(A \ {r}) = Cardinality(A) - 1
  BY <1>1, FS_RemoveElement
<1> QED BY <1>1, <1>2, <1>3

\* No admission and nothing booked: the balance at most shrinks, handlers at
\* most leave.
LEMMA AccountQuiet ==
    ASSUME TypeOK, NEW u \in Users, AccountInv(u),
           users[u].quota # Unlimited => users'[u].quota \in Nat /\ users'[u].quota <= users[u].quota,
           books'[u].budget = books[u].budget, books'[u].spent = books[u].spent,
           \A r \in Underway(u)' : r \in Underway(u) /\ reqs'[r].userCopy = reqs[r].userCopy
    PROVE  AccountInv(u)'
<1> DEFINE b == books[u].budget
           U == Underway(u)
           V == Underway(u)'
<1> SUFFICES ASSUME b # Unlimited PROVE AccountInv(u)'
  BY DEF AccountInv
<1>1. b \in Nat /\ users[u].quota \in Nat /\ books[u].spent \in Nat /\ users'[u].quota \in Nat
  BY AccountFields DEF AccountInv, Quota
<1>2. U \subseteq Requests /\ V \subseteq U
  BY DEF Underway
<1> HIDE DEF U, V
<1>3. Cardinality(U) \in Nat /\ Cardinality(V) \in Nat /\ Cardinality(V) <= Cardinality(U)
      /\ Cardinality(U) <= Cardinality(Requests)
  BY <1>2, Counts
<1>4. b > 0 => Bounded(b, users'[u].quota, books[u].spent, Cardinality(V))
  <2>1. SUFFICES ASSUME b > 0 PROVE Bounded(b, users'[u].quota, books[u].spent, Cardinality(V))
    OBVIOUS
  <2>2. Bounded(b, users[u].quota, books[u].spent, Cardinality(U)) /\ users'[u].quota <= users[u].quota
    BY <1>1, <2>1 DEF AccountInv, U, Unlimited
  <2> QED BY <1>1, <1>3, <2>2, LooseCharge
<1>5. b = 0 => users'[u].quota = 0 /\ books[u].spent = 0 /\ V = {}
  BY <1>1, <1>2 DEF AccountInv, U, Unlimited
<1>6. \A r \in V : reqs'[r].userCopy # Unlimited
  BY <1>2 DEF AccountInv, U, V
<1> QED BY <1>1, <1>4, <1>5, <1>6 DEF AccountInv, V, Unlimited

\* An admission: the balance read was positive.
LEMMA AccountAdmits ==
    ASSUME TypeOK, AccountsInv, NEW r \in Requests, Admit(r), NEW u \in Users
    PROVE  AccountInv(u)'
<1> USE DEF Admit
<1>0. users' = users /\ books' = books /\ reqs[r] \in Request /\ AccountInv(u)
  BY RequestFields DEF AccountsInv
<1>1. reqs'[r].tok = reqs[r].tok /\ reqs'[r].userCopy = Sign(users[Payer(r)].quota)
  BY <1>0 DEF TypeOK, Request
<1>2. \A s \in Requests \ {r} : reqs'[s] = reqs[s]
  BY DEF TypeOK
<1>3. CASE Payer(r) # u
  <2>1. \A s \in Underway(u)' : s \in Underway(u) /\ reqs'[s].userCopy = reqs[s].userCopy
    BY <1>1, <1>2, <1>3 DEF Underway, Payer
  <2>2. users[u].quota # Unlimited => users'[u].quota \in Nat /\ users'[u].quota <= users[u].quota
    BY <1>0, AccountFields DEF Quota
  <2> QED BY <1>0, <2>1, <2>2, AccountQuiet
<1>4. CASE Payer(r) = u
  <2> DEFINE q == users[u].quota
  <2>1. SUFFICES ASSUME books[u].budget # Unlimited PROVE AccountInv(u)'
    BY <1>0 DEF AccountInv
  <2>2. q \in Nat /\ books[u].budget \in Nat /\ books[u].spent \in Nat
    BY <1>0, <2>1, AccountFields DEF AccountInv, Quota
  <2>3. q > 0 /\ Sign(q) = 1
    BY <1>4, <2>2 DEF QuotaAvailable, Available, Sign, Unlimited
  <2>4. books[u].budget > 0 /\ books[u].spent + q <= books[u].budget
    BY <1>0, <2>1, <2>2, <2>3 DEF AccountInv, Bounded
  <2>5. \A s \in Underway(u)' : reqs'[s].userCopy # Unlimited
    <3>1. \A s \in Underway(u)' : s = r \/ (s \in Underway(u) /\ reqs'[s].userCopy = reqs[s].userCopy)
      BY <1>2 DEF Underway, Payer
    <3>2. reqs'[r].userCopy = 1
      BY <1>1, <1>4, <2>3
    <3>3. \A s \in Underway(u) : reqs[s].userCopy # Unlimited
      BY <1>0, <2>1 DEF AccountInv
    <3>4. SUFFICES ASSUME NEW s \in Underway(u)' PROVE reqs'[s].userCopy # Unlimited
      OBVIOUS
    <3>5. CASE s = r
      BY <3>2, <3>5 DEF Unlimited
    <3>6. CASE s \in Underway(u) /\ reqs'[s].userCopy = reqs[s].userCopy
      BY <3>3, <3>6
    <3> QED BY <3>1, <3>5, <3>6
  <2>6. Bounded(books[u].budget, q, books[u].spent, Cardinality(Underway(u)'))
    BY <2>3, <2>4 DEF Bounded
  <2>7. books[u].budget # 0 /\ q # Unlimited
    BY <2>2, <2>4 DEF Unlimited
  <2> QED BY <1>0, <2>5, <2>6, <2>7 DEF AccountInv
<1> QED BY <1>3, <1>4

\* The charge of a counted handler.
LEMMA AccountCharged ==
    ASSUME TypeOK, AccountsInv, NEW r \in Requests, reqs[r].pc = "chargeUser",
           reqs' = [reqs EXCEPT ![r] = IdleReq], NEW u \in Users, Payer(r) = u, Counted(r),
           users' = [users EXCEPT ![u] = Charged(@, reqs[r].userCopy, reqs[r].cost)],
           books' = [books EXCEPT ![u].spent = @ + reqs[r].cost]
    PROVE  AccountInv(u)'
<1> DEFINE b == books[u].budget
           q == users[u].quota
           c == reqs[r].cost
           U == Underway(u)
           V == Underway(u)'
<1>1. AccountInv(u) /\ b # Unlimited /\ r \in U
  BY DEF AccountsInv, Counted, Underway
<1>2. b \in Nat /\ q \in Nat /\ books[u].spent \in Nat /\ c \in 0..MaxCost
  BY <1>1, AccountFields, RequestFields DEF AccountInv, Quota
<1>3. b > 0
  BY <1>1, <1>2 DEF AccountInv
<1>4. reqs[r].userCopy # Unlimited
  BY <1>1 DEF AccountInv
<1>5. users'[u].quota = Deduct(q, c) /\ Deduct(q, c) \in Nat
  <2>1. users'[u] = [users[u] EXCEPT !.used = @ + c, !.quota = Deduct(@, c)]
    BY <1>4 DEF TypeOK, Charged
  <2>2. users'[u].quota = Deduct(q, c)
    BY <2>1, AccountFields DEF UserRow
  <2>3. Deduct(q, c) \in Nat
    BY <1>2, DeductBounds DEF Quota
  <2> QED BY <2>2, <2>3
<1>6. books'[u].budget = b /\ books'[u].spent = books[u].spent + c
  BY DEF TypeOK, Books
<1>7. V = U \ {r} /\ \A s \in V : reqs'[s].userCopy = reqs[s].userCopy
  <2>1. reqs'[r].pc = "idle" /\ \A s \in Requests \ {r} : reqs'[s] = reqs[s]
    BY IdleReqType DEF TypeOK
  <2> QED BY <2>1 DEF Underway, Payer
<1>8. U \subseteq Requests
  BY DEF Underway
<1>9. Bounded(b, q, books[u].spent, Cardinality(U))
  BY <1>1, <1>3 DEF AccountInv
<1> HIDE DEF U, V
<1>10. /\ Cardinality(V) \in Nat /\ Cardinality(V) + 1 = Cardinality(U)
       /\ Cardinality(U) <= Cardinality(Requests)
  BY <1>1, <1>7, <1>8, CountsLess
<1>11. Bounded(b, Deduct(q, c), books[u].spent + c, Cardinality(V))
  BY <1>2, <1>9, <1>10, CountedCharge
<1>12. \A s \in V : reqs'[s].userCopy # Unlimited
  BY <1>1, <1>7 DEF AccountInv, U
<1> QED BY <1>2, <1>3, <1>5, <1>6, <1>11, <1>12 DEF AccountInv, V, Unlimited

\* An admin's write starts a budget that nobody has been admitted on.
LEMMA AccountRewritten ==
    ASSUME TypeOK, AccountsInv, NEW w \in Users, NEW q \in Quota, WriteQuota(w, q), NEW u \in Users
    PROVE  AccountInv(u)'
<1>1. AccountInv(u)
  BY DEF AccountsInv
<1>2. \A r \in Requests : /\ reqs'[r].pc = reqs[r].pc /\ reqs'[r].tok = reqs[r].tok
                          /\ reqs'[r].userCopy = reqs[r].userCopy
                          /\ reqs'[r].fresh = (reqs[r].fresh /\ ~(reqs[r].pc # "idle" /\ Payer(r) = w))
  <2>1. \A r \in Requests : reqs[r] \in Request
    BY DEF TypeOK
  <2> QED BY <2>1 DEF WriteQuota, Request
<1>3. CASE u # w
  <2>1. users'[u] = users[u] /\ books'[u] = books[u]
    BY <1>3 DEF WriteQuota, TypeOK
  <2>2. \A r \in Underway(u)' : r \in Underway(u) /\ reqs'[r].userCopy = reqs[r].userCopy
    BY <1>2 DEF Underway, Payer
  <2>3. users[u].quota # Unlimited => users'[u].quota \in Nat /\ users'[u].quota <= users[u].quota
    BY <2>1, AccountFields DEF Quota
  <2> QED BY <1>1, <2>1, <2>2, <2>3, AccountQuiet
<1>4. CASE u = w
  <2>1. users'[u].quota = q /\ books'[u].budget = q /\ books'[u].spent = 0
    BY <1>4, AccountFields DEF WriteQuota, TypeOK, UserRow, Books
  <2>2. Underway(u)' = {}
    BY <1>2, <1>4 DEF Underway, Payer
  <2>3. q # Unlimited => q \in Nat
    BY DEF Quota
  <2> QED BY <2>1, <2>2, <2>3 DEF AccountInv, Bounded
<1> QED BY <1>3, <1>4

LEMMA AccountsStep ==
    ASSUME TypeOK, AccountsInv, [Next]_vars, NEW u \in Users PROVE AccountInv(u)'
<1> USE BillingAssumption
<1>1. AccountInv(u) /\ (users[u].quota # Unlimited => users[u].quota \in Nat /\ users[u].quota <= users[u].quota)
  BY AccountFields DEF AccountsInv, Quota
<1>2. ASSUME users' = users, \A v \in Users : /\ books'[v].budget = books[v].budget
                                               /\ books'[v].spent = books[v].spent,
             \A s \in Underway(u)' : s \in Underway(u) /\ reqs'[s].userCopy = reqs[s].userCopy
      PROVE  AccountInv(u)'
  BY <1>1, <1>2, AccountQuiet
<1>3. ASSUME UNCHANGED <<users, reqs, books>> PROVE AccountInv(u)'
  BY <1>2, <1>3 DEF Underway, Payer
<1>4. ASSUME NEW r \in Requests, RequestNext(r) PROVE AccountInv(u)'
  <2>0. reqs[r] \in Request /\ (reqs[r].pc # "idle" => Payer(r) \in Users)
        /\ \A v \in Users : books[v] \in Books
    BY RequestFields DEF TypeOK
  <2>a. ASSUME NEW x, reqs' = [reqs EXCEPT ![r] = x]
        PROVE  reqs'[r] = x /\ \A s \in Requests \ {r} : reqs'[s] = reqs[s]
    BY <2>a DEF TypeOK
  <2>1. ASSUME reqs'[r].pc \in {"idle", "keyRead"}, \A s \in Requests \ {r} : reqs'[s] = reqs[s]
        PROVE  \A s \in Underway(u)' : s \in Underway(u) /\ reqs'[s].userCopy = reqs[s].userCopy
    BY <2>1 DEF Underway, Payer
  <2>2. ASSUME reqs[r].pc \in {"admitted", "chargeToken"}, reqs'[r].tok = reqs[r].tok,
               reqs'[r].fresh = reqs[r].fresh, reqs'[r].userCopy = reqs[r].userCopy,
               \A s \in Requests \ {r} : reqs'[s] = reqs[s]
        PROVE  \A s \in Underway(u)' : s \in Underway(u) /\ reqs'[s].userCopy = reqs[s].userCopy
    BY <2>2 DEF Underway, Payer
  <2>b. ASSUME reqs' = [reqs EXCEPT ![r] = IdleReq]
        PROVE  \A s \in Underway(u)' : s \in Underway(u) /\ reqs'[s].userCopy = reqs[s].userCopy
    <3>1. reqs'[r] = IdleReq /\ \A s \in Requests \ {r} : reqs'[s] = reqs[s]
      BY <2>a, <2>b
    <3> QED BY <2>1, <3>1 DEF IdleReq
  <2>3. ASSUME NEW t \in Tokens, ReadKey(r, t) PROVE AccountInv(u)'
    <3> DEFINE x == [IdleReq EXCEPT !.pc = "keyRead", !.tok = t, !.tokenCopy = Sign(tokens[t].quota)]
    <3>1. x.pc = "keyRead" /\ reqs' = [reqs EXCEPT ![r] = x]
      BY <2>3 DEF ReadKey, IdleReq
    <3> HIDE DEF x
    <3>3. reqs'[r] = x /\ \A s \in Requests \ {r} : reqs'[s] = reqs[s]
      BY <2>a, <3>1
    <3>2. \A s \in Underway(u)' : s \in Underway(u) /\ reqs'[s].userCopy = reqs[s].userCopy
      BY <2>1, <3>1, <3>3
    <3> QED BY <1>2, <2>3, <3>2 DEF ReadKey
  <2>4. CASE Admit(r)
    BY <2>4, AccountAdmits
  <2>5. CASE AnswerFree(r)
    BY <1>2, <2>b, <2>5 DEF AnswerFree
  <2>6. ASSUME NEW c \in 1..MaxCost, Answer(r, c) PROVE AccountInv(u)'
    <3> DEFINE x == [reqs[r] EXCEPT !.pc = "chargeToken", !.cost = c]
    <3>1. x.tok = reqs[r].tok /\ x.fresh = reqs[r].fresh /\ x.userCopy = reqs[r].userCopy
      BY <2>0 DEF Request
    <3>2. reqs' = [reqs EXCEPT ![r] = x] /\ reqs[r].pc = "admitted" /\ users' = users
      BY <2>6 DEF Answer
    <3> HIDE DEF x
    <3>3. \A s \in Underway(u)' : s \in Underway(u) /\ reqs'[s].userCopy = reqs[s].userCopy
      <4>1. reqs'[r] = x /\ \A s \in Requests \ {r} : reqs'[s] = reqs[s]
        BY <2>a, <3>2
      <4> QED BY <2>2, <3>1, <3>2, <4>1
    <3>4. \A v \in Users : books'[v].budget = books[v].budget /\ books'[v].spent = books[v].spent
      BY <2>0, <2>6 DEF Answer, TypeOK, Books
    <3> QED BY <1>2, <3>2, <3>3, <3>4
  <2>7. CASE ChargeToken(r)
    <3> DEFINE x == [reqs[r] EXCEPT !.pc = "chargeUser"]
    <3>1. x.tok = reqs[r].tok /\ x.fresh = reqs[r].fresh /\ x.userCopy = reqs[r].userCopy
      BY <2>0 DEF Request
    <3>2. reqs' = [reqs EXCEPT ![r] = x] /\ reqs[r].pc = "chargeToken" /\ users' = users /\ books' = books
      BY <2>7 DEF ChargeToken
    <3> HIDE DEF x
    <3>3. \A s \in Underway(u)' : s \in Underway(u) /\ reqs'[s].userCopy = reqs[s].userCopy
      <4>1. reqs'[r] = x /\ \A s \in Requests \ {r} : reqs'[s] = reqs[s]
        BY <2>a, <3>2
      <4> QED BY <2>2, <3>1, <3>2, <4>1
    <3> QED BY <1>2, <3>2, <3>3
  <2>8. CASE ChargeUser(r)
    <3>1. reqs' = [reqs EXCEPT ![r] = IdleReq] /\ Payer(r) \in Users /\ reqs[r].cost \in Nat
      BY <2>0, <2>8, RequestFields DEF ChargeUser
    <3>2. \A s \in Underway(u)' : s \in Underway(u) /\ reqs'[s].userCopy = reqs[s].userCopy
      BY <2>b, <3>1
    <3>3. CASE users' = users /\ books' = [books EXCEPT ![Payer(r)].lost = @ + reqs[r].cost]
      <4>1. \A v \in Users : books'[v].budget = books[v].budget /\ books'[v].spent = books[v].spent
        BY <2>0, <3>3 DEF TypeOK, Books
      <4> QED BY <1>2, <3>2, <3>3, <4>1
    <3>4. CASE /\ users' = [users EXCEPT ![Payer(r)] = Charged(@, reqs[r].userCopy, reqs[r].cost)]
               /\ books' = [books EXCEPT ![Payer(r)].spent = IF Counted(r) THEN @ + reqs[r].cost ELSE @]
      <4>1. CASE Payer(r) = u /\ Counted(r)
        BY <2>8, <3>1, <3>4, <4>1, AccountCharged DEF ChargeUser
      <4>2. CASE Payer(r) # u \/ ~Counted(r)
        <5>1. books'[u].budget = books[u].budget /\ books'[u].spent = books[u].spent
          BY <2>0, <3>4, <4>2 DEF TypeOK, Books
        <5>2. users'[u] \in {users[u], Charged(users[u], reqs[r].userCopy, reqs[r].cost)}
          BY <3>4 DEF TypeOK
        <5>3. users'[u].quota \in {users[u].quota, Deduct(users[u].quota, reqs[r].cost)}
          BY <5>2, AccountFields DEF Charged, UserRow
        <5>4. users[u].quota # Unlimited => users'[u].quota \in Nat /\ users'[u].quota <= users[u].quota
          <6>1. users[u].quota \in Quota
            BY AccountFields
          <6>2. /\ Deduct(users[u].quota, reqs[r].cost) \in Nat
                /\ users[u].quota # Unlimited => Deduct(users[u].quota, reqs[r].cost) <= users[u].quota
            BY <3>1, <6>1, DeductBounds
          <6> QED BY <5>3, <6>1, <6>2 DEF Quota
        <5> QED BY <1>1, <3>2, <5>1, <5>4, AccountQuiet
      <4> QED BY <4>1, <4>2
    <3> QED BY <2>8, <3>3, <3>4 DEF ChargeUser
  <2>9. CASE RequestDies(r)
    <3>1. \A v \in Users : books'[v].budget = books[v].budget /\ books'[v].spent = books[v].spent
      BY <2>0, <2>9 DEF RequestDies, TypeOK, Books
    <3>2. reqs' = [reqs EXCEPT ![r] = IdleReq] /\ users' = users
      BY <2>9 DEF RequestDies
    <3>3. \A s \in Underway(u)' : s \in Underway(u) /\ reqs'[s].userCopy = reqs[s].userCopy
      BY <2>b, <3>2
    <3> QED BY <1>2, <3>1, <3>2, <3>3
  <2> QED BY <1>4, <2>3, <2>4, <2>5, <2>6, <2>7, <2>8, <2>9 DEF RequestNext
<1>5. ASSUME NEW w \in Users, NEW q \in AdminQuotas, UpdateQuota(w, q) PROVE AccountInv(u)'
  BY <1>5, AccountRewritten DEF UpdateQuota
<1>6. ASSUME NEW g \in Grants, GrantNext(g) PROVE AccountInv(u)'
  <2>1. CASE GrantApply(g)
    <3> DEFINE w == grants[g].user
               q == TopUp(grants[g].userQuota, grants[g].quota)
    <3>1. w \in Users /\ grants[g].userQuota \in Quota /\ grants[g].quota \in Quota
      BY DEF TypeOK, GrantOp
    <3>2. WritesQuota(grants[g].userQuota, grants[g].quota) => q \in Quota
      BY <3>1 DEF WritesQuota, TopUp, Quota, Unlimited
    <3>3. (q \in Quota /\ WriteQuota(w, q)) \/ UNCHANGED <<users, reqs, books>>
      BY <2>1, <3>2 DEF GrantApply
    <3> QED BY <1>3, <3>1, <3>3, AccountRewritten
  <2> QED BY <1>3, <1>6, <2>1 DEF GrantNext, GrantRead, GrantCreate, GrantDies, Cancel
<1> QED BY <1>3, <1>4, <1>5, <1>6
        DEF Next, TokenNext, DraftToken, CreateToken, UpdateTokenStatus, DeleteToken, ExpireDue, vars

LEMMA AccountsStart == Init => AccountsInv
<1> SUFFICES ASSUME Init, NEW u \in Users PROVE AccountInv(u)
  BY DEF AccountsInv
<1>1. users[u].quota = InitQuota[u] /\ books[u].budget = InitQuota[u] /\ books[u].spent = 0
  BY DEF Init
<1>2. Underway(u) = {}
  BY DEF Init, IdleReq, Underway
<1>3. InitQuota[u] # Unlimited => InitQuota[u] \in Nat
  BY BillingAssumption DEF Quota
<1> QED BY <1>1, <1>2, <1>3 DEF AccountInv, Bounded

\* However many requests run together, and whatever they cost, an account
\* overspends its budget by less than all of them can cost at once, and an
\* empty one spends nothing (QuotaAvailable, DeductQuota).
THEOREM AccountsBounded == Spec => []AccountOverspendBounded
<1>1. TypeOK /\ AccountsInv => AccountOverspendBounded
  <2> SUFFICES ASSUME TypeOK, AccountsInv, NEW u \in Users, books[u].budget \in Nat
               PROVE  /\ books[u].budget = 0 => books[u].spent = 0
                      /\ books[u].budget > 0 => books[u].spent <= books[u].budget + Overspend
    BY AccountFields DEF AccountOverspendBounded, Quota, Unlimited
  <2>1. AccountInv(u) /\ books[u].budget # Unlimited /\ books[u].spent \in Nat
    BY AccountFields DEF AccountsInv, Unlimited
  <2>2. users[u].quota \in Nat
    BY <2>1, AccountFields DEF AccountInv, Quota
  <2>3. CASE books[u].budget = 0
    BY <2>1, <2>3 DEF AccountInv
  <2>4. CASE books[u].budget > 0
    <3>1. Bounded(books[u].budget, users[u].quota, books[u].spent, Cardinality(Underway(u)))
      BY <2>1, <2>4 DEF AccountInv
    <3>2. Cardinality(Underway(u)) \in Nat
      <4>1. Underway(u) \subseteq Requests
        BY DEF Underway
      <4> QED BY <4>1, Counts
    <3> QED BY <2>1, <2>2, <2>4, <3>1, <3>2, BoundedSpending
  <2> QED BY <2>3, <2>4
<1>2. AccountsInv /\ TypeOK /\ [Next]_vars => AccountsInv'
  BY AccountsStep DEF AccountsInv
<1> QED BY <1>1, <1>2, AccountsStart, TypeCorrect, PTL DEF Spec

-----------------------------------------------------------------------------
(* Keys.                                                                   *)

\* The handlers that may still charge the key t: those that read a spent
\* quota are refused.
KeyUnderway(t) == {r \in Requests : /\ reqs[r].pc \in {"keyRead", "admitted", "chargeToken"}
                                    /\ reqs[r].tok = t
                                    /\ reqs[r].tokenCopy # 0}

\* A key created with a finite quota keeps one, its handlers know so, and
\* what it was created with, what is left and what was charged belong together.
KeyInv(t) ==
    /\ tokens[t].status \in {"none", "draft"} => KeyUnderway(t) = {}
    /\ tokens[t].status # "none" => tokens[t].limit # 0
    /\ tokens[t].limit # Unlimited =>
           /\ tokens[t].quota # Unlimited
           /\ \A r \in KeyUnderway(t) : reqs[r].tokenCopy # Unlimited
           /\ Bounded(tokens[t].limit, tokens[t].quota, tokens[t].used, Cardinality(KeyUnderway(t)))

\* An admitted request holds a key whose quota was not spent.
Admitted == \A r \in Requests : reqs[r].pc \in {"admitted", "chargeToken"} => reqs[r].tokenCopy # 0

KeysInv == Admitted /\ \A t \in Tokens : KeyInv(t)

LEMMA KeyFields ==
    ASSUME TypeOK, NEW t \in Tokens
    PROVE  /\ tokens[t] \in TokenRow /\ tokens[t].quota \in Quota /\ tokens[t].limit \in Quota
           /\ tokens[t].used \in Nat
           /\ tokens[t].limit # Unlimited => tokens[t].limit \in Nat
           /\ tokens[t].quota # Unlimited => tokens[t].quota \in Nat
           /\ \A s \in Users : users[s].quota \in Quota
BY DEF TypeOK, TokenRow, Quota, UserRow

\* Whatever the step, it leaves the key's columns alone, at most sets a
\* status other than none and draft, and handlers at most leave.
LEMMA KeyQuiet ==
    ASSUME TypeOK, NEW t \in Tokens, KeyInv(t),
           tokens'[t].limit = tokens[t].limit, tokens'[t].quota = tokens[t].quota,
           tokens'[t].used = tokens[t].used,
           tokens'[t].status \in {"none", "draft"} => tokens'[t].status = tokens[t].status,
           tokens'[t].status # "none" => tokens[t].status # "none",
           \A r \in KeyUnderway(t)' : r \in KeyUnderway(t) /\ reqs'[r].tokenCopy = reqs[r].tokenCopy
    PROVE  KeyInv(t)'
<1> DEFINE l == tokens[t].limit
           q == tokens[t].quota
           U == KeyUnderway(t)
           V == KeyUnderway(t)'
<1>1. U \subseteq Requests /\ V \subseteq U
  BY DEF KeyUnderway
<1>2. KeyInv(t) /\ \A r \in V : reqs'[r].tokenCopy = reqs[r].tokenCopy
  OBVIOUS
<1> HIDE DEF V
<1>3. CASE l = Unlimited
  BY <1>1, <1>2, <1>3 DEF KeyInv, V
<1>4. CASE l # Unlimited
  <2>1. /\ Bounded(l, q, tokens[t].used, Cardinality(U)) /\ q # Unlimited
        /\ l \in Nat /\ q \in Nat /\ tokens[t].used \in Nat
    BY <1>2, <1>4, KeyFields DEF KeyInv
  <2>2. Cardinality(U) \in Nat /\ Cardinality(V) \in Nat /\ Cardinality(V) <= Cardinality(U)
        /\ Cardinality(U) <= Cardinality(Requests)
    BY <1>1, Counts
  <2>3. q <= q
    BY <2>1
  <2> HIDE DEF U
  <2>4. Bounded(l, q, tokens[t].used, Cardinality(V))
    BY <2>1, <2>2, <2>3, LooseCharge
  <2>5. \A r \in V : reqs'[r].tokenCopy # Unlimited
    BY <1>1, <1>2, <1>4 DEF KeyInv, U
  <2> QED BY <1>1, <1>2, <2>1, <2>4, <2>5 DEF KeyInv, U, V
<1> QED BY <1>3, <1>4

\* Auth.Middleware reads a key that is active.
LEMMA KeyRead ==
    ASSUME TypeOK, KeysInv, NEW r \in Requests, NEW k \in Tokens, ReadKey(r, k), NEW t \in Tokens
    PROVE  KeyInv(t)'
<1> DEFINE x == [IdleReq EXCEPT !.pc = "keyRead", !.tok = k, !.tokenCopy = Sign(tokens[k].quota)]
<1>1. /\ reqs'[r] = x /\ \A s \in Requests \ {r} : reqs'[s] = reqs[s]
      /\ tokens' = tokens /\ tokens[k].status = "active"
  BY DEF ReadKey, TypeOK
<1>2. x.pc = "keyRead" /\ x.tok = k /\ x.tokenCopy = Sign(tokens[k].quota)
  BY DEF IdleReq
<1> HIDE DEF x
<1>3. KeyInv(t)
  BY DEF KeysInv
<1>4. CASE t # k \/ x.tokenCopy = 0
  <2>1. \A s \in KeyUnderway(t)' : s \in KeyUnderway(t) /\ reqs'[s].tokenCopy = reqs[s].tokenCopy
    BY <1>1, <1>2, <1>4 DEF KeyUnderway
  <2> QED BY <1>1, <1>3, <2>1, KeyQuiet
<1>5. CASE t = k /\ x.tokenCopy # 0
  <2>1. tokens[t].status # "none" /\ tokens[t].status # "draft"
    BY <1>1, <1>5
  <2>2. SUFFICES ASSUME tokens[t].limit # Unlimited PROVE KeyInv(t)'
    BY <1>1, <1>3, <2>1 DEF KeyInv
  <2>3. tokens[t].quota \in Nat /\ tokens[t].limit \in Nat /\ tokens[t].used \in Nat
    BY <1>3, <2>2, KeyFields DEF KeyInv
  <2>4. tokens[t].quota > 0 /\ x.tokenCopy = 1
    BY <1>2, <1>5, <2>3 DEF Sign
  <2>5. tokens[t].used + tokens[t].quota <= tokens[t].limit
    BY <1>3, <2>2, <2>3, <2>4 DEF KeyInv, Bounded
  <2>6. Bounded(tokens[t].limit, tokens[t].quota, tokens[t].used, Cardinality(KeyUnderway(t)'))
    BY <2>3, <2>4, <2>5 DEF Bounded
  <2>7. SUFFICES ASSUME NEW s \in KeyUnderway(t)' PROVE reqs'[s].tokenCopy # Unlimited
    BY <1>1, <1>3, <2>1, <2>2, <2>6 DEF KeyInv
  <2>8. CASE s = r
    BY <1>1, <2>4, <2>8 DEF Unlimited
  <2>9. CASE s # r
    BY <1>1, <1>3, <2>2, <2>9 DEF KeyInv, KeyUnderway
  <2> QED BY <2>8, <2>9
<1> QED BY <1>4, <1>5

\* The charge of a key that still exists.
LEMMA KeyCharged ==
    ASSUME TypeOK, KeysInv, NEW r \in Requests, reqs[r].pc = "chargeToken",
           reqs' = [reqs EXCEPT ![r].pc = "chargeUser"], NEW t \in Tokens, reqs[r].tok = t,
           tokens' = [tokens EXCEPT ![t] = Charged(@, reqs[r].tokenCopy, reqs[r].cost)]
    PROVE  KeyInv(t)'
<1> DEFINE c == reqs[r].cost
           U == KeyUnderway(t)
           V == KeyUnderway(t)'
<1>1. r \in U /\ KeyInv(t) /\ c \in 0..MaxCost
  BY RequestFields DEF KeysInv, Admitted, KeyUnderway
<1>2. reqs'[r].pc = "chargeUser" /\ \A s \in Requests \ {r} : reqs'[s] = reqs[s]
  BY DEF TypeOK, Request
<1>3. V = U \ {r} /\ U \subseteq Requests /\ \A s \in V : reqs'[s].tokenCopy = reqs[s].tokenCopy
  BY <1>2 DEF KeyUnderway
<1>4. /\ tokens'[t].limit = tokens[t].limit /\ tokens'[t].status = tokens[t].status
      /\ tokens'[t].used = tokens[t].used + c
      /\ reqs[r].tokenCopy # Unlimited => tokens'[t].quota = Deduct(tokens[t].quota, c)
  <2>1. tokens'[t] = Charged(tokens[t], reqs[r].tokenCopy, c) /\ tokens[t] \in TokenRow
    BY DEF TypeOK
  <2>2. CASE reqs[r].tokenCopy # Unlimited
    <3>1. tokens'[t] = [tokens[t] EXCEPT !.used = @ + c, !.quota = Deduct(@, c)]
      BY <2>1, <2>2 DEF Charged
    <3> QED BY <2>1, <3>1 DEF TokenRow
  <2>3. CASE reqs[r].tokenCopy = Unlimited
    <3>1. tokens'[t] = [tokens[t] EXCEPT !.used = @ + c, !.quota = @]
      BY <2>1, <2>3 DEF Charged
    <3> QED BY <2>1, <2>3, <3>1 DEF TokenRow
  <2> QED BY <2>2, <2>3
<1>5. tokens[t].status \notin {"none", "draft"} /\ tokens[t].limit # 0
  BY <1>1 DEF KeyInv
<1>6. SUFFICES ASSUME tokens[t].limit # Unlimited PROVE KeyInv(t)'
  BY <1>4, <1>5 DEF KeyInv
<1>7. tokens'[t].quota = Deduct(tokens[t].quota, c) /\ Deduct(tokens[t].quota, c) \in Nat
  <2>1. reqs[r].tokenCopy # Unlimited
    BY <1>1, <1>6 DEF KeyInv
  <2>2. Deduct(tokens[t].quota, c) \in Nat
    <3>1. tokens[t].quota \in Quota /\ c \in Nat
      BY KeyFields, RequestFields
    <3> QED BY <3>1, DeductBounds
  <2> QED BY <1>4, <2>1, <2>2
<1>8. /\ Bounded(tokens[t].limit, tokens[t].quota, tokens[t].used, Cardinality(U))
      /\ tokens[t].limit \in Nat /\ tokens[t].quota \in Nat /\ tokens[t].used \in Nat
  BY <1>1, <1>6, KeyFields DEF KeyInv
<1>9. \A s \in V : reqs'[s].tokenCopy # Unlimited
  BY <1>1, <1>3, <1>6 DEF KeyInv
<1> HIDE DEF U, V
<1>10. Cardinality(V) \in Nat /\ Cardinality(V) + 1 = Cardinality(U)
       /\ Cardinality(U) <= Cardinality(Requests)
  BY <1>1, <1>3, CountsLess
<1>11. Bounded(tokens[t].limit, Deduct(tokens[t].quota, c), tokens[t].used + c, Cardinality(V))
  BY <1>1, <1>8, <1>10, CountedCharge
<1> QED BY <1>4, <1>5, <1>7, <1>9, <1>11 DEF KeyInv, V, Unlimited

\* A new key: nobody can have read it.
LEMMA KeyDrafted ==
    ASSUME TypeOK, KeysInv, NEW k \in Tokens, DraftToken(k), NEW t \in Tokens
    PROVE  KeyInv(t)'
<1>1. reqs' = reqs /\ KeyInv(t) /\ KeyUnderway(t)' = KeyUnderway(t)
  BY DEF DraftToken, KeysInv, KeyUnderway
<1>2. CASE t # k
  <2>1. tokens'[t] = tokens[t]
    BY <1>2 DEF DraftToken, TypeOK
  <2> QED BY <1>1, <2>1, KeyQuiet
<1>3. CASE t = k
  <2> DEFINE q == users[Owner[k]].quota
             l == IF q = 0 THEN Unlimited ELSE q
  <2>1. tokens'[t] = [status |-> "draft", quota |-> l, used |-> 0, limit |-> l]
    BY <1>3 DEF DraftToken, TypeOK
  <2>2. q \in Quota
    BY BillingAssumption, KeyFields
  <2>3. l # 0 /\ (l # Unlimited => l \in Nat)
    BY <2>2 DEF Quota, Unlimited
  <2> HIDE DEF l
  <2>4. l # Unlimited => Bounded(l, l, 0, Cardinality(KeyUnderway(t)))
    BY <2>3 DEF Bounded
  <2>5. KeyUnderway(t) = {}
    BY <1>1, <1>3 DEF DraftToken, KeyInv
  <2> QED BY <1>1, <2>1, <2>3, <2>4, <2>5 DEF KeyInv
<1> QED BY <1>2, <1>3

LEMMA KeysStep ==
    ASSUME TypeOK, KeysInv, [Next]_vars, NEW t \in Tokens PROVE KeyInv(t)'
<1> USE BillingAssumption
<1>1. KeyInv(t)
  BY DEF KeysInv
<1>2. ASSUME tokens' = tokens,
             \A s \in KeyUnderway(t)' : s \in KeyUnderway(t) /\ reqs'[s].tokenCopy = reqs[s].tokenCopy
      PROVE  KeyInv(t)'
  BY <1>1, <1>2, KeyQuiet
<1>3. ASSUME tokens' = tokens,
             \A r \in Requests : /\ reqs'[r].pc = reqs[r].pc /\ reqs'[r].tok = reqs[r].tok
                                 /\ reqs'[r].tokenCopy = reqs[r].tokenCopy
      PROVE  KeyInv(t)'
  BY <1>2, <1>3 DEF KeyUnderway
<1>4. ASSUME NEW r \in Requests, RequestNext(r) PROVE KeyInv(t)'
  <2>0. reqs[r] \in Request
    BY DEF TypeOK
  <2>1. ASSUME NEW x, reqs' = [reqs EXCEPT ![r] = x]
        PROVE  reqs'[r] = x /\ \A s \in Requests \ {r} : reqs'[s] = reqs[s]
    BY <2>1 DEF TypeOK
  <2>2. ASSUME \/ reqs'[r].pc \in {"idle", "chargeUser"}
               \/ /\ reqs[r].pc \in {"keyRead", "admitted", "chargeToken"}
                  /\ reqs'[r].tok = reqs[r].tok
                  /\ reqs'[r].tokenCopy = reqs[r].tokenCopy,
               \A s \in Requests \ {r} : reqs'[s] = reqs[s]
        PROVE  \A s \in KeyUnderway(t)' : s \in KeyUnderway(t) /\ reqs'[s].tokenCopy = reqs[s].tokenCopy
    BY <2>2 DEF KeyUnderway
  <2>3. ASSUME reqs' = [reqs EXCEPT ![r] = IdleReq]
        PROVE  \A s \in KeyUnderway(t)' : s \in KeyUnderway(t) /\ reqs'[s].tokenCopy = reqs[s].tokenCopy
    <3>1. reqs'[r] = IdleReq /\ \A s \in Requests \ {r} : reqs'[s] = reqs[s]
      BY <2>1, <2>3
    <3> QED BY <2>2, <3>1, IdleReqType
  <2>4. ASSUME NEW k \in Tokens, ReadKey(r, k) PROVE KeyInv(t)'
    BY <2>4, KeyRead
  <2>5. CASE Admit(r)
    <3>1. reqs'[r].tok = reqs[r].tok /\ reqs'[r].tokenCopy = reqs[r].tokenCopy /\ reqs[r].pc = "keyRead"
          /\ \A s \in Requests \ {r} : reqs'[s] = reqs[s]
      BY <2>0, <2>5 DEF Admit, TypeOK, Request
    <3> QED BY <1>2, <2>2, <2>5, <3>1 DEF Admit
  <2>6. ASSUME NEW c \in 1..MaxCost, Answer(r, c) PROVE KeyInv(t)'
    <3>1. reqs'[r].tok = reqs[r].tok /\ reqs'[r].tokenCopy = reqs[r].tokenCopy /\ reqs[r].pc = "admitted"
          /\ \A s \in Requests \ {r} : reqs'[s] = reqs[s]
      BY <2>0, <2>6 DEF Answer, TypeOK, Request
    <3> QED BY <1>2, <2>2, <2>6, <3>1 DEF Answer
  <2>7. CASE ChargeToken(r)
    <3>1. reqs'[r].pc = "chargeUser" /\ \A s \in Requests \ {r} : reqs'[s] = reqs[s]
      BY <2>0, <2>7 DEF ChargeToken, TypeOK, Request
    <3>2. \A s \in KeyUnderway(t)' : s \in KeyUnderway(t) /\ reqs'[s].tokenCopy = reqs[s].tokenCopy
      BY <2>2, <3>1
    <3>3. CASE tokens' = tokens
      BY <1>2, <3>2, <3>3
    <3>4. CASE tokens' = [tokens EXCEPT ![reqs[r].tok] = Charged(@, reqs[r].tokenCopy, reqs[r].cost)]
      <4>1. CASE reqs[r].tok = t
        BY <2>7, <3>4, <4>1, KeyCharged DEF ChargeToken
      <4>2. CASE reqs[r].tok # t
        <5>1. tokens'[t] = tokens[t]
          BY <3>4, <4>2 DEF TypeOK
        <5> QED BY <1>1, <3>2, <5>1, KeyQuiet
      <4> QED BY <4>1, <4>2
    <3> QED BY <2>7, <3>3, <3>4 DEF ChargeToken
  <2>8. CASE AnswerFree(r)
    BY <1>2, <2>3, <2>8 DEF AnswerFree
  <2>9. CASE ChargeUser(r)
    BY <1>2, <2>3, <2>9 DEF ChargeUser
  <2>10. CASE RequestDies(r)
    BY <1>2, <2>3, <2>10 DEF RequestDies
  <2> QED BY <1>4, <2>4, <2>5, <2>6, <2>7, <2>8, <2>9, <2>10 DEF RequestNext
<1>5. ASSUME NEW w \in Users, NEW q, WriteQuota(w, q), tokens' = tokens PROVE KeyInv(t)'
  <2>1. \A r \in Requests : reqs[r] \in Request /\ reqs'[r] \in {reqs[r], [reqs[r] EXCEPT !.fresh = FALSE]}
    BY <1>5 DEF WriteQuota, TypeOK
  <2> QED BY <1>3, <1>5, <2>1 DEF Request
<1>6. ASSUME NEW g \in Grants, GrantNext(g) PROVE KeyInv(t)'
  <2>1. tokens' = tokens /\ (UNCHANGED reqs \/ \E w \in Users, q \in {TopUp(grants[g].userQuota, grants[g].quota)} :
                                                  WriteQuota(w, q))
    BY <1>6 DEF GrantNext, GrantRead, GrantCreate, GrantApply, GrantDies, Cancel, TypeOK, GrantOp
  <2> QED BY <1>3, <1>5, <2>1
<1>7. ASSUME NEW k \in Tokens, TokenNext(k) PROVE KeyInv(t)'
  <2>1. CASE DraftToken(k)
    BY <2>1, KeyDrafted
  <2>2. ASSUME reqs' = reqs, NEW s \in {"active", "disabled", "deleted"}, tokens[k].status # "none",
               tokens' = [tokens EXCEPT ![k].status = s]
        PROVE  KeyInv(t)'
    <3>1. \A r \in KeyUnderway(t)' : r \in KeyUnderway(t) /\ reqs'[r].tokenCopy = reqs[r].tokenCopy
      BY <2>2 DEF KeyUnderway
    <3>2. /\ tokens'[t].limit = tokens[t].limit /\ tokens'[t].quota = tokens[t].quota
          /\ tokens'[t].used = tokens[t].used
          /\ (tokens'[t].status = tokens[t].status \/ (tokens'[t].status = s /\ tokens[t].status # "none"))
      BY <2>2, KeyFields DEF TypeOK, TokenRow
    <3> QED BY <1>1, <2>2, <3>1, <3>2, KeyQuiet
  <2> QED BY <1>7, <2>1, <2>2 DEF TokenNext, CreateToken, UpdateTokenStatus, DeleteToken
<1> QED BY <1>3, <1>4, <1>5, <1>6, <1>7 DEF Next, UpdateQuota, ExpireDue, vars

LEMMA AdmittedStep ==
    ASSUME TypeOK, KeysInv, [Next]_vars PROVE Admitted'
<1> SUFFICES ASSUME NEW s \in Requests, reqs'[s].pc \in {"admitted", "chargeToken"}
             PROVE  reqs'[s].tokenCopy # 0
  BY DEF Admitted
<1>1. Admitted /\ reqs[s] \in Request
  BY DEF KeysInv, TypeOK
<1>2. ASSUME reqs'[s].pc = reqs[s].pc, reqs'[s].tokenCopy = reqs[s].tokenCopy
      PROVE  reqs'[s].tokenCopy # 0
  BY <1>1, <1>2 DEF Admitted
<1>3. ASSUME NEW r \in Requests, RequestNext(r) PROVE reqs'[s].tokenCopy # 0
  <2>1. CASE s # r
    <3>1. reqs'[s] = reqs[s]
      BY <1>3, <2>1 DEF RequestNext, ReadKey, Admit, AnswerFree, Answer, ChargeToken, ChargeUser,
                        RequestDies, TypeOK
    <3> QED BY <1>2, <3>1
  <2>2. CASE s = r
    <3>1. CASE Admit(s)
      <4>1. reqs[s].tokenCopy # 0 /\ reqs'[s].tokenCopy = reqs[s].tokenCopy
        BY <1>1, <3>1 DEF Admit, QuotaAvailable, Available, Unlimited, TypeOK, Request
      <4> QED BY <4>1
    <3>2. ASSUME NEW c \in 1..MaxCost, Answer(s, c) PROVE reqs'[s].tokenCopy # 0
      BY <1>1, <3>2 DEF Answer, Admitted, TypeOK, Request
    <3>3. ASSUME NEW x, x.pc \notin {"admitted", "chargeToken"} PROVE reqs' # [reqs EXCEPT ![s] = x]
      BY <3>3 DEF TypeOK
    <3>4. ~AnswerFree(s) /\ ~ChargeUser(s) /\ ~RequestDies(s)
      <4>1. reqs' # [reqs EXCEPT ![s] = IdleReq]
        BY <3>3, IdleReqType
      <4> QED BY <4>1 DEF AnswerFree, ChargeUser, RequestDies
    <3>5. \A t \in Tokens : ~ReadKey(s, t)
      BY <1>1 DEF ReadKey, TypeOK, IdleReq
    <3>6. ~ChargeToken(s)
      BY <1>1 DEF ChargeToken, TypeOK, Request
    <3> QED BY <1>3, <2>2, <3>1, <3>2, <3>4, <3>5, <3>6 DEF RequestNext
  <2> QED BY <2>1, <2>2
<1>4. ASSUME NEW w, NEW q, WriteQuota(w, q) PROVE reqs'[s].tokenCopy # 0
  <2>1. reqs'[s] \in {reqs[s], [reqs[s] EXCEPT !.fresh = FALSE]}
    BY <1>4 DEF WriteQuota
  <2> QED BY <1>1, <1>2, <2>1 DEF Request
<1>5. ASSUME NEW g \in Grants, GrantNext(g) PROVE reqs'[s].tokenCopy # 0
  BY <1>2, <1>4, <1>5 DEF GrantNext, GrantRead, GrantCreate, GrantApply, GrantDies, Cancel
<1> QED BY <1>2, <1>3, <1>4, <1>5
        DEF Next, TokenNext, DraftToken, CreateToken, UpdateTokenStatus, DeleteToken, UpdateQuota,
            ExpireDue, vars

LEMMA KeysStart == ASSUME Requests # {} PROVE Init => KeysInv
<1> SUFFICES ASSUME Init, NEW t \in Tokens PROVE Admitted /\ KeyInv(t)
  BY DEF Init, IdleReq, KeysInv, Admitted
<1>1. KeyUnderway(t) = {} /\ Admitted
  BY DEF Init, IdleReq, KeyUnderway, Admitted
<1>2. Cardinality(Requests) \in Nat \ {0} /\ Cardinality({}) = 0 /\ MaxCost \in Nat \ {0}
  BY BillingAssumption, Handlers, FS_EmptySet
<1>3. MaxCost * Cardinality({}) = 0 /\ MaxCost * 1 <= MaxCost * Cardinality(Requests)
      /\ MaxCost * Cardinality(Requests) \in Nat
  <2>1. 1 <= Cardinality(Requests)
    BY <1>2
  <2> QED BY <1>2, <2>1, Products
<1>4. Bounded(0, 0, 0, Cardinality({}))
  BY <1>2, <1>3 DEF Bounded
<1> QED BY <1>1, <1>4 DEF Init, KeyInv, Unlimited

\* The same of a key over its life, in a system that serves requests at all:
\* what it is charged stays below the quota it was created with and the cost
\* of what runs together (QuotaAvailable, DeductQuota).
THEOREM KeysBounded ==
    ASSUME Requests # {} PROVE Spec => []KeyOverspendBounded
<1>1. TypeOK /\ KeysInv => KeyOverspendBounded
  <2> SUFFICES ASSUME TypeOK, KeysInv, NEW t \in Tokens, tokens[t].limit # Unlimited
               PROVE  tokens[t].used <= tokens[t].limit + Overspend
    BY DEF KeyOverspendBounded
  <2>1. /\ Bounded(tokens[t].limit, tokens[t].quota, tokens[t].used, Cardinality(KeyUnderway(t)))
        /\ tokens[t].limit \in Nat /\ tokens[t].quota \in Nat /\ tokens[t].used \in Nat
    BY KeyFields DEF KeysInv, KeyInv
  <2>2. Cardinality(KeyUnderway(t)) \in Nat
    <3>1. KeyUnderway(t) \subseteq Requests
      BY DEF KeyUnderway
    <3> QED BY <3>1, Counts
  <2> QED BY <2>1, <2>2, BoundedSpending
<1>2. KeysInv /\ TypeOK /\ [Next]_vars => KeysInv'
  BY KeysStep, AdmittedStep DEF KeysInv
<1> QED BY <1>1, <1>2, KeysStart, TypeCorrect, PTL DEF Spec
=============================================================================
