--------------------------- MODULE AccountsProofs ---------------------------
(***************************************************************************)
(* Theorems about module Accounts, for any accounts, sessions, keys and    *)
(* handlers, with and without foreign keys and faults.                     *)
(***************************************************************************)
EXTENDS Accounts, TLAPS

----------------------------------------------------------------------------
(* Types.                                                                  *)

\* What TypeOK says of one handler's record.
HandlerOK(x) ==
    /\ x \in Handler
    /\ x.pc \in {"start", "key", "target", "count", "write", "revoke", "purge"}
         => x.target \in Users
    /\ x.pc \in {"target", "write"} => x.op \in AdminOps
    /\ x.pc = "count" => x.op \in Removing
    /\ x.pc = "revoke" => x.op \in Revoking
    /\ x.pc = "purge" => x.op = "delete"

LEMMA IdleOK == HandlerOK(Idle)
BY AccountsAssumption DEF HandlerOK, Handler, Idle

LEMMA HandlerTyped ==
    ASSUME TypeOK, NEW h \in Handlers PROVE HandlerOK(hs[h])
BY DEF TypeOK, HandlerOK

\* Replacing one handler's record.
LEMMA HandlerUpdate ==
    ASSUME TypeOK, NEW h \in Handlers, NEW x, HandlerOK(x), hs' = [hs EXCEPT ![h] = x],
           users' \in [Users -> UserRow], sessions' \in [Sessions -> Credential],
           keys' \in [Keys -> Credential], raced' \in BOOLEAN
    PROVE  TypeOK'
BY DEF TypeOK, HandlerOK

LEMMA TablesTyped ==
    ASSUME TypeOK
    PROVE  /\ users \in [Users -> UserRow]
           /\ sessions \in [Sessions -> Credential] /\ keys \in [Keys -> Credential]
           /\ raced \in BOOLEAN
BY DEF TypeOK

\* The tables after credentials were marked, removed or added.
LEMMA TablesKept ==
    ASSUME NEW S, NEW f \in [S -> Credential], NEW u \in Users
    PROVE  /\ MarkRevoked(f, u) \in [S -> Credential]
           /\ MarkEscaped(f, u) \in [S -> Credential]
           /\ Removed(f, u) \in [S -> Credential]
BY DEF MarkRevoked, MarkEscaped, Removed, Credential, Free

LEMMA RowUpdated ==
    ASSUME NEW row \in UserRow, NEW op \in AdminOps PROVE Updated(row, op) \in UserRow
<1>1. ASSUME NEW s \in {"active", "disabled", "deleted"}
      PROVE  [row EXCEPT !.status = s] \in UserRow
    BY <1>1 DEF UserRow
<1>2. ASSUME NEW r \in {"admin", "user"} PROVE [row EXCEPT !.role = r] \in UserRow
    BY <1>2 DEF UserRow
<1> QED BY <1>1, <1>2 DEF Updated, Saved, AdminOps, Revoking, Removing

LEMMA ArriveTyped == ASSUME TypeOK, NEW h \in Handlers, Arrive(h) PROVE TypeOK'
<1> USE AccountsAssumption, TablesTyped, HandlerTyped
<1>1. ASSUME NEW pc \in {"setup", "register"}, Go(h, pc),
             UNCHANGED <<users, sessions, keys, raced>>
      PROVE  TypeOK'
    <2>1. HandlerOK([hs[h] EXCEPT !.pc = pc])
        BY <1>1 DEF HandlerOK, Handler
    <2> QED BY <1>1, <2>1, HandlerUpdate DEF Go
<1>2. ASSUME NEW a \in Users \cup {NoUser, Root},
             hs' = [hs EXCEPT ![h].pc = "actor", ![h].actor = a],
             UNCHANGED <<users, sessions, keys, raced>>
      PROVE  TypeOK'
    <2> DEFINE x == [hs[h] EXCEPT !.pc = "actor", !.actor = a]
    <2>1. HandlerOK(x)
        BY <1>2 DEF HandlerOK, Handler
    <2>2. hs' = [hs EXCEPT ![h] = x]
        BY <1>2
    <2> HIDE DEF x
    <2> QED BY <1>2, <2>1, <2>2, HandlerUpdate
<1>3. ASSUME NEW u \in Users, Login(h, u) PROVE TypeOK'
    <2> DEFINE x == [hs[h] EXCEPT !.pc = "start", !.target = u]
    <2>1. HandlerOK(x)
        BY <1>3 DEF HandlerOK, Handler
    <2>2. hs' = [hs EXCEPT ![h] = x]
        BY <1>3 DEF Login
    <2> HIDE DEF x
    <2> QED BY <1>3, <2>1, <2>2, HandlerUpdate DEF Login
<1>4. ASSUME NEW u \in Users, ResetByCode(h, u) PROVE TypeOK'
    <2> DEFINE x == [hs[h] EXCEPT !.pc = "write", !.op = "password", !.target = u]
    <2>1. HandlerOK(x)
        BY <1>4 DEF HandlerOK, Handler, AdminOps, Revoking
    <2>2. hs' = [hs EXCEPT ![h] = x]
        BY <1>4 DEF ResetByCode
    <2> HIDE DEF x
    <2> QED BY <1>4, <2>1, <2>2, HandlerUpdate DEF ResetByCode
<1>5. \A s \in Sessions : sessions[s].user \in Users \cup {NoUser}
    BY DEF Credential
<1> QED BY <1>1, <1>2, <1>3, <1>4, <1>5
        DEF Arrive, BeginSetup, BeginRegister, PresentAdminKey, FindSession

LEMMA AuthoriseTyped == ASSUME TypeOK, NEW h \in Handlers, Authorise(h) PROVE TypeOK'
<1> USE AccountsAssumption, TablesTyped, HandlerTyped
<1>1. CASE Refuse(h)
    BY <1>1, HandlerUpdate, IdleOK DEF Refuse, Done
<1>2. CASE BeginCreate(h)
    <2>1. HandlerOK([Idle EXCEPT !.pc = "create"])
        BY DEF HandlerOK, Handler, Idle
    <2> QED BY <1>2, <2>1, HandlerUpdate DEF BeginCreate
<1>3. CASE BeginKey(h)
    <2> DEFINE x == [Idle EXCEPT !.pc = "key", !.target = hs[h].actor]
    <2>1. hs[h].actor \in Users
        BY <1>3 DEF BeginKey, ActorActive
    <2>2. HandlerOK(x)
        BY <2>1 DEF HandlerOK, Handler, Idle
    <2>3. hs' = [hs EXCEPT ![h] = x]
        BY <1>3 DEF BeginKey
    <2> HIDE DEF x
    <2> QED BY <1>3, <2>2, <2>3, HandlerUpdate DEF BeginKey
<1>4. ASSUME NEW op \in AdminOps, NEW t \in Users, BeginAdminOp(h, op, t) PROVE TypeOK'
    <2> DEFINE x == [hs[h] EXCEPT !.pc = "target", !.op = op, !.target = t]
    <2>1. HandlerOK(x)
        BY <1>4 DEF HandlerOK, Handler
    <2>2. hs' = [hs EXCEPT ![h] = x]
        BY <1>4 DEF BeginAdminOp
    <2> HIDE DEF x
    <2> QED BY <1>4, <2>1, <2>2, HandlerUpdate DEF BeginAdminOp
<1> QED BY <1>1, <1>2, <1>3, <1>4 DEF Authorise

LEMMA AddTyped == ASSUME TypeOK, NEW h \in Handlers, Add(h) PROVE TypeOK'
<1> USE AccountsAssumption, TablesTyped, HandlerTyped
<1>1. ASSUME NEW u \in Users, NEW role \in {"admin", "user"}, Insert(u, role)
      PROVE  users' \in [Users -> UserRow]
    BY <1>1 DEF Insert, UserRow
<1>2. hs[h].pc \in {"start", "key"} => Added(h) \in Credential
    BY DEF Added, Credential, HandlerOK
<1>3. ASSUME NEW u \in Users, CompleteSetup(h, u) PROVE TypeOK'
    BY <1>1, <1>3, HandlerUpdate, IdleOK DEF CompleteSetup, Done
<1>4. ASSUME NEW u \in Users, Register(h, u) PROVE TypeOK'
    <2> DEFINE x == [hs[h] EXCEPT !.pc = "start", !.target = u]
    <2>1. HandlerOK(x)
        BY <1>4 DEF HandlerOK, Handler
    <2>2. hs' = [hs EXCEPT ![h] = x]
        BY <1>4 DEF Register
    <2> HIDE DEF x
    <2> QED BY <1>1, <1>4, <2>1, <2>2, HandlerUpdate DEF Register
<1>5. ASSUME NEW u \in Users, NEW role \in {"admin", "user"}, CreateUser(h, u, role)
      PROVE  TypeOK'
    BY <1>1, <1>5, HandlerUpdate, IdleOK DEF CreateUser, Done
<1>6. ASSUME NEW s \in Sessions, StartSession(h, s) PROVE TypeOK'
    BY <1>2, <1>6, HandlerUpdate, IdleOK DEF StartSession, Done
<1>7. ASSUME NEW k \in Keys, CreateKey(h, k) PROVE TypeOK'
    <2>1. keys' \in [Keys -> Credential]
        BY <1>2, <1>7 DEF CreateKey
    <2> QED BY <1>7, <2>1, HandlerUpdate, IdleOK DEF CreateKey, Done
<1> QED BY <1>3, <1>4, <1>5, <1>6, <1>7 DEF Add

\* The record of a handler after another one's statement, or its own.
LEMMA AfterWriteTyped ==
    ASSUME TypeOK, NEW h \in Handlers, hs[h].pc = "write",
           NEW u \in Users, NEW adding
    PROVE  \A g \in Handlers :
              /\ Finished(MarkLate(h, u, adding), h)[g] \in Handler
              /\ HandlerOK(Finished(MarkLate(h, u, adding), h)[g])
<1> DEFINE f == MarkLate(h, u, adding)
<1>1. /\ HandlerOK([hs[h] EXCEPT !.pc = AfterWrite(hs[h].op)])
         \/ [hs[h] EXCEPT !.pc = AfterWrite(hs[h].op)].pc = "idle"
      /\ \A g \in Handlers : HandlerOK([hs[g] EXCEPT !.late = TRUE])
    BY HandlerTyped DEF HandlerOK, Handler, AfterWrite
<1>2. \A g \in Handlers \ {h} : HandlerOK(f[g]) /\ Finished(f, h)[g] = f[g]
    BY <1>1, HandlerTyped DEF MarkLate, Finished
<1>3. HandlerOK(Finished(f, h)[h])
    BY <1>1, IdleOK DEF MarkLate, Finished
<1> QED BY <1>2, <1>3 DEF HandlerOK

LEMMA WriteTyped == ASSUME TypeOK, NEW h \in Handlers, Write(h) PROVE TypeOK'
<1> USE AccountsAssumption, TablesTyped, HandlerTyped
<1> DEFINE op == hs[h].op
           t == hs[h].target
<1>1. hs[h].pc = "write" /\ t \in Users /\ op \in AdminOps
    BY DEF Write, HandlerOK
<1>2. CASE Refused(op, t)
    BY <1>2, HandlerUpdate, IdleOK DEF Write, Done
<1>3. CASE ~Refused(op, t)
    <2>1. users' \in [Users -> UserRow]
        BY <1>1, <1>3, RowUpdated DEF Write
    <2>2. sessions' \in [Sessions -> Credential] /\ keys' \in [Keys -> Credential]
        BY <1>1, <1>3, TablesKept DEF Write
    <2>3. hs' = Finished(MarkLate(h, t, Overtaken(op)), h)
        BY <1>3 DEF Write
    <2>4. DOMAIN hs' = Handlers /\ hs' = [g \in Handlers |-> hs'[g]]
        BY <2>3 DEF Finished, MarkLate
    <2>5. \A g \in Handlers : hs'[g] \in Handler /\ HandlerOK(hs'[g])
        BY <1>1, <2>3, AfterWriteTyped
    <2>6. raced' \in BOOLEAN
        BY <1>3 DEF Write
    <2>7. hs' \in [Handlers -> Handler]
        BY <2>4, <2>5
    <2> QED BY <2>1, <2>2, <2>5, <2>6, <2>7 DEF TypeOK, HandlerOK
<1> QED BY <1>2, <1>3

LEMMA ChangeTyped == ASSUME TypeOK, NEW h \in Handlers, Change(h) PROVE TypeOK'
<1> USE AccountsAssumption, TablesTyped, HandlerTyped
<1>1. CASE ReadTarget(h)
    <2> DEFINE op == hs[h].op
               t == hs[h].target
               x == [hs[h] EXCEPT !.actor = NoUser,
                       !.pc = IF op \in Removing /\ users[t].role = "admin"
                              THEN "count" ELSE "write"]
    <2>1. HandlerOK(x)
        BY <1>1 DEF ReadTarget, HandlerOK, Handler
    <2>2. Done(h) \/ hs' = [hs EXCEPT ![h] = x]
        BY <1>1 DEF ReadTarget
    <2> HIDE DEF x
    <2> QED BY <1>1, <2>1, <2>2, HandlerUpdate, IdleOK DEF ReadTarget, Done
<1>2. CASE CountOthers(h)
    <2>1. HandlerOK([hs[h] EXCEPT !.pc = "write"])
        BY <1>2 DEF CountOthers, HandlerOK, Handler, AdminOps
    <2> QED BY <1>2, <2>1, HandlerUpdate, IdleOK DEF CountOthers, Done, Go
<1>3. CASE Write(h)
    BY <1>3, WriteTyped
<1>4. ASSUME Revoke(h) \/ RevokeFails(h) PROVE TypeOK'
    <2>1. hs[h].target \in Users /\ hs[h].pc = "revoke"
        BY <1>4 DEF Revoke, RevokeFails, HandlerOK
    <2>2. sessions' \in [Sessions -> Credential]
        BY <1>4, <2>1, TablesKept DEF Revoke, RevokeFails
    <2>3. hs[h].op = "delete" => HandlerOK([hs[h] EXCEPT !.pc = "purge"])
        BY <2>1 DEF HandlerOK, Handler
    <2> QED BY <1>4, <2>2, <2>3, HandlerUpdate, IdleOK
            DEF Revoke, RevokeFails, AfterRevoke, Done, Go
<1>5. CASE Purge(h)
    <2>1. hs[h].target \in Users
        BY <1>5 DEF Purge, HandlerOK
    <2>2. keys' \in [Keys -> Credential]
        BY <1>5, <2>1, TablesKept DEF Purge
    <2> QED BY <1>5, <2>2, HandlerUpdate, IdleOK DEF Purge, Done
<1>6. CASE Dies(h)
    <2>1. hs[h].pc \in {"revoke", "purge"} => hs[h].target \in Users
        BY DEF HandlerOK
    <2>2. sessions' \in [Sessions -> Credential] /\ keys' \in [Keys -> Credential]
        BY <1>6, <2>1, TablesKept DEF Dies
    <2> QED BY <1>6, <2>2, HandlerUpdate, IdleOK DEF Dies, Done
<1> QED BY <1>1, <1>2, <1>3, <1>4, <1>5, <1>6 DEF Change

LEMMA InitTyped == ASSUME Init PROVE TypeOK
<1>1. users \in [Users -> UserRow] /\ raced \in BOOLEAN
    BY DEF Init, UserRow
<1>2. sessions \in [Sessions -> Credential] /\ keys \in [Keys -> Credential]
    BY DEF Init, Credential, Free
<1>3. hs \in [Handlers -> Handler] /\ \A h \in Handlers : hs[h] = Idle
    BY IdleOK DEF Init, HandlerOK
<1> QED BY <1>1, <1>2, <1>3, IdleOK DEF TypeOK, HandlerOK

LEMMA StepTyped == ASSUME TypeOK, [Next]_vars PROVE TypeOK'
<1>1. ASSUME NEW h \in Handlers, Arrive(h) \/ Authorise(h) \/ Add(h) \/ Change(h)
      PROVE  TypeOK'
    BY <1>1, ArriveTyped, AuthoriseTyped, AddTyped, ChangeTyped
<1>2. ASSUME NEW s \in Sessions, EndSession(s) PROVE TypeOK'
    BY <1>2, AccountsAssumption DEF EndSession, TypeOK, Credential, Free
<1>3. ASSUME NEW k \in Keys, DeleteKey(k) PROVE TypeOK'
    BY <1>3, AccountsAssumption DEF DeleteKey, TypeOK, Credential, Free
<1>4. CASE UNCHANGED vars
    BY <1>4 DEF TypeOK, vars
<1> QED BY <1>1, <1>2, <1>3, <1>4 DEF Next

\* Every reachable state of the accounts, credentials and handlers is well
\* typed; in particular a handler that is about to count, write or revoke
\* holds the operation and the account that step needs.
THEOREM TypeCorrect == Spec => []TypeOK
BY InitTyped, StepTyped, PTL DEF Spec

----------------------------------------------------------------------------
(* The last active administrator.                                          *)

\* A removal that passed its check acts on an account that was created, and
\* leaves an active administrator behind unless a write came in between.
Checked(g) ==
    /\ hs[g].pc \in {"count", "write"} => users[hs[g].target].status # "none"
    /\ Committed(g) /\ ~raced /\ ActiveAdmins # {} => OtherAdmins(hs[g].target) # {}

AdminInv == TypeOK /\ \A g \in Handlers : Checked(g)

OthersKept(h) == \A g \in Handlers \ {h} : hs'[g] = hs[g]

\* Steps that leave the accounts alone and pass no check.
LEMMA QuietStep ==
    ASSUME AdminInv, UNCHANGED <<users, raced>>,
           \A g \in Handlers : hs'[g].pc \notin {"count", "write"} \/ hs'[g] = hs[g]
    PROVE  /\ \A g \in Handlers : Checked(g)'
           /\ ActiveAdmins' = ActiveAdmins
BY DEF AdminInv, Checked, Committed, ActiveAdmins, OtherAdmins

\* A new account disturbs no check, and removes no administrator.
LEMMA InsertStep ==
    ASSUME AdminInv, NEW h \in Handlers, NEW u \in Users, NEW role \in {"admin", "user"},
           Insert(u, role), raced' = raced,
           hs'[h].pc \notin {"count", "write"}, OthersKept(h)
    PROVE  /\ \A g \in Handlers : Checked(g)'
           /\ ActiveAdmins # {} => ActiveAdmins' # {}
<1>1. /\ users \in [Users -> UserRow] /\ users[u].status = "none"
      /\ users' = [users EXCEPT ![u] = [status |-> "active", role |-> role]]
    BY DEF AdminInv, TypeOK, Insert
<1>2. ActiveAdmins \subseteq ActiveAdmins' /\ ActiveAdmins' \subseteq ActiveAdmins \cup {u}
    BY <1>1 DEF ActiveAdmins
<1>3. ASSUME NEW g \in Handlers PROVE Checked(g)'
    <2>1. CASE g = h
        BY <2>1 DEF Checked, Committed
    <2>2. CASE g # h
        <3>1. hs'[g] = hs[g]
            BY <2>2 DEF OthersKept
        <3>2. CASE hs[g].pc \in {"count", "write"}
            <4>1. /\ hs[g].target \in Users /\ hs[g].target # u
                  /\ users'[hs[g].target] = users[hs[g].target]
                BY <1>1, <3>2 DEF AdminInv, Checked, TypeOK
            <4>2. Committed(g) /\ ~raced => OtherAdmins(hs[g].target)' # {} \/ ActiveAdmins' = {}
                BY <1>2, <3>1, <3>2, <4>1 DEF AdminInv, Checked, OtherAdmins
            <4> QED BY <3>1, <4>1, <4>2 DEF AdminInv, Checked, Committed
        <3>3. CASE hs[g].pc \notin {"count", "write"}
            BY <3>1, <3>3 DEF Checked, Committed
        <3> QED BY <3>2, <3>3
    <2> QED BY <2>1, <2>2
<1> QED BY <1>2, <1>3

LEMMA ReadTargetStep ==
    ASSUME AdminInv, NEW h \in Handlers, ReadTarget(h)
    PROVE  (\A g \in Handlers : Checked(g)') /\ ActiveAdmins' = ActiveAdmins
<1> DEFINE op == hs[h].op
           t == hs[h].target
           pc == IF op \in Removing /\ users[t].role = "admin" THEN "count" ELSE "write"
           x == [hs[h] EXCEPT !.actor = NoUser, !.pc = pc]
<1>1. UNCHANGED <<users, raced>> /\ t \in Users
    BY DEF ReadTarget, AdminInv, TypeOK
<1>2. CASE Declined(op, hs[h].actor, t)
    BY <1>1, <1>2, QuietStep DEF ReadTarget, Done, Idle, AdminInv, TypeOK
<1>3. CASE ~Declined(op, hs[h].actor, t)
    <2>1. hs' = [hs EXCEPT ![h] = x]
        BY <1>3 DEF ReadTarget
    <2>2. users[t].status # "none"
        BY <1>1, <1>3 DEF Declined, Exists
    <2>3. hs'[h].op = op /\ hs'[h].target = t /\ hs'[h].pc = pc
        BY <2>1 DEF AdminInv, TypeOK, Handler
    <2>4. hs'[h].pc = "write" /\ op \in Removing => t \notin ActiveAdmins
        BY <2>3 DEF ActiveAdmins
    <2>5. ActiveAdmins' = ActiveAdmins
        BY <1>1 DEF ActiveAdmins
    <2>6. Checked(h)'
        BY <1>1, <2>2, <2>3, <2>4, <2>5 DEF Checked, Committed, OtherAdmins
    <2>7. \A g \in Handlers \ {h} : hs'[g] = hs[g]
        BY <2>1 DEF AdminInv, TypeOK
    <2>8. \A g \in Handlers \ {h} : Checked(g)'
        BY <1>1, <2>5, <2>7 DEF AdminInv, Checked, Committed, OtherAdmins
    <2> QED BY <2>5, <2>6, <2>8
<1> QED BY <1>2, <1>3

LEMMA CountOthersStep ==
    ASSUME AdminInv, NEW h \in Handlers, CountOthers(h)
    PROVE  (\A g \in Handlers : Checked(g)') /\ ActiveAdmins' = ActiveAdmins
<1> DEFINE t == hs[h].target
<1>1. UNCHANGED <<users, raced>> /\ hs[h].pc = "count"
    BY DEF CountOthers
<1>2. CASE OtherAdmins(t) = {}
    BY <1>1, <1>2, QuietStep DEF CountOthers, Done, Idle, AdminInv, TypeOK
<1>3. CASE OtherAdmins(t) # {}
    <2>1. hs' = [hs EXCEPT ![h] = [hs[h] EXCEPT !.pc = "write"]]
        BY <1>3 DEF CountOthers, Go
    <2>2. hs'[h].op = hs[h].op /\ hs'[h].target = t
        BY <2>1 DEF AdminInv, TypeOK, Handler
    <2>3. ActiveAdmins' = ActiveAdmins
        BY <1>1 DEF ActiveAdmins
    <2>4. Checked(h)'
        BY <1>1, <1>3, <2>2, <2>3 DEF AdminInv, Checked, OtherAdmins
    <2>5. \A g \in Handlers \ {h} : hs'[g] = hs[g]
        BY <2>1 DEF AdminInv, TypeOK
    <2>6. \A g \in Handlers \ {h} : Checked(g)'
        BY <1>1, <2>3, <2>5 DEF AdminInv, Checked, Committed, OtherAdmins
    <2> QED BY <2>3, <2>4, <2>6
<1> QED BY <1>2, <1>3

\* One statement adds or removes at most its own target.
LEMMA UpdatedAdmins ==
    ASSUME TypeOK, NEW t \in Users, NEW op \in AdminOps,
           users' = [users EXCEPT ![t] = Updated(@, op)]
    PROVE  /\ \A u \in Users \ {t} : u \in ActiveAdmins' <=> u \in ActiveAdmins
           /\ op \in Removing => (t \in ActiveAdmins' => t \in ActiveAdmins)
           /\ op \notin Removing => (t \in ActiveAdmins => t \in ActiveAdmins')
           /\ op = "password" => ActiveAdmins' = ActiveAdmins
           /\ \A u \in Users : users[u].status # "none" => users'[u].status # "none"
<1>1. \A u \in Users : users'[u] = IF u = t THEN Updated(users[t], op) ELSE users[u]
    BY DEF TypeOK
<1>2. users[t] \in UserRow /\ users'[t] = Updated(users[t], op)
    BY <1>1 DEF TypeOK
<1>3. op \in {"promote", "demote", "enable", "disable", "delete", "password"}
    BY DEF AdminOps, Revoking, Removing
<1>4. CASE users[t].status = "deleted" \/ op = "password"
    <2>1. Updated(users[t], op) = users[t]
        BY <1>3, <1>4 DEF Updated, Saved
    <2>2. \A u \in Users : users'[u] = users[u]
        BY <1>1, <2>1
    <2>3. ActiveAdmins' = ActiveAdmins
        BY <2>2 DEF ActiveAdmins
    <2>4. \A u \in Users : u \in ActiveAdmins' <=> u \in ActiveAdmins
        BY <2>3
    <2> QED BY <2>2, <2>3, <2>4
<1>5. CASE users[t].status # "deleted" /\ op \in {"demote", "disable", "delete"}
    <2>1. users'[t].role = "user" \/ users'[t].status \in {"disabled", "deleted"}
        BY <1>2, <1>5 DEF Updated, Saved, UserRow
    <2>2. users[t].status # "none" => users'[t].status # "none"
        BY <1>2, <1>5 DEF Updated, Saved, UserRow
    <2>3. t \notin ActiveAdmins'
        BY <2>1 DEF ActiveAdmins
    <2>4. \A u \in Users \ {t} : u \in ActiveAdmins' <=> u \in ActiveAdmins
        BY <1>1 DEF ActiveAdmins
    <2>5. \A u \in Users : users[u].status # "none" => users'[u].status # "none"
        BY <1>1, <2>2
    <2> QED BY <1>5, <2>3, <2>4, <2>5 DEF Removing
<1>6. CASE users[t].status # "deleted" /\ op \in {"promote", "enable"}
    <2>1. users'[t].status = "active" \/ users'[t].status = users[t].status
        BY <1>2, <1>6 DEF Updated, Saved, UserRow
    <2>2. users'[t].role = "admin" \/ users'[t].role = users[t].role
        BY <1>2, <1>6 DEF Updated, Saved, UserRow
    <2>3. t \in ActiveAdmins => t \in ActiveAdmins'
        BY <2>1, <2>2 DEF ActiveAdmins
    <2>4. \A u \in Users \ {t} : u \in ActiveAdmins' <=> u \in ActiveAdmins
        BY <1>1 DEF ActiveAdmins
    <2>5. \A u \in Users : users[u].status # "none" => users'[u].status # "none"
        BY <1>1, <2>1
    <2> QED BY <1>6, <2>3, <2>4, <2>5 DEF Removing
<1> QED BY <1>3, <1>4, <1>5, <1>6

LEMMA WriteStep ==
    ASSUME AdminInv, NEW h \in Handlers, Write(h)
    PROVE  /\ \A g \in Handlers : Checked(g)'
           /\ ActiveAdmins # {} /\ ~raced' => ActiveAdmins' # {}
<1> DEFINE op == hs[h].op
           t == hs[h].target
<1>1. /\ hs[h].pc = "write" /\ t \in Users /\ op \in AdminOps
      /\ raced \in BOOLEAN /\ TypeOK /\ Checked(h)
    BY DEF Write, AdminInv, TypeOK
<1>2. CASE Refused(op, t)
    BY <1>2, QuietStep DEF Write, Done, Idle, AdminInv, TypeOK
<1>3. CASE ~Refused(op, t)
    <2>1. /\ users' = [users EXCEPT ![t] = Updated(@, op)]
          /\ hs' = Finished(MarkLate(h, t, Overtaken(op)), h)
          /\ raced' = (raced \/ (op # "password" /\ \E g \in Handlers \ {h} : Committed(g)))
        BY <1>3 DEF Write
    <2>2. \A g \in Handlers \ {h} :
             hs'[g].pc = hs[g].pc /\ hs'[g].op = hs[g].op /\ hs'[g].target = hs[g].target
        BY <1>1, <2>1 DEF Finished, MarkLate, TypeOK, Handler
    <2>3. hs'[h].pc \notin {"count", "write"}
        BY <1>1, <2>1 DEF Finished, MarkLate, AfterWrite, Idle, TypeOK, Handler
    <2>4. /\ \A u \in Users \ {t} : u \in ActiveAdmins' <=> u \in ActiveAdmins
          /\ op \notin Removing => (t \in ActiveAdmins => t \in ActiveAdmins')
          /\ op = "password" => ActiveAdmins' = ActiveAdmins
          /\ \A u \in Users : users[u].status # "none" => users'[u].status # "none"
        BY <1>1, <2>1, UpdatedAdmins
    <2>5. ActiveAdmins # {} /\ ~raced' => ActiveAdmins' # {}
        <3>1. ActiveAdmins \subseteq Users
            BY DEF ActiveAdmins
        <3>2. CASE op \in Removing
            BY <1>1, <2>1, <2>4, <3>1, <3>2 DEF Checked, Committed, OtherAdmins
        <3>3. CASE op \notin Removing
            BY <2>4, <3>1, <3>3
        <3> QED BY <3>2, <3>3
    <2>6. ASSUME NEW g \in Handlers PROVE Checked(g)'
        <3>1. CASE g = h
            BY <2>3, <3>1 DEF Checked, Committed
        <3>2. CASE g # h
            <4>1. hs'[g].pc \in {"count", "write"} => users'[hs'[g].target].status # "none"
                BY <2>2, <2>4, <3>2 DEF AdminInv, Checked, TypeOK
            <4>2. Committed(g)' /\ ~raced' => op = "password" /\ Committed(g) /\ ~raced
                BY <2>1, <2>2, <3>2 DEF Committed
            <4>3. Committed(g)' /\ ~raced' /\ ActiveAdmins' # {}
                    => OtherAdmins(hs[g].target)' # {} /\ hs'[g].target = hs[g].target
                BY <2>2, <2>4, <3>2, <4>2 DEF AdminInv, Checked, OtherAdmins
            <4> QED BY <4>1, <4>3 DEF Checked, OtherAdmins
        <3> QED BY <3>1, <3>2
    <2> QED BY <2>5, <2>6
<1> QED BY <1>2, <1>3

LEMMA AdminStep ==
    ASSUME AdminInv, [Next]_vars
    PROVE  /\ \A g \in Handlers : Checked(g)'
           /\ ActiveAdmins # {} /\ ~raced' => ActiveAdmins' # {}
<1> USE DEF AdminInv, TypeOK
<1>1. ASSUME NEW h \in Handlers, UNCHANGED <<users, raced>>,
             hs'[h].pc \notin {"count", "write"}, OthersKept(h)
      PROVE  (\A g \in Handlers : Checked(g)') /\ ActiveAdmins' = ActiveAdmins
    BY <1>1, QuietStep DEF OthersKept
<1>2. ASSUME NEW h \in Handlers, Arrive(h)
      PROVE  (\A g \in Handlers : Checked(g)') /\ ActiveAdmins' = ActiveAdmins
    <2>1. ASSUME NEW u \in Users, ResetByCode(h, u)
          PROVE  (\A g \in Handlers : Checked(g)') /\ ActiveAdmins' = ActiveAdmins
        <3>1. UNCHANGED <<users, raced>> /\ ActiveAdmins' = ActiveAdmins
            BY <2>1 DEF ResetByCode, ActiveAdmins
        <3>2. /\ hs'[h].pc = "write" /\ hs'[h].op = "password" /\ hs'[h].target = u
              /\ \A g \in Handlers \ {h} : hs'[g] = hs[g]
            BY <2>1 DEF ResetByCode, Handler
        <3>3. Checked(h)'
            BY <2>1, <3>1, <3>2 DEF ResetByCode, Checked, Committed, Removing
        <3>4. \A g \in Handlers \ {h} : Checked(g)'
            BY <3>1, <3>2 DEF Checked, Committed, OtherAdmins
        <3> QED BY <3>1, <3>3, <3>4
    <2>2. CASE \/ BeginSetup(h) \/ BeginRegister(h) \/ PresentAdminKey(h)
               \/ \E u \in Users : Login(h, u)
               \/ \E s \in Sessions : FindSession(h, s)
        <3>1. /\ UNCHANGED <<users, raced>> /\ OthersKept(h)
              /\ hs'[h].pc \notin {"count", "write"}
            BY <2>2 DEF BeginSetup, BeginRegister, PresentAdminKey, Login, FindSession,
                        Go, OthersKept, Handler
        <3> QED BY <1>1, <3>1
    <2> QED BY <1>2, <2>1, <2>2 DEF Arrive
<1>3. ASSUME NEW h \in Handlers, Authorise(h)
      PROVE  (\A g \in Handlers : Checked(g)') /\ ActiveAdmins' = ActiveAdmins
    <2>1. CASE Refuse(h)
        BY <1>1, <2>1 DEF Refuse, Done, Idle, OthersKept
    <2>2. CASE BeginCreate(h)
        BY <1>1, <2>2 DEF BeginCreate, Idle, OthersKept
    <2>3. CASE BeginKey(h)
        BY <1>1, <2>3 DEF BeginKey, Idle, OthersKept
    <2>4. ASSUME NEW op \in AdminOps, NEW t \in Users, BeginAdminOp(h, op, t)
          PROVE  UNCHANGED <<users, raced>> /\ OthersKept(h) /\ hs'[h].pc = "target"
        BY <2>4 DEF BeginAdminOp, OthersKept, Handler
    <2> QED BY <1>1, <1>3, <2>1, <2>2, <2>3, <2>4 DEF Authorise
<1>4. ASSUME NEW h \in Handlers, Add(h)
      PROVE  /\ \A g \in Handlers : Checked(g)'
             /\ ActiveAdmins # {} => ActiveAdmins' # {}
    <2>1. raced' = raced /\ OthersKept(h) /\ hs'[h].pc \notin {"count", "write"}
        BY <1>4 DEF Add, CompleteSetup, Register, CreateUser, StartSession, CreateKey,
                    Done, Idle, OthersKept, Handler
    <2>2. users' = users \/ \E u \in Users, role \in {"admin", "user"} : Insert(u, role)
        BY <1>4 DEF Add, CompleteSetup, Register, CreateUser, StartSession, CreateKey
    <2> QED BY <1>1, <2>1, <2>2, InsertStep
<1>5. ASSUME NEW h \in Handlers, Change(h)
      PROVE  /\ \A g \in Handlers : Checked(g)'
             /\ ActiveAdmins # {} /\ ~raced' => ActiveAdmins' # {}
    <2>1. CASE Revoke(h) \/ RevokeFails(h) \/ Purge(h) \/ Dies(h)
        <3>1. UNCHANGED <<users, raced>>
            BY <2>1 DEF Revoke, RevokeFails, Purge, Dies
        <3>2. hs' = [hs EXCEPT ![h] = Idle] \/ hs' = [hs EXCEPT ![h].pc = "purge"]
            BY <2>1 DEF Revoke, RevokeFails, Purge, Dies, AfterRevoke, Go, Done
        <3>3. OthersKept(h) /\ hs'[h].pc \notin {"count", "write"}
            BY <3>2 DEF Idle, OthersKept, Handler
        <3> QED BY <1>1, <3>1, <3>3
    <2> QED BY <1>5, <2>1, ReadTargetStep, CountOthersStep, WriteStep DEF Change
<1>6. ASSUME UNCHANGED <<users, hs, raced>>
      PROVE  (\A g \in Handlers : Checked(g)') /\ ActiveAdmins' = ActiveAdmins
    BY <1>6, QuietStep
<1> QED BY <1>2, <1>3, <1>4, <1>5, <1>6 DEF Next, vars, EndSession, DeleteKey

LEMMA AdminInvariant == Spec => []AdminInv
<1>1. Init => AdminInv
    <2> SUFFICES ASSUME Init PROVE AdminInv
        OBVIOUS
    <2>1. \A g \in Handlers : hs[g].pc = "idle"
        BY DEF Init, Idle
    <2> QED BY <2>1, InitTyped DEF AdminInv, Checked, Committed
<1>2. AdminInv /\ [Next]_vars => AdminInv'
    BY AdminStep, StepTyped DEF AdminInv
<1> QED BY <1>1, <1>2, PTL DEF Spec

\* UpdateRole, UpdateStatus and Delete never take the last active
\* administrator away as long as no role or status is written between a
\* removal's check and its write, for any number of handlers and accounts.
THEOREM AdminsProtected == Spec => AdminRemainsUnlessRaced
<1>1. AdminInv /\ [Next]_vars =>
          [ActiveAdmins # {} /\ ~raced' => ActiveAdmins' # {}]_vars
    BY AdminStep
<1> QED BY <1>1, AdminInvariant, PTL DEF Spec, AdminRemainsUnlessRaced

----------------------------------------------------------------------------
(* Deleted accounts, revoked credentials.                                  *)

\* No late write of another handler brings a deleted account back.
THEOREM DeletedForever == Spec => DeletedStaysDeleted
<1>1. ASSUME TypeOK, [Next]_vars, NEW u \in Users, users[u].status = "deleted"
      PROVE  users'[u] = users[u]
    <2>1. \/ users' = users
          \/ \E v \in Users, role \in {"admin", "user"} : Insert(v, role)
          \/ \E h \in Handlers : hs[h].target \in Users
               /\ users' = [users EXCEPT ![hs[h].target] = Updated(@, hs[h].op)]
        <3>1. ASSUME NEW h \in Handlers, Write(h), users' # users
              PROVE  /\ hs[h].target \in Users
                     /\ users' = [users EXCEPT ![hs[h].target] = Updated(@, hs[h].op)]
            BY <1>1, <3>1 DEF Write, TypeOK
        <3>2. ASSUME NEW h \in Handlers, Change(h), ~Write(h) PROVE users' = users
            BY <3>2 DEF Change, ReadTarget, CountOthers, Revoke, RevokeFails, Purge, Dies
        <3>3. ASSUME NEW h \in Handlers, Arrive(h) \/ Authorise(h) PROVE users' = users
            BY <3>3 DEF Arrive, BeginSetup, BeginRegister, PresentAdminKey, Login, ResetByCode,
                 FindSession, Authorise, Refuse, BeginCreate, BeginKey, BeginAdminOp
        <3>4. ASSUME NEW h \in Handlers, Add(h)
              PROVE  users' = users
                     \/ \E v \in Users, role \in {"admin", "user"} : Insert(v, role)
            BY <3>4 DEF Add, CompleteSetup, Register, CreateUser, StartSession, CreateKey
        <3> QED BY <1>1, <3>1, <3>2, <3>3, <3>4 DEF Next, vars, EndSession, DeleteKey
    <2>2. users \in [Users -> UserRow]
        BY <1>1 DEF TypeOK
    <2> QED BY <1>1, <2>1, <2>2 DEF Insert, Updated
<1>2. TypeOK /\ [Next]_vars =>
          [\A u \in Users : users[u].status = "deleted" => users'[u] = users[u]]_vars
    BY <1>1
<1> QED BY <1>2, TypeCorrect, PTL DEF Spec, DeletedStaysDeleted

\* Steps that revoke nothing and take no handler past its revocation.
LEMMA RevocationKept ==
    ASSUME RevokedGo,
           \A s \in Sessions : sessions'[s].standing # "revoked" \/ sessions'[s] = sessions[s],
           \A k \in Keys : keys'[k].standing # "revoked" \/ keys'[k] = keys[k],
           \A g \in Handlers : hs[g].pc \in {"revoke", "purge"} => hs'[g] = hs[g]
    PROVE  RevokedGo'
BY DEF RevokedGo

LEMMA RevokedWrite ==
    ASSUME TypeOK, RevokedGo, NEW h \in Handlers, Write(h) PROVE RevokedGo'
<1> DEFINE op == hs[h].op
           t == hs[h].target
<1>1. hs[h].pc = "write" /\ t \in Users /\ op \in AdminOps
    BY DEF Write, TypeOK
<1>2. CASE Refused(op, t)
    BY <1>1, <1>2, RevocationKept DEF Write, Done, TypeOK
<1>3. CASE ~Refused(op, t)
    <2>1. /\ sessions' = IF op \in Revoking THEN MarkRevoked(sessions, t) ELSE sessions
          /\ keys' = IF op = "delete" THEN MarkRevoked(keys, t) ELSE keys
          /\ hs' = Finished(MarkLate(h, t, Overtaken(op)), h)
        BY <1>3 DEF Write
    <2>2. \A g \in Handlers \ {h} :
             hs'[g].pc = hs[g].pc /\ hs'[g].op = hs[g].op /\ hs'[g].target = hs[g].target
        BY <2>1 DEF Finished, MarkLate, TypeOK, Handler
    <2>3. op \in Revoking => hs'[h].pc = "revoke" /\ hs'[h].op = op /\ hs'[h].target = t
        BY <2>1 DEF Finished, MarkLate, AfterWrite, TypeOK, Handler
    <2>4. ASSUME NEW s \in Sessions, sessions'[s].standing = "revoked"
          PROVE  \E g \in Handlers : hs'[g].pc = "revoke" /\ hs'[g].target = sessions'[s].user
        <3>1. CASE sessions'[s] = sessions[s]
            BY <1>1, <2>2, <2>4, <3>1 DEF RevokedGo
        <3>2. CASE sessions'[s] # sessions[s]
            <4>1. op \in Revoking /\ sessions'[s].user = t
                BY <2>1, <3>2 DEF MarkRevoked, TypeOK, Credential
            <4> QED BY <2>3, <4>1
        <3> QED BY <3>1, <3>2
    <2>5. ASSUME NEW k \in Keys, keys'[k].standing = "revoked"
          PROVE  \E g \in Handlers : /\ hs'[g].op = "delete" /\ hs'[g].pc \in {"revoke", "purge"}
                                     /\ hs'[g].target = keys'[k].user
        <3>1. CASE keys'[k] = keys[k]
            BY <1>1, <2>2, <2>5, <3>1 DEF RevokedGo
        <3>2. CASE keys'[k] # keys[k]
            <4>1. op = "delete" /\ keys'[k].user = t
                BY <2>1, <3>2 DEF MarkRevoked, TypeOK, Credential
            <4> QED BY <2>3, <4>1 DEF Revoking
        <3> QED BY <3>1, <3>2
    <2> QED BY <2>4, <2>5 DEF RevokedGo
<1> QED BY <1>2, <1>3

\* The handler that leaves "revoke" or "purge" takes what was revoked with it.
LEMMA RevokedEnd ==
    ASSUME TypeOK, RevokedGo, NEW h \in Handlers,
           Revoke(h) \/ RevokeFails(h) \/ Purge(h) \/ Dies(h)
    PROVE  RevokedGo'
<1> DEFINE t == hs[h].target
<1>1. \A g \in Handlers \ {h} : hs'[g] = hs[g]
    BY DEF Revoke, RevokeFails, Purge, Dies, AfterRevoke, Go, Done, TypeOK
<1>2. ASSUME NEW s \in Sessions, sessions'[s].standing = "revoked"
      PROVE  \E g \in Handlers : hs'[g].pc = "revoke" /\ hs'[g].target = sessions'[s].user
    <2>1. sessions'[s] = sessions[s] /\ (hs[h].pc = "revoke" => sessions[s].user # t)
        BY <1>2 DEF Revoke, RevokeFails, Purge, Dies, Removed, MarkEscaped, Free, TypeOK, Credential
    <2>2. PICK g \in Handlers : hs[g].pc = "revoke" /\ hs[g].target = sessions[s].user
        BY <1>2, <2>1 DEF RevokedGo
    <2>3. g # h
        BY <2>1, <2>2
    <2> QED BY <1>1, <2>1, <2>2, <2>3
<1>3. ASSUME NEW k \in Keys, keys'[k].standing = "revoked"
      PROVE  \E g \in Handlers : /\ hs'[g].op = "delete" /\ hs'[g].pc \in {"revoke", "purge"}
                                 /\ hs'[g].target = keys'[k].user
    <2>1. /\ keys'[k] = keys[k]
          /\ Purge(h) \/ (Dies(h) /\ hs[h].op = "delete" /\ hs[h].pc \in {"revoke", "purge"})
               => keys[k].user # t
        BY <1>3 DEF Revoke, RevokeFails, Purge, Dies, Removed, MarkEscaped, Free, TypeOK, Credential
    <2>2. PICK g \in Handlers : /\ hs[g].op = "delete" /\ hs[g].pc \in {"revoke", "purge"}
                                /\ hs[g].target = keys[k].user
        BY <1>3, <2>1 DEF RevokedGo
    <2>3. CASE g # h
        BY <1>1, <2>1, <2>2, <2>3
    <2>4. CASE g = h
        <3>1. hs' = [hs EXCEPT ![h].pc = "purge"]
            BY <2>1, <2>2, <2>4 DEF Revoke, RevokeFails, AfterRevoke, Go
        <3>2. hs'[h].op = hs[h].op /\ hs'[h].target = t /\ hs'[h].pc = "purge"
            BY <3>1 DEF TypeOK, Handler
        <3> QED BY <2>1, <2>2, <2>4, <3>2
    <2> QED BY <2>3, <2>4
<1> QED BY <1>2, <1>3 DEF RevokedGo

LEMMA RevokedStep == ASSUME TypeOK, RevokedGo, [Next]_vars PROVE RevokedGo'
<1>1. ASSUME NEW h \in Handlers, Arrive(h) PROVE RevokedGo'
    <2>1. hs[h].pc = "idle" /\ UNCHANGED <<sessions, keys>>
          /\ \A g \in Handlers \ {h} : hs'[g] = hs[g]
        BY <1>1 DEF Arrive, BeginSetup, BeginRegister, PresentAdminKey, Login, ResetByCode,
                    FindSession, Go, TypeOK
    <2> QED BY <2>1, RevocationKept
<1>2. ASSUME NEW h \in Handlers, Authorise(h) PROVE RevokedGo'
    <2>1. hs[h].pc = "actor" /\ UNCHANGED <<sessions, keys>>
          /\ \A g \in Handlers \ {h} : hs'[g] = hs[g]
        BY <1>2 DEF Authorise, Refuse, BeginCreate, BeginKey, BeginAdminOp, Done, TypeOK
    <2> QED BY <2>1, RevocationKept
<1>3. ASSUME NEW h \in Handlers, Add(h) PROVE RevokedGo'
    <2>1. hs[h].pc \notin {"revoke", "purge"} /\ \A g \in Handlers \ {h} : hs'[g] = hs[g]
        BY <1>3 DEF Add, CompleteSetup, Register, CreateUser, StartSession, CreateKey, Done, TypeOK
    <2>2. /\ \A s \in Sessions : sessions'[s].standing # "revoked" \/ sessions'[s] = sessions[s]
          /\ \A k \in Keys : keys'[k].standing # "revoked" \/ keys'[k] = keys[k]
        BY <1>3 DEF Add, CompleteSetup, Register, CreateUser, StartSession, CreateKey, Added, TypeOK
    <2> QED BY <2>1, <2>2, RevocationKept
<1>4. ASSUME NEW h \in Handlers, ReadTarget(h) \/ CountOthers(h) PROVE RevokedGo'
    <2>1. hs[h].pc \notin {"revoke", "purge"} /\ UNCHANGED <<sessions, keys>>
          /\ \A g \in Handlers \ {h} : hs'[g] = hs[g]
        BY <1>4 DEF ReadTarget, CountOthers, Done, Go, TypeOK
    <2> QED BY <2>1, RevocationKept
<1>5. ASSUME NEW s \in Sessions, EndSession(s) PROVE RevokedGo'
    BY <1>5, RevocationKept DEF EndSession, Free, TypeOK
<1>6. ASSUME NEW k \in Keys, DeleteKey(k) PROVE RevokedGo'
    BY <1>6, RevocationKept DEF DeleteKey, Free, TypeOK
<1>7. CASE UNCHANGED vars
    BY <1>7 DEF vars, RevokedGo
<1> QED BY <1>1, <1>2, <1>3, <1>4, <1>5, <1>6, <1>7, RevokedWrite, RevokedEnd DEF Next, Change

\* What was opened for an account before it was disabled, deleted or given a
\* new password is gone when the handler is: only a handler that had checked
\* the account earlier, or a failed statement, leaves anything.
THEOREM RevocationsFinish == Spec => []RevokedGo
<1>1. Init => RevokedGo
    BY DEF Init, RevokedGo, Free
<1> QED BY <1>1, RevokedStep, TypeCorrect, PTL DEF Spec
=============================================================================
