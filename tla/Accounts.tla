------------------------------ MODULE Accounts ------------------------------
(***************************************************************************)
(* Accounts, their sessions and API keys, and who may still use them.      *)
(* Handlers of handler/admin.go, auth.go, setup.go, passkey.go and         *)
(* tokens.go check first and act later, one SQL statement per step; what   *)
(* they write is what middleware/session.go and the guards of other        *)
(* handlers read.  Quotas are in module Billing; passwords and codes only  *)
(* matter here as reasons to revoke the sessions opened before.            *)
(***************************************************************************)
EXTENDS Integers, FiniteSets

CONSTANTS
    Users,        \* ids of the users table, never reused
    NoUser,       \* the target of an idle handler, the owner of a free slot
    Root,         \* the virtual administrator behind the bootstrap admin key
    Sessions,     \* slots of the sessions table
    Keys,         \* slots of the tokens table
    Handlers,     \* handlers that may run concurrently
    ForeignKeys,  \* the database enforces tokens.user_id (MySQL, PostgreSQL)
    Faults        \* handlers may die, and statements may fail

ASSUME AccountsAssumption ==
    /\ NoUser \notin Users /\ Root \notin Users /\ NoUser # Root
    /\ ForeignKeys \in BOOLEAN /\ Faults \in BOOLEAN

VARIABLES
    users,     \* users[u]: role and status
    sessions,  \* sessions[s]: the account a session signs in, and its standing
    keys,      \* keys[k]: the same of an API key
    hs,        \* hs[h]: where a handler stands
    raced      \* history: see Write

vars == <<users, sessions, keys, hs, raced>>

UserRow == [status : {"none", "active", "disabled", "deleted"}, role : {"admin", "user"}]

\* standing, history: revoked by a write made after the owner was checked;
\* escaped, if the handler that should remove it will not.
Credential == [user : Users \cup {NoUser}, standing : {"valid", "revoked", "escaped"}]

Free == [user |-> NoUser, standing |-> "valid"]

Revoking == {"disable", "delete", "password"}
Removing == {"demote", "disable", "delete"}
AdminOps == Revoking \cup Removing \cup {"promote", "enable"}

\* late, history: the account was revoked after this handler checked it.
Handler == [pc : {"idle", "actor", "setup", "register", "create", "start", "key",
                  "target", "count", "write", "revoke", "purge"},
            op : AdminOps \cup {"none"}, actor : Users \cup {NoUser, Root},
            target : Users \cup {NoUser}, late : BOOLEAN]

Idle == [pc |-> "idle", op |-> "none", actor |-> NoUser, target |-> NoUser, late |-> FALSE]

TypeOK ==
    /\ users \in [Users -> UserRow]
    /\ sessions \in [Sessions -> Credential]
    /\ keys \in [Keys -> Credential]
    /\ hs \in [Handlers -> Handler]
    /\ \A h \in Handlers :
         /\ hs[h].pc \in {"start", "key", "target", "count", "write", "revoke", "purge"}
              => hs[h].target \in Users
         /\ hs[h].pc \in {"target", "write"} => hs[h].op \in AdminOps
         /\ hs[h].pc = "count" => hs[h].op \in Removing
         /\ hs[h].pc = "revoke" => hs[h].op \in Revoking
         /\ hs[h].pc = "purge" => hs[h].op = "delete"
    /\ raced \in BOOLEAN

Init ==
    /\ users = [u \in Users |-> [status |-> "none", role |-> "user"]]
    /\ sessions = [s \in Sessions |-> Free]
    /\ keys = [k \in Keys |-> Free]
    /\ hs = [h \in Handlers |-> Idle]
    /\ raced = FALSE

Exists(u) == users[u].status \in {"active", "disabled"}
ActiveAdmins == {u \in Users : users[u].status = "active" /\ users[u].role = "admin"}

\* No row has the role, whatever its status.
SetupNeeded == \A u \in Users : Exists(u) => users[u].role # "admin"

Go(h, pc) == hs' = [hs EXCEPT ![h].pc = pc]
Done(h) == hs' = [hs EXCEPT ![h] = Idle]

----------------------------------------------------------------------------
(* First-run set-up, registration and sign-in.                             *)

\* SetupHandler.Complete: needed, then, many checks later, the INSERT.  A
\* count that fails reads as zero.
BeginSetup(h) ==
    /\ hs[h].pc = "idle"
    /\ SetupNeeded \/ Faults
    /\ Go(h, "setup")
    /\ UNCHANGED <<users, sessions, keys, raced>>

BeginRegister(h) ==
    /\ hs[h].pc = "idle" /\ ~SetupNeeded
    /\ Go(h, "register")
    /\ UNCHANGED <<users, sessions, keys, raced>>

Insert(u, role) ==
    /\ users[u].status = "none"
    /\ users' = [users EXCEPT ![u] = [status |-> "active", role |-> role]]

\* Names are unique; a second set-up under another name is not refused.
CompleteSetup(h, u) ==
    /\ hs[h].pc = "setup"
    /\ Insert(u, "admin")
    /\ Done(h)
    /\ UNCHANGED <<sessions, keys, raced>>

\* Registration signs the new member in.
Register(h, u) ==
    /\ hs[h].pc = "register"
    /\ Insert(u, "user")
    /\ hs' = [hs EXCEPT ![h].pc = "start", ![h].target = u]
    /\ UNCHANGED <<sessions, keys, raced>>

\* Login, by password or passkey: the account is read, and found active.
Login(h, u) ==
    /\ hs[h].pc = "idle" /\ users[u].status = "active"
    /\ hs' = [hs EXCEPT ![h].pc = "start", ![h].target = u]
    /\ UNCHANGED <<users, sessions, keys, raced>>

\* What a handler adds for the account it checked.
Added(h) == [user |-> hs[h].target, standing |-> IF hs[h].late THEN "escaped" ELSE "valid"]

StartSession(h, s) ==
    /\ hs[h].pc = "start" /\ sessions[s] = Free
    /\ sessions' = [sessions EXCEPT ![s] = Added(h)]
    /\ Done(h)
    /\ UNCHANGED <<users, keys, raced>>

\* Logout, or the middleware finding the session expired.
EndSession(s) ==
    /\ sessions[s] # Free
    /\ sessions' = [sessions EXCEPT ![s] = Free]
    /\ UNCHANGED <<users, keys, hs, raced>>

----------------------------------------------------------------------------
(* Requests of the console: SessionAuth.Middleware, RequireAdmin.          *)

\* The session's row is found; the account's row is another statement.
FindSession(h, s) ==
    /\ hs[h].pc = "idle" /\ sessions[s] # Free
    /\ hs' = [hs EXCEPT ![h].pc = "actor", ![h].actor = sessions[s].user]
    /\ UNCHANGED <<users, sessions, keys, raced>>

PresentAdminKey(h) ==
    /\ hs[h].pc = "idle"
    /\ hs' = [hs EXCEPT ![h].pc = "actor", ![h].actor = Root]
    /\ UNCHANGED <<users, sessions, keys, raced>>

\* The bootstrap key has no account to look up.
ActorActive(h) == hs[h].actor \in {Root} \cup {u \in Users : users[u].status = "active"}
ActorIsAdmin(h) == hs[h].actor \in {Root} \cup {u \in Users : users[u].role = "admin"}

Refuse(h) ==
    /\ hs[h].pc = "actor" /\ ~(ActorActive(h) /\ ActorIsAdmin(h))
    /\ Done(h)
    /\ UNCHANGED <<users, sessions, keys, raced>>

BeginAdminOp(h, op, t) ==
    /\ hs[h].pc = "actor" /\ ActorActive(h) /\ ActorIsAdmin(h)
    /\ hs' = [hs EXCEPT ![h].pc = "target", ![h].op = op, ![h].target = t]
    /\ UNCHANGED <<users, sessions, keys, raced>>

BeginCreate(h) ==
    /\ hs[h].pc = "actor" /\ ActorActive(h) /\ ActorIsAdmin(h)
    /\ hs' = [hs EXCEPT ![h] = [Idle EXCEPT !.pc = "create"]]
    /\ UNCHANGED <<users, sessions, keys, raced>>

BeginKey(h) ==
    /\ hs[h].pc = "actor" /\ ActorActive(h) /\ hs[h].actor # Root
    /\ hs' = [hs EXCEPT ![h] = [Idle EXCEPT !.pc = "key", !.target = hs[h].actor]]
    /\ UNCHANGED <<users, sessions, keys, raced>>

CreateUser(h, u, role) ==
    /\ hs[h].pc = "create"
    /\ Insert(u, role)
    /\ Done(h)
    /\ UNCHANGED <<sessions, keys, raced>>

\* With foreign keys, a key of an account that is gone is refused.
CreateKey(h, k) ==
    /\ hs[h].pc = "key" /\ keys[k] = Free
    /\ keys' = IF ForeignKeys /\ ~Exists(hs[h].target) THEN keys
               ELSE [keys EXCEPT ![k] = Added(h)]
    /\ Done(h)
    /\ UNCHANGED <<users, sessions, raced>>

DeleteKey(k) ==
    /\ keys[k] # Free
    /\ keys' = [keys EXCEPT ![k] = Free]
    /\ UNCHANGED <<users, sessions, hs, raced>>

----------------------------------------------------------------------------
(* UpdateRole, UpdateStatus, Delete and ResetPassword of an account.       *)

\* The code path of AuthHandler.ResetPassword, once its code was accepted.
ResetByCode(h, u) ==
    /\ hs[h].pc = "idle" /\ users[u].status = "active"
    /\ hs' = [hs EXCEPT ![h].pc = "write", ![h].op = "password", ![h].target = u]
    /\ UNCHANGED <<users, sessions, keys, raced>>

\* Nothing to do, or an administrator's own account.
Declined(op, actor, t) ==
    \/ ~Exists(t)
    \/ (op = "promote" /\ users[t].role = "admin")
    \/ (op = "demote" /\ users[t].role = "user")
    \/ (op \in {"disable", "delete"} /\ actor = t)

\* The target's row is read; an administrator's removal needs another one.
ReadTarget(h) ==
    LET op == hs[h].op  t == hs[h].target IN
    /\ hs[h].pc = "target"
    /\ IF Declined(op, hs[h].actor, t) THEN Done(h)
       ELSE hs' = [hs EXCEPT ![h].actor = NoUser,
                     ![h].pc = IF op \in Removing /\ users[t].role = "admin"
                               THEN "count" ELSE "write"]
    /\ UNCHANGED <<users, sessions, keys, raced>>

\* Mutant: administrators that are disabled count too.
AnyOtherAdmins(t) == {u \in Users \ {t} : Exists(u) /\ users[u].role = "admin"}

OtherAdmins(t) == ActiveAdmins \ {t}

CountOthers(h) ==
    /\ hs[h].pc = "count"
    /\ IF OtherAdmins(hs[h].target) = {} THEN Done(h) ELSE Go(h, "write")
    /\ UNCHANGED <<users, sessions, keys, raced>>

\* What the statement of op makes of a row; a password is no part of it here.
\* (Mutant of Updated: a row that is gone is saved as a new one.)
Saved(row, op) ==
    CASE op = "promote" -> [row EXCEPT !.role = "admin"]
      [] op = "demote"  -> [row EXCEPT !.role = "user"]
      [] op = "enable"  -> [row EXCEPT !.status = "active"]
      [] op = "disable" -> [row EXCEPT !.status = "disabled"]
      [] op = "delete"  -> [row EXCEPT !.status = "deleted"]
      [] op = "password" -> row

\* The row after the statement of op, which matches no deleted row.
Updated(row, op) == IF row.status = "deleted" THEN row ELSE Saved(row, op)

\* Mutants: only a deletion goes on to the sessions; every operation does.
AfterDelete(op) == IF op = "delete" THEN "revoke" ELSE "idle"
AfterAny(op) == "revoke"

AfterWrite(op) == IF op \in Revoking THEN "revoke" ELSE "idle"

Committed(h) == hs[h].pc = "write" /\ hs[h].op \in Removing

MarkRevoked(table, u) ==
    [c \in DOMAIN table |->
       IF table[c].user = u /\ table[c].standing = "valid"
       THEN [table[c] EXCEPT !.standing = "revoked"] ELSE table[c]]

MarkEscaped(table, u) ==
    [c \in DOMAIN table |->
       IF table[c].user = u /\ table[c].standing = "revoked"
       THEN [table[c] EXCEPT !.standing = "escaped"] ELSE table[c]]

Removed(table, u) == [c \in DOMAIN table |-> IF table[c].user = u THEN Free ELSE table[c]]

\* Handlers that checked u before, and will add a credential for it.
MarkLate(h, u, adding) ==
    [g \in Handlers |->
       IF g = h THEN [hs[h] EXCEPT !.pc = AfterWrite(hs[h].op)]
       ELSE IF hs[g].pc \in adding /\ hs[g].target = u THEN [hs[g] EXCEPT !.late = TRUE]
       ELSE hs[g]]

\* Steps that are about to add what op revokes.
Overtaken(op) ==
    CASE op = "delete"   -> {"start", "key"}
      [] op \in Revoking \ {"delete"} -> {"start"}
      [] OTHER -> {}

Finished(f, h) == [f EXCEPT ![h] = IF @.pc = "idle" THEN Idle ELSE @]

\* A key still refers to the account, and the database minds.
Refused(op, t) == op = "delete" /\ ForeignKeys /\ \E k \in Keys : keys[k].user = t

\* raced: a role or status was written while a removal had passed its check.
Write(h) ==
    LET op == hs[h].op  t == hs[h].target IN
    /\ hs[h].pc = "write"
    /\ IF Refused(op, t)
       THEN Done(h) /\ UNCHANGED <<users, sessions, keys, raced>>
       ELSE /\ users' = [users EXCEPT ![t] = Updated(@, op)]
            /\ sessions' = IF op \in Revoking THEN MarkRevoked(sessions, t) ELSE sessions
            /\ keys' = IF op = "delete" THEN MarkRevoked(keys, t) ELSE keys
            /\ hs' = Finished(MarkLate(h, t, Overtaken(op)), h)
            /\ raced' = (raced \/ (op # "password" /\ \E g \in Handlers \ {h} : Committed(g)))

AfterRevoke(h) == IF hs[h].op = "delete" THEN Go(h, "purge") ELSE Done(h)

Revoke(h) ==
    /\ hs[h].pc = "revoke"
    /\ sessions' = Removed(sessions, hs[h].target)
    /\ AfterRevoke(h)
    /\ UNCHANGED <<users, keys, raced>>

\* The error is not looked at.
RevokeFails(h) ==
    /\ hs[h].pc = "revoke" /\ Faults
    /\ sessions' = MarkEscaped(sessions, hs[h].target)
    /\ AfterRevoke(h)
    /\ UNCHANGED <<users, keys, raced>>

Purge(h) ==
    /\ hs[h].pc = "purge"
    /\ keys' = Removed(keys, hs[h].target)
    /\ Done(h)
    /\ UNCHANGED <<users, sessions, raced>>

\* A killed process, or a statement that fails before Revoke: the request
\* ends.  A count that fails reads as zero, and refuses.
Dies(h) ==
    LET t == hs[h].target IN
    /\ hs[h].pc # "idle" /\ Faults
    /\ sessions' = IF hs[h].pc = "revoke" THEN MarkEscaped(sessions, t) ELSE sessions
    /\ keys' = IF hs[h].op = "delete" /\ hs[h].pc \in {"revoke", "purge"}
               THEN MarkEscaped(keys, t) ELSE keys
    /\ Done(h)
    /\ UNCHANGED <<users, raced>>

----------------------------------------------------------------------------

Arrive(h) ==
    \/ BeginSetup(h) \/ BeginRegister(h) \/ PresentAdminKey(h)
    \/ \E u \in Users : Login(h, u) \/ ResetByCode(h, u)
    \/ \E s \in Sessions : FindSession(h, s)

Authorise(h) ==
    \/ Refuse(h) \/ BeginCreate(h) \/ BeginKey(h)
    \/ \E op \in AdminOps, t \in Users : BeginAdminOp(h, op, t)

Add(h) ==
    \/ \E u \in Users : CompleteSetup(h, u) \/ Register(h, u)
    \/ \E u \in Users, role \in {"admin", "user"} : CreateUser(h, u, role)
    \/ \E s \in Sessions : StartSession(h, s)
    \/ \E k \in Keys : CreateKey(h, k)

Change(h) ==
    \/ ReadTarget(h) \/ CountOthers(h) \/ Write(h)
    \/ Revoke(h) \/ RevokeFails(h) \/ Purge(h) \/ Dies(h)

Next ==
    \/ \E h \in Handlers : Arrive(h) \/ Authorise(h) \/ Add(h) \/ Change(h)
    \/ \E s \in Sessions : EndSession(s)
    \/ \E k \in Keys : DeleteKey(k)

Spec == Init /\ [][Next]_vars

----------------------------------------------------------------------------
(* Properties.                                                             *)

\* The guards of UpdateRole, UpdateStatus and Delete never take the last
\* active administrator away, however handlers interleave and fail, as long as
\* no role or status is written between a removal's check and its write.
AdminRemainsUnlessRaced ==
    [][ActiveAdmins # {} /\ ~raced' => ActiveAdmins' # {}]_vars

\* Once an account was disabled, deleted or given a new password, what was
\* opened for it before is gone when the handler is: only a handler that had
\* checked the account earlier, or a failed statement, leaves anything.
RevokedGo ==
    /\ \A s \in Sessions : sessions[s].standing = "revoked" =>
         \E h \in Handlers : hs[h].pc = "revoke" /\ hs[h].target = sessions[s].user
    /\ \A k \in Keys : keys[k].standing = "revoked" =>
         \E h \in Handlers : /\ hs[h].op = "delete" /\ hs[h].pc \in {"revoke", "purge"}
                             /\ hs[h].target = keys[k].user

\* No late write of another handler brings a deleted account back.
DeletedStaysDeleted ==
    [][\A u \in Users : users[u].status = "deleted" => users'[u] = users[u]]_vars

\* "The last remaining admin cannot be demoted, so an instance can never end
\* up without an administrator" (UpdateRole).
AdminRemains == [][ActiveAdmins # {} => ActiveAdmins' # {}]_vars

\* "sessions must be re-established with the new password" (ResetPassword).
NoneOutlivesRevocation ==
    \A s \in Sessions : sessions[s].standing # "valid" =>
        \E h \in Handlers : hs[h].pc = "revoke" /\ hs[h].target = sessions[s].user
=============================================================================
