--------------------------- MODULE ConsoleSession ---------------------------
(***************************************************************************)
(* The web console's idea of who is signed in (lib/api.ts,                 *)
(* contexts/AuthContext.tsx, the route guards of App.tsx, the sign-in and  *)
(* registration pages, and the log-out button) beside the session the      *)
(* browser's cookie really names on the server.                            *)
(*                                                                         *)
(* The console keeps `user`, a copy of the answer of GET /api/auth/me.     *)
(* Every handler that changes the cookie is asynchronous, and several may  *)
(* be in flight: nothing keeps the copy in step with the cookie but the    *)
(* refresh() each handler is meant to end with.                            *)
(***************************************************************************)
EXTENDS Naturals, Sequences, FiniteSets

CONSTANTS
    Accounts,     \* every account the server may know
    Admins,       \* those whose role is admin
    First,        \* those that exist when the console opens
    TurnstileOn,  \* a Turnstile token is required to sign in or register
    MaxSessions,  \* bound: sessions minted in a behaviour
    MaxInFlight   \* bound: handlers in flight at once

ASSUME SessionAssumption ==
    /\ Admins \subseteq Accounts
    /\ First \subseteq Accounts
    /\ TurnstileOn \in BOOLEAN
    /\ MaxSessions \in Nat \ {0}
    /\ MaxInFlight \in Nat \ {0}

Nobody == "nobody"
Gone == "gone"            \* a session revoked, expired or deleted
NoCookie == 0

\* The asynchronous handlers of the console; a bound: one of each in flight.
Kinds == {"boot", "submit", "passkey", "enroll", "logout", "call"}
\* Those that read or change who is signed in.
Credential == Kinds \ {"call"}
SignIns == {"submit", "passkey"}

Public == {"home", "login", "register"}
Protected == {"dash", "admin"}

VARIABLES
    registered,   \* server: the accounts that exist
    owner,        \* server: owner[s], the account of the s-th session
    cookie,       \* browser: the session cookie, a session number or NoCookie
    user,         \* AuthContext: the user shown
    loading,      \* AuthContext: the first refresh has not ended
    path,         \* router: the page shown
    recent,       \* api.ts: a 401 was handled less than two seconds ago
    ops,          \* the handlers in flight: where each one is, whose cookie
                  \* it sent, and the account it asks for or was answered
    form,         \* sign-in page: Turnstile token, enrolment dialog, busy flags
    unsynced      \* ghost: sign-in handlers overlapped, or an enrolment
                  \* replaced the cookie, since the last reload

vars == <<registered, owner, cookie, user, loading, path, recent, ops, form, unsynced>>
server == <<registered, owner>>

Idle == [at |-> "idle", as |-> NoCookie, by |-> Nobody, page |-> "none"]
At(stage, s, a) == [at |-> stage, as |-> s, by |-> a, page |-> "none"]
BlankForm == [token |-> FALSE, dialog |-> FALSE, busy |-> {}]

Free(k) == ops[k].at = "idle"
InFlight == {k \in Kinds : ~Free(k)}
AtRest == Credential \cap InFlight = {}

\* Mutant: the server does not look whether the session was revoked.
WhoeverUnchecked(s) == IF s = NoCookie THEN Nobody ELSE owner[s]

\* Whom the server takes session s for.
Whoever(s) == IF s = NoCookie \/ owner[s] = Gone THEN Nobody ELSE owner[s]

\* Mutant: AdminRoute forgets to look at the role.
LandingAnyRole(p, u, busy) == IF p \in Protected /\ ~busy /\ u = Nobody THEN "login" ELSE p

\* Where ProtectedRoute and AdminRoute let page p end for the user u.
Landing(p, u, busy) ==
    CASE p \in Public \/ busy -> p
      [] p \in Protected /\ ~busy /\ u = Nobody -> "login"
      [] p = "admin" /\ ~busy /\ u # Nobody /\ u \notin Admins -> "dash"
      [] OTHER -> p

\* The next page and the user it is shown to; a page mounted anew is blank.
Show(p, u, busy) ==
    /\ user' = u
    /\ loading' = busy
    /\ path' = Landing(p, u, busy)

FormAfter(p, f) == IF Landing(p, user', loading') = path THEN f ELSE BlankForm

Done(k, f) == [f EXCEPT !.busy = @ \ {k}]

-----------------------------------------------------------------------------
\* The console is loaded: refresh() runs with whatever cookie there is.
Init ==
    /\ registered = First
    /\ owner \in {<<>>} \cup {<<a>> : a \in First \cup {Gone}}
    /\ cookie = Len(owner)
    /\ user = Nobody
    /\ loading = TRUE
    /\ path \in Public \cup Protected
    /\ recent = FALSE
    /\ ops = [k \in Kinds |-> IF k = "boot" THEN At("me", Len(owner), Nobody) ELSE Idle]
    /\ form = BlankForm
    /\ unsynced = FALSE

Reload ==
    /\ ~loading
    /\ Show(path, Nobody, TRUE)
    /\ recent' = FALSE
    /\ ops' = [k \in Kinds |-> IF k = "boot" THEN At("me", cookie, Nobody) ELSE Idle]
    /\ form' = BlankForm
    /\ unsynced' = FALSE
    /\ UNCHANGED <<server, cookie>>

\* A link, or the browser's back and forward buttons.
Visit(p) ==
    /\ p # path
    /\ Show(p, user, loading)
    /\ form' = FormAfter(p, form)
    /\ UNCHANGED <<server, cookie, recent, ops, unsynced>>

\* Starts handler k; the console is out of step when it overlaps another.
Start(k, first) ==
    /\ Free(k)
    /\ Cardinality(InFlight) < MaxInFlight
    /\ ops' = [ops EXCEPT ![k] = first]
    /\ unsynced' = (unsynced \/ (k \in Credential /\ ~AtRest))

Press(k, first) ==
    /\ Start(k, first)
    /\ form' = [form EXCEPT !.busy = @ \cup {k}]
    /\ UNCHANGED <<server, cookie, user, loading, path, recent>>

TokenReady == TurnstileOn => form.token

\* The widget is drawn again at every render and may answer at any time.
Verify(got) ==
    /\ TurnstileOn
    /\ path \in {"login", "register"}
    /\ form.token # got
    /\ form' = [form EXCEPT !.token = got]
    /\ UNCHANGED <<server, cookie, user, loading, path, recent, ops, unsynced>>

Submit(a) ==
    /\ path = "login" /\ "submit" \notin form.busy /\ TokenReady
    /\ Press("submit", At("login", cookie, a))

Register(a) ==
    /\ path = "register" /\ "submit" \notin form.busy /\ TokenReady
    /\ Press("submit", At("register", cookie, a))

PasskeyLogin ==
    /\ path = "login" /\ form.busy \cap SignIns = {}
    /\ Press("passkey", At("begin", cookie, Nobody))

OpenEnroll(open) ==
    /\ path = "login"
    /\ form.dialog # open
    /\ form' = [form EXCEPT !.dialog = open]
    /\ UNCHANGED <<server, cookie, user, loading, path, recent, ops, unsynced>>

Enroll(a) ==
    /\ path = "login" /\ form.dialog /\ "enroll" \notin form.busy
    /\ Press("enroll", At("login", cookie, a))

\* The server hands out a challenge; the user answers it as account a.
Prompt(k, a) ==
    /\ ops[k].at = "begin"
    /\ k = "passkey" => a \in registered
    /\ k = "enroll" => Whoever(ops[k].as) = a
    /\ ops' = [ops EXCEPT ![k] = At("finish", cookie, a)]
    /\ UNCHANGED <<server, cookie, user, loading, path, recent, form, unsynced>>

\* Mutant: submit and passkeyLogin do not wait for refresh().
GrantedUnrefreshed(k) ==
    /\ ops[k].at \in {"login", "register"}
    /\ (ops[k].by \in registered) <=> ops[k].at = "login"
    /\ Len(owner) < MaxSessions
    /\ registered' = registered \cup {ops[k].by}
    /\ owner' = Append(owner, ops[k].by)
    /\ cookie' = Len(owner) + 1
    /\ ops' = [ops EXCEPT ![k] = Idle]
    /\ UNCHANGED <<user, loading, path, recent, form, unsynced>>

\* The answer to a sign-in: a new session, and the cookie that names it.  A
\* sign-in goes on with refresh(), an enrolment with the passkey ceremony.
Granted(k) ==
    LET a == ops[k].by  s == Len(owner) + 1 IN
    /\ \/ ops[k].at = "login" /\ a \in registered
       \/ ops[k].at = "register" /\ a \notin registered
       \/ ops[k].at = "finish" /\ k = "passkey"
    /\ s <= MaxSessions
    /\ registered' = registered \cup {a}
    /\ owner' = Append(owner, a)
    /\ cookie' = s
    /\ ops' = [ops EXCEPT ![k] = At(IF k = "enroll" THEN "begin" ELSE "me", s, Nobody)]
    /\ unsynced' = (unsynced \/ k = "enroll")
    /\ UNCHANGED <<user, loading, path, recent, form>>

\* A refusal, an error, a cancelled prompt or a lost answer: setError(...).
Refused(k) ==
    /\ ops[k].at \in {"login", "register", "begin", "finish"}
    /\ ops' = [ops EXCEPT ![k] = Idle]
    /\ form' = Done(k, form)
    /\ UNCHANGED <<server, cookie, user, loading, path, recent, unsynced>>

Enrolled ==
    /\ ops["enroll"].at = "finish"
    /\ Whoever(ops["enroll"].as) = ops["enroll"].by
    /\ ops' = [ops EXCEPT !["enroll"] = Idle]
    /\ form' = Done("enroll", form)
    /\ UNCHANGED <<server, cookie, user, loading, path, recent, unsynced>>

-----------------------------------------------------------------------------
\* refresh(): GET /api/auth/me, answered for the cookie that was sent...
MeServed(k) ==
    /\ ops[k].at = "me"
    /\ \E a \in {Whoever(ops[k].as), Nobody} : ops' = [ops EXCEPT ![k] = At("mine", ops[k].as, a)]
    /\ UNCHANGED <<server, cookie, user, loading, path, recent, form, unsynced>>

\* Mutant: setLoading(false) is not in the finally block.
RefreshedOnSuccess(k) ==
    /\ ops[k].at = "mine"
    /\ Show(path, ops[k].by, loading /\ ops[k].by = Nobody)
    /\ form' = FormAfter(path, Done(k, form))
    /\ ops' = [ops EXCEPT ![k] = Idle]
    /\ UNCHANGED <<server, cookie, recent, unsynced>>

\* ... sets the user, or drops it when the call failed.  A sign-in then opens
\* the dashboard wherever the user has gone meanwhile.
Refreshed(k) ==
    LET p == IF k \in SignIns THEN "dash" ELSE path IN
    /\ ops[k].at = "mine"
    /\ Show(p, ops[k].by, FALSE)
    /\ form' = FormAfter(p, Done(k, form))
    /\ ops' = [ops EXCEPT ![k] = Idle]
    /\ UNCHANGED <<server, cookie, recent, unsynced>>

\* The log-out button of the avatar menu and of the sidebar.
Logout ==
    /\ user # Nobody /\ ~loading
    /\ Start("logout", At("out", cookie, Nobody))
    /\ UNCHANGED <<server, cookie, user, loading, path, recent, form>>

LogoutServed ==
    LET s == ops["logout"].as IN
    /\ ops["logout"].at = "out"
    /\ owner' = IF s = NoCookie THEN owner ELSE [owner EXCEPT ![s] = Gone]
    /\ ops' = [ops EXCEPT !["logout"].at = "outed"]
    /\ UNCHANGED <<registered, cookie, user, loading, path, recent, form, unsynced>>

\* The answer clears the cookie; without one the user is dropped all the same
\* and the rejection keeps navigate('/') from running.
LogoutDone(answered) ==
    LET p == IF answered THEN "home" ELSE path IN
    /\ ops["logout"].at \in IF answered THEN {"outed"} ELSE {"out", "outed"}
    /\ cookie' = IF answered THEN NoCookie ELSE cookie
    /\ Show(p, Nobody, loading)
    /\ form' = FormAfter(p, form)
    /\ ops' = [ops EXCEPT !["logout"] = Idle]
    /\ UNCHANGED <<server, recent, unsynced>>

\* A page of the console calls the management API.  The page is recorded when
\* the console is in step with its cookie.
Call ==
    /\ path \in Protected /\ ~loading
    /\ Start("call", [At("call", cookie, Nobody) EXCEPT
                        !.page = IF AtRest /\ ~unsynced THEN path ELSE "none"])
    /\ UNCHANGED <<server, cookie, user, loading, path, recent, form>>

CallServed ==
    /\ ops["call"].at = "call"
    /\ ops' = [ops EXCEPT !["call"].at = "called", !["call"].by = Whoever(ops["call"].as)]
    /\ UNCHANGED <<server, cookie, user, loading, path, recent, form, unsynced>>

\* A 401 drops the user, once in two seconds; any other answer is the page's.
CallAnswered ==
    LET drop == ops["call"].by = Nobody /\ ~recent IN
    /\ ops["call"].at = "called"
    /\ recent' = (recent \/ drop)
    /\ Show(path, IF drop THEN Nobody ELSE user, loading)
    /\ form' = FormAfter(path, form)
    /\ ops' = [ops EXCEPT !["call"] = Idle]
    /\ UNCHANGED <<server, cookie, unsynced>>

TwoSecondsPass ==
    /\ recent
    /\ recent' = FALSE
    /\ UNCHANGED <<server, cookie, user, loading, path, ops, form, unsynced>>

\* Elsewhere: a password reset, a removal or the expiry ends a session.
Revoke(s) ==
    /\ s \in DOMAIN owner /\ owner[s] # Gone
    /\ owner' = [owner EXCEPT ![s] = Gone]
    /\ UNCHANGED <<registered, cookie, user, loading, path, recent, ops, form, unsynced>>

Next ==
    \/ Reload
    \/ \E p \in Public \cup Protected : Visit(p)
    \/ \E got \in BOOLEAN : Verify(got) \/ OpenEnroll(got) \/ LogoutDone(got)
    \/ \E a \in Accounts : Submit(a) \/ Register(a) \/ Enroll(a)
    \/ \E a \in Accounts, k \in {"passkey", "enroll"} : Prompt(k, a)
    \/ \E k \in {"submit", "passkey", "enroll"} : Granted(k) \/ Refused(k)
    \/ \E k \in Kinds : MeServed(k) \/ Refreshed(k)
    \/ PasskeyLogin \/ Enrolled \/ Logout \/ LogoutServed
    \/ Call \/ CallServed \/ CallAnswered \/ TwoSecondsPass
    \/ \E s \in 1..MaxSessions : Revoke(s)

\* The browser answers or fails every call it made while loading.
Fairness == WF_vars(MeServed("boot")) /\ WF_vars(Refreshed("boot"))

Spec == Init /\ [][Next]_vars /\ Fairness

-----------------------------------------------------------------------------
Stage == {"idle", "me", "mine", "login", "register", "begin", "finish",
          "out", "outed", "call", "called"}

\* The type invariant.  A cookie, and a request, name a minted session; and
\* each handler is at a stage of its own.
TypeOK ==
    /\ registered \in SUBSET Accounts
    /\ owner \in Seq(Accounts \cup {Gone})
    /\ Len(owner) <= MaxSessions
    /\ cookie \in 0..Len(owner)
    /\ user \in Accounts \cup {Nobody}
    /\ loading \in BOOLEAN
    /\ path \in Public \cup Protected
    /\ recent \in BOOLEAN
    /\ ops \in [Kinds -> [at : Stage, as : 0..Len(owner), by : Accounts \cup {Nobody, Gone},
                          page : Protected \cup {"none"}]]
    /\ form \in [token : BOOLEAN, dialog : BOOLEAN, busy : SUBSET {"submit", "passkey", "enroll"}]
    /\ unsynced \in BOOLEAN

\* Once no sign-in handler is in flight, and unless two of them overlapped or
\* an enrolment signed in on the side, the user the console shows is the one
\* its cookie acts as (or was, if the session ended elsewhere): whatever was
\* refused, lost or revoked on the way, no page is shown as somebody else's.
ShownIsActing ==
    AtRest /\ ~unsynced /\ user # Nobody =>
        cookie # NoCookie /\ owner[cookie] \in {user, Gone}

\* A page of the administration calls the server with an administrator's
\* session or a dead one, never with a member's: AdminRoute keeps a member's
\* page from half-loading into 403s (App.tsx, "fails fast").
AdminCallsByAdmins ==
    ops["call"].at = "call" /\ ops["call"].page = "admin" =>
        Whoever(ops["call"].as) \in Admins \cup {Nobody}

\* The spinner of the route guards always ends, whatever GET /api/auth/me
\* answers: a failed check leads to the sign-in page, not to a blank console.
SpinnerEnds == []<>~loading
=============================================================================
