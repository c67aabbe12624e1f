------------------------ MODULE ConsoleSessionProofs ------------------------
(***************************************************************************)
(* Theorems about module ConsoleSession, for any accounts, any number of   *)
(* sessions and any number of handlers in flight.                          *)
(***************************************************************************)
EXTENDS ConsoleSession, TLAPS

-----------------------------------------------------------------------------
(* Types.                                                                  *)

Someone == Accounts \cup {Nobody}
Pages == Public \cup Protected
OpRow(n) == [at : Stage, as : 0..n, by : Someone, page : Protected \cup {"none"}]

\* What a handler waits for fits its kind: a sign-in or a ceremony is somebody's,
\* and only pages make management calls.
OpOK(k, o) ==
    /\ o.at \in {"login", "register", "finish"} => o.by \in Accounts
    /\ k = "call" => o.at \in {"idle", "call", "called"}

StageInv == \A k \in Kinds : OpOK(k, ops[k]) /\ ops[k] \in OpRow(Len(owner))
TypeInv == TypeOK /\ StageInv

LEMMA IdleRow == ASSUME NEW n \in Nat, NEW k \in Kinds PROVE OpOK(k, Idle) /\ Idle \in OpRow(n)
BY DEF OpOK, Idle, OpRow, Stage, Someone, NoCookie

LEMMA AtRow ==
    ASSUME NEW n \in Nat, NEW st \in Stage, NEW s \in 0..n, NEW a \in Someone, NEW k \in Kinds,
           st \in {"login", "register", "finish"} => a \in Accounts,
           k = "call" => st \in {"call", "called"}
    PROVE  OpOK(k, At(st, s, a)) /\ At(st, s, a) \in OpRow(n)
BY DEF OpOK, At, OpRow

LEMMA LandingTyped ==
    ASSUME NEW p \in Pages, NEW u, NEW busy \in BOOLEAN
    PROVE  Landing(p, u, busy) \in Pages
BY DEF Landing, Pages, Public, Protected

LEMMA WhoeverTyped ==
    ASSUME TypeOK, NEW s \in 0..Len(owner)
    PROVE  Whoever(s) \in Someone
BY DEF TypeOK, Whoever, Someone, NoCookie, Nobody

\* One handler is replaced, and the sessions only grow.
LEMMA OpReplaced ==
    ASSUME TypeInv, NEW k \in Kinds, NEW o, ops' = [ops EXCEPT ![k] = o],
           Len(owner') \in Nat, Len(owner') >= Len(owner),
           OpOK(k, o), o \in OpRow(Len(owner'))
    PROVE  StageInv'
<1> USE DEF TypeInv, StageInv
<1>1. SUFFICES ASSUME NEW j \in Kinds PROVE OpOK(j, ops'[j]) /\ ops'[j] \in OpRow(Len(owner'))
  OBVIOUS
<1>2. ops'[j] = IF j = k THEN o ELSE ops[j]
  BY DEF TypeOK
<1>3. Len(owner) \in Nat
  BY DEF TypeOK
<1>4. \A r \in OpRow(Len(owner)) : r \in OpRow(Len(owner'))
  BY <1>3 DEF OpRow
<1> QED BY <1>2, <1>4

LEMMA ShowTyped ==
    ASSUME NEW p \in Pages, NEW u \in Someone, NEW busy \in BOOLEAN, Show(p, u, busy)
    PROVE  user' \in Someone /\ loading' \in BOOLEAN /\ path' \in Pages
BY LandingTyped DEF Show

FormRow == [token : BOOLEAN, dialog : BOOLEAN, busy : SUBSET {"submit", "passkey", "enroll"}]

LEMMA FormTyped ==
    ASSUME NEW p, NEW f \in FormRow, NEW k
    PROVE  FormAfter(p, f) \in FormRow /\ FormAfter(p, Done(k, f)) \in FormRow /\ Done(k, f) \in FormRow
BY DEF FormAfter, FormRow, BlankForm, Done

\* What is left to show of a step once the handlers are known to fit.
LEMMA Assembled ==
    ASSUME StageInv', DOMAIN ops' = Kinds, ops' = [k \in Kinds |-> ops'[k]],
           registered' \in SUBSET Accounts, owner' \in Seq(Accounts \cup {Gone}),
           Len(owner') <= MaxSessions, cookie' \in 0..Len(owner'),
           user' \in Someone, loading' \in BOOLEAN, path' \in Pages, recent' \in BOOLEAN,
           form' \in FormRow, unsynced' \in BOOLEAN
    PROVE  TypeInv'
<1>1. ops' \in [Kinds -> [at : Stage, as : 0..Len(owner'), by : Accounts \cup {Nobody, Gone},
                          page : Protected \cup {"none"}]]
  BY DEF StageInv, OpRow, Someone
<1> QED BY <1>1 DEF TypeInv, TypeOK, Someone, Pages, FormRow

LEMMA Fields ==
    ASSUME TypeInv
    PROVE  /\ registered \in SUBSET Accounts /\ owner \in Seq(Accounts \cup {Gone})
           /\ Len(owner) \in Nat /\ Len(owner) <= MaxSessions /\ cookie \in 0..Len(owner)
           /\ user \in Someone /\ loading \in BOOLEAN /\ path \in Pages /\ recent \in BOOLEAN
           /\ form \in FormRow /\ unsynced \in BOOLEAN
           /\ ops = [k \in Kinds |-> ops[k]]
BY DEF TypeInv, TypeOK, Someone, Pages, FormRow

LEMMA ServerKept ==
    ASSUME TypeInv, UNCHANGED server
    PROVE  /\ registered' \in SUBSET Accounts /\ owner' \in Seq(Accounts \cup {Gone})
           /\ Len(owner') = Len(owner) /\ Len(owner') \in Nat /\ Len(owner') <= MaxSessions
BY Fields DEF server

\* A step that replaces one handler and leaves the server alone.
LEMMA HandlerStep ==
    ASSUME TypeInv, UNCHANGED server, NEW k \in Kinds, NEW o, ops' = [ops EXCEPT ![k] = o],
           OpOK(k, o), o \in OpRow(Len(owner)),
           cookie' \in 0..Len(owner), user' \in Someone, loading' \in BOOLEAN, path' \in Pages,
           recent' \in BOOLEAN, form' \in FormRow, unsynced' \in BOOLEAN
    PROVE  TypeInv'
<1>1. owner' = owner /\ registered' = registered
  BY DEF server
<1>2. ops' = [j \in Kinds |-> ops'[j]] /\ DOMAIN ops' = Kinds
  BY Fields
<1>3. Len(owner') = Len(owner) /\ Len(owner') \in Nat
  BY <1>1, Fields
<1>4. Len(owner') >= Len(owner) /\ o \in OpRow(Len(owner'))
  BY <1>3
<1>5. StageInv'
  BY <1>3, <1>4, OpReplaced
<1> QED BY <1>1, <1>2, <1>3, <1>5, Fields, Assembled

\* A step that replaces no handler and leaves the server alone.
LEMMA QuietStep ==
    ASSUME TypeInv, UNCHANGED <<server, ops>>,
           cookie' \in 0..Len(owner), user' \in Someone, loading' \in BOOLEAN, path' \in Pages,
           recent' \in BOOLEAN, form' \in FormRow, unsynced' \in BOOLEAN
    PROVE  TypeInv'
<1>1. owner' = owner /\ registered' = registered /\ ops' = ops
  BY DEF server
<1>2. StageInv'
  BY <1>1 DEF TypeInv, StageInv
<1> QED BY <1>1, <1>2, Fields, Assembled

\* A session ends.
LEMMA EndedStep ==
    ASSUME TypeInv, NEW s \in 1..Len(owner), owner' = [owner EXCEPT ![s] = Gone],
           registered' = registered, cookie' = cookie, user' = user, loading' = loading,
           path' = path, recent' = recent, form' = form, unsynced' = unsynced,
           \/ ops' = ops
           \/ \E k \in Kinds : \E o : ops' = [ops EXCEPT ![k] = o] /\ OpOK(k, o) /\ o \in OpRow(Len(owner))
    PROVE  TypeInv'
<1>1. owner' \in Seq(Accounts \cup {Gone}) /\ Len(owner') = Len(owner)
  BY Fields
<1>2. ops' = [j \in Kinds |-> ops'[j]] /\ DOMAIN ops' = Kinds
  BY Fields
<1>3. StageInv'
  <2>1. CASE ops' = ops
    BY <2>1, <1>1 DEF TypeInv, StageInv
  <2>2. CASE \E k \in Kinds : \E o : ops' = [ops EXCEPT ![k] = o] /\ OpOK(k, o) /\ o \in OpRow(Len(owner))
    <3>1. PICK k, o : k \in Kinds /\ ops' = [ops EXCEPT ![k] = o] /\ OpOK(k, o) /\ o \in OpRow(Len(owner))
      BY <2>2
    <3>2. Len(owner') \in Nat /\ Len(owner') >= Len(owner) /\ o \in OpRow(Len(owner'))
      BY <1>1, <3>1, Fields
    <3> QED BY <3>1, <3>2, OpReplaced
  <2> QED BY <2>1, <2>2
<1> QED BY <1>1, <1>2, <1>3, Fields, Assembled

LEMMA InitTyped == Init => TypeInv
<1> SUFFICES ASSUME Init PROVE TypeInv
  OBVIOUS
<1>1. owner \in Seq(Accounts \cup {Gone}) /\ Len(owner) \in {0, 1}
  <2>1. CASE owner = <<>>
    BY <2>1
  <2>2. CASE owner # <<>>
    <3>1. PICK a \in First \cup {Gone} : owner = <<a>>
      BY <2>2 DEF Init
    <3>2. a \in Accounts \cup {Gone}
      BY SessionAssumption
    <3> QED BY <3>1, <3>2
  <2> QED BY <2>1, <2>2
<1>2. \A k \in Kinds : OpOK(k, ops[k]) /\ ops[k] \in OpRow(Len(owner))
  <2> SUFFICES ASSUME NEW k \in Kinds PROVE OpOK(k, ops[k]) /\ ops[k] \in OpRow(Len(owner))
    OBVIOUS
  <2>1. CASE k = "boot"
    BY <2>1, <1>1, AtRow DEF Init, Stage, Someone
  <2>2. CASE k # "boot"
    BY <2>2, <1>1, IdleRow DEF Init
  <2> QED BY <2>1, <2>2
<1>3. ops \in [Kinds -> [at : Stage, as : 0..Len(owner), by : Accounts \cup {Nobody, Gone},
                         page : Protected \cup {"none"}]]
  BY <1>2 DEF Init, OpRow, Someone
<1>4. registered \in SUBSET Accounts /\ Len(owner) <= MaxSessions /\ cookie \in 0..Len(owner)
  BY <1>1, SessionAssumption DEF Init
<1>5. form \in FormRow /\ user \in Accounts \cup {Nobody}
  BY DEF Init, BlankForm, FormRow
<1>6. StageInv
  BY <1>2 DEF StageInv
<1>7. loading \in BOOLEAN /\ path \in Public \cup Protected /\ recent \in BOOLEAN /\ unsynced \in BOOLEAN
  BY DEF Init
<1> QED BY <1>1, <1>3, <1>4, <1>5, <1>6, <1>7 DEF TypeInv, TypeOK, FormRow

LEMMA ReloadTyped == ASSUME TypeInv, Reload PROVE TypeInv'
<1>1. \A k \in Kinds : OpOK(k, ops'[k]) /\ ops'[k] \in OpRow(Len(owner))
  <2> SUFFICES ASSUME NEW k \in Kinds PROVE OpOK(k, ops'[k]) /\ ops'[k] \in OpRow(Len(owner))
    OBVIOUS
  <2>1. CASE k = "boot"
    <3>1. "me" \in Stage /\ Nobody \in Someone
      BY DEF Stage, Someone
    <3> QED BY <2>1, <3>1, Fields, AtRow DEF Reload
  <2>2. CASE k # "boot"
    BY <2>2, Fields, IdleRow DEF Reload
  <2> QED BY <2>1, <2>2
<1>2. owner' = owner
  BY DEF Reload, server
<1>3. Nobody \in Someone /\ TRUE \in BOOLEAN
  BY DEF Someone
<1>4. user' \in Someone /\ loading' \in BOOLEAN /\ path' \in Pages
  BY <1>3, Fields, ShowTyped DEF Reload
<1>5. BlankForm \in FormRow
  BY DEF BlankForm, FormRow
<1>6. StageInv' /\ ops' = [k \in Kinds |-> ops'[k]] /\ DOMAIN ops' = Kinds
  BY <1>1, <1>2 DEF StageInv, Reload
<1>7. cookie' = cookie /\ recent' = FALSE /\ form' = BlankForm /\ unsynced' = FALSE /\ UNCHANGED server
  BY DEF Reload
<1> QED BY <1>4, <1>5, <1>6, <1>7, <1>2, ServerKept, Fields, Assembled

\* Navigation, the sign-in form and the passing of time touch no handler.
LEMMA VisitTyped == ASSUME TypeInv, NEW p \in Pages, Visit(p) PROVE TypeInv'
<1>1. user' \in Someone /\ loading' \in BOOLEAN /\ path' \in Pages
  BY Fields, ShowTyped DEF Visit
<1>2. form' \in FormRow
  BY Fields, FormTyped DEF Visit
<1> QED BY <1>1, <1>2, Fields, QuietStep DEF Visit

LEMMA VerifyTyped == ASSUME TypeInv, NEW got \in BOOLEAN, Verify(got) \/ OpenEnroll(got) PROVE TypeInv'
<1>1. form' \in FormRow
  BY Fields DEF FormRow, Verify, OpenEnroll
<1> QED BY <1>1, Fields, QuietStep DEF Verify, OpenEnroll

LEMMA TwoSecondsTyped == ASSUME TypeInv, TwoSecondsPass PROVE TypeInv'
BY Fields, QuietStep DEF TwoSecondsPass

LEMMA StartTyped ==
    ASSUME TypeInv, NEW k \in Kinds, NEW o, OpOK(k, o), o \in OpRow(Len(owner)), Start(k, o),
           UNCHANGED <<server, cookie, user, loading, path, recent>>, form' \in FormRow
    PROVE  TypeInv'
<1>1. unsynced' \in BOOLEAN
  BY Fields DEF Start
<1> QED BY <1>1, Fields, HandlerStep DEF Start

LEMMA PressTyped ==
    ASSUME TypeInv, NEW k \in {"submit", "passkey", "enroll"}, NEW o, OpOK(k, o), o \in OpRow(Len(owner)),
           Press(k, o)
    PROVE  TypeInv'
<1>1. form' \in FormRow
  BY Fields DEF Press, FormRow
<1>2. k \in Kinds
  BY DEF Kinds
<1> QED BY <1>1, <1>2, StartTyped DEF Press

LEMMA SignInTyped ==
    ASSUME TypeInv, NEW a \in Accounts, Submit(a) \/ Register(a) \/ Enroll(a)
    PROVE  TypeInv'
<1>1. a \in Someone /\ {"login", "register"} \subseteq Stage /\ {"submit", "enroll"} \subseteq Kinds
  BY DEF Someone, Stage, Kinds
<1>2. CASE Submit(a)
  <2>1. OpOK("submit", At("login", cookie, a)) /\ At("login", cookie, a) \in OpRow(Len(owner))
    BY <1>1, Fields, AtRow
  <2> QED BY <1>2, <2>1, PressTyped DEF Submit
<1>3. CASE Register(a)
  <2>1. OpOK("submit", At("register", cookie, a)) /\ At("register", cookie, a) \in OpRow(Len(owner))
    BY <1>1, Fields, AtRow
  <2> QED BY <1>3, <2>1, PressTyped DEF Register
<1>4. CASE Enroll(a)
  <2>1. OpOK("enroll", At("login", cookie, a)) /\ At("login", cookie, a) \in OpRow(Len(owner))
    BY <1>1, Fields, AtRow
  <2> QED BY <1>4, <2>1, PressTyped DEF Enroll
<1> QED BY <1>2, <1>3, <1>4

LEMMA PasskeyTyped == ASSUME TypeInv, PasskeyLogin PROVE TypeInv'
<1>1. Nobody \in Someone /\ "begin" \in Stage /\ "passkey" \in Kinds
  BY DEF Someone, Stage, Kinds
<1>2. OpOK("passkey", At("begin", cookie, Nobody)) /\ At("begin", cookie, Nobody) \in OpRow(Len(owner))
  BY <1>1, Fields, AtRow
<1> QED BY <1>2, PressTyped DEF PasskeyLogin

LEMMA LogoutTyped == ASSUME TypeInv, Logout PROVE TypeInv'
<1>1. Nobody \in Someone /\ "out" \in Stage /\ "logout" \in Kinds
  BY DEF Someone, Stage, Kinds
<1>2. OpOK("logout", At("out", cookie, Nobody)) /\ At("out", cookie, Nobody) \in OpRow(Len(owner))
  BY <1>1, Fields, AtRow
<1> QED BY <1>1, <1>2, Fields, StartTyped DEF Logout

LEMMA CallTyped == ASSUME TypeInv, Call PROVE TypeInv'
<1> DEFINE o == [At("call", cookie, Nobody) EXCEPT !.page = IF AtRest /\ ~unsynced THEN path ELSE "none"]
<1>1. "call" \in Kinds /\ path \in Protected
  BY DEF Kinds, Call
<1>2. OpOK("call", o) /\ o \in OpRow(Len(owner))
  BY <1>1, Fields DEF OpOK, OpRow, At, Stage, Someone
<1>3. Start("call", o)
  BY DEF Call
<1>4. UNCHANGED <<server, cookie, user, loading, path, recent>> /\ form' \in FormRow
  BY Fields DEF Call
<1> HIDE DEF o
<1> QED BY <1>1, <1>2, <1>3, <1>4, StartTyped

\* The record of a handler in flight, as TypeInv describes it.
LEMMA OpFacts ==
    ASSUME TypeInv, NEW k \in Kinds
    PROVE  OpOK(k, ops[k]) /\ ops[k].at \in Stage /\ ops[k].as \in 0..Len(owner) /\ ops[k].by \in Someone
           /\ ops[k] \in OpRow(Len(owner))
BY DEF TypeInv, StageInv, OpRow

\* The stages of a sign-in belong to the kinds other than "call".
LEMMA NotCall ==
    ASSUME TypeInv, NEW k \in Kinds, ops[k].at \notin {"idle", "call", "called"} PROVE k # "call"
BY OpFacts DEF OpOK

LEMMA PromptTyped ==
    ASSUME TypeInv, NEW a \in Accounts, NEW k \in {"passkey", "enroll"}, Prompt(k, a) PROVE TypeInv'
<1>1. a \in Someone /\ "finish" \in Stage /\ k \in Kinds /\ k # "call"
  BY DEF Someone, Stage, Kinds
<1>2. OpOK(k, At("finish", cookie, a)) /\ At("finish", cookie, a) \in OpRow(Len(owner))
  BY <1>1, Fields, AtRow
<1> QED BY <1>1, <1>2, Fields, HandlerStep DEF Prompt

LEMMA RefusedTyped ==
    ASSUME TypeInv, NEW k \in {"submit", "passkey", "enroll"}, Refused(k) PROVE TypeInv'
<1>1. k \in Kinds
  BY DEF Kinds
<1>2. OpOK(k, Idle) /\ Idle \in OpRow(Len(owner))
  BY <1>1, Fields, IdleRow
<1>3. form' \in FormRow
  BY Fields, FormTyped DEF Refused
<1> QED BY <1>1, <1>2, <1>3, Fields, HandlerStep DEF Refused

LEMMA EnrolledTyped == ASSUME TypeInv, Enrolled PROVE TypeInv'
<1>1. "enroll" \in Kinds
  BY DEF Kinds
<1>2. OpOK("enroll", Idle) /\ Idle \in OpRow(Len(owner))
  BY <1>1, Fields, IdleRow
<1>3. form' \in FormRow
  BY Fields, FormTyped DEF Enrolled
<1> QED BY <1>1, <1>2, <1>3, Fields, HandlerStep DEF Enrolled

LEMMA GrantedTyped ==
    ASSUME TypeInv, NEW k \in {"submit", "passkey", "enroll"}, Granted(k) PROVE TypeInv'
<1> DEFINE a == ops[k].by
           n == Len(owner) + 1
           o == At(IF k = "enroll" THEN "begin" ELSE "me", n, Nobody)
<1>1. k \in Kinds /\ k # "call" /\ Nobody \in Someone /\ {"begin", "me"} \subseteq Stage
  BY DEF Kinds, Someone, Stage
<1>2. a \in Accounts
  BY <1>1, OpFacts DEF Granted, OpOK
<1>3. owner' = Append(owner, a) /\ cookie' = n /\ n <= MaxSessions /\ registered' = registered \cup {a}
      /\ ops' = [ops EXCEPT ![k] = o]
  BY DEF Granted
<1>4. owner' \in Seq(Accounts \cup {Gone}) /\ Len(owner') = n
  BY <1>2, <1>3, Fields
<1>5. OpOK(k, o) /\ o \in OpRow(n)
  <2>1. n \in Nat /\ n \in 0..n
    BY Fields
  <2> HIDE DEF n
  <2> QED BY <1>1, <2>1, AtRow
<1>6. StageInv'
  <2>1. Len(owner') \in Nat /\ Len(owner') >= Len(owner) /\ o \in OpRow(Len(owner'))
    BY <1>4, <1>5, Fields
  <2> HIDE DEF o
  <2> QED BY <1>1, <1>3, <1>5, <2>1, OpReplaced
<1>7. ops' = [j \in Kinds |-> ops'[j]] /\ DOMAIN ops' = Kinds
  <2> HIDE DEF o
  <2> QED BY <1>3, Fields
<1>8. registered' \in SUBSET Accounts /\ cookie' \in 0..Len(owner') /\ Len(owner') <= MaxSessions
  BY <1>2, <1>3, <1>4, Fields
<1>9. user' = user /\ loading' = loading /\ path' = path /\ recent' = recent /\ form' = form
      /\ unsynced' \in BOOLEAN
  BY Fields DEF Granted
<1> QED BY <1>4, <1>6, <1>7, <1>8, <1>9, Fields, Assembled

LEMMA MeServedTyped == ASSUME TypeInv, NEW k \in Kinds, MeServed(k) PROVE TypeInv'
<1>1. PICK a \in {Whoever(ops[k].as), Nobody} : ops' = [ops EXCEPT ![k] = At("mine", ops[k].as, a)]
  BY DEF MeServed
<1>2. a \in Someone /\ "mine" \in Stage /\ k # "call"
  <2>1. ops[k].as \in 0..Len(owner) /\ TypeOK
    BY OpFacts DEF TypeInv
  <2>2. Whoever(ops[k].as) \in Someone
    BY <2>1, WhoeverTyped
  <2>3. k # "call"
    BY NotCall DEF MeServed
  <2> QED BY <2>2, <2>3, <1>1 DEF Someone, Stage
<1>3. OpOK(k, At("mine", ops[k].as, a)) /\ At("mine", ops[k].as, a) \in OpRow(Len(owner))
  BY <1>2, OpFacts, Fields, AtRow
<1> QED BY <1>1, <1>3, Fields, HandlerStep DEF MeServed

LEMMA RefreshedTyped == ASSUME TypeInv, NEW k \in Kinds, Refreshed(k) PROVE TypeInv'
<1> DEFINE p == IF k \in SignIns THEN "dash" ELSE path
<1>1. p \in Pages /\ FALSE \in BOOLEAN /\ ops[k].by \in Someone
  BY Fields, OpFacts DEF Pages, Protected
<1>2. Show(p, ops[k].by, FALSE) /\ form' = FormAfter(p, Done(k, form)) /\ ops' = [ops EXCEPT ![k] = Idle]
      /\ UNCHANGED <<server, cookie, recent, unsynced>>
  BY DEF Refreshed
<1> HIDE DEF p
<1>3. user' \in Someone /\ loading' \in BOOLEAN /\ path' \in Pages
  BY <1>1, <1>2, ShowTyped
<1>4. form' \in FormRow
  BY <1>2, Fields, FormTyped
<1>5. OpOK(k, Idle) /\ Idle \in OpRow(Len(owner))
  BY Fields, IdleRow
<1> QED BY <1>2, <1>3, <1>4, <1>5, Fields, HandlerStep

LEMMA LogoutServedTyped == ASSUME TypeInv, LogoutServed PROVE TypeInv'
<1> DEFINE o == [ops["logout"] EXCEPT !.at = "outed"]
<1>1. "logout" \in Kinds
  BY DEF Kinds
<1>2. OpOK("logout", o) /\ o \in OpRow(Len(owner))
  BY <1>1, OpFacts DEF OpRow, OpOK, Stage
<1>3. ops' = [ops EXCEPT !["logout"] = o]
  BY DEF LogoutServed
<1>4. UNCHANGED <<registered, cookie, user, loading, path, recent, form, unsynced>>
  BY DEF LogoutServed
<1> HIDE DEF o
<1>5. CASE ops["logout"].as = NoCookie
  <2>1. UNCHANGED server
    BY <1>5 DEF LogoutServed, server
  <2> QED BY <2>1, <1>1, <1>2, <1>3, <1>4, Fields, HandlerStep
<1>6. CASE ops["logout"].as # NoCookie
  <2>1. ops["logout"].as \in 1..Len(owner)
    BY <1>1, <1>6, OpFacts, Fields DEF NoCookie
  <2>2. owner' = [owner EXCEPT ![ops["logout"].as] = Gone]
    BY <1>6 DEF LogoutServed
  <2> QED BY <2>1, <2>2, <1>1, <1>2, <1>3, <1>4, EndedStep
<1> QED BY <1>5, <1>6

LEMMA LogoutDoneTyped == ASSUME TypeInv, NEW answered \in BOOLEAN, LogoutDone(answered) PROVE TypeInv'
<1> DEFINE p == IF answered THEN "home" ELSE path
<1>1. p \in Pages /\ loading \in BOOLEAN /\ Nobody \in Someone
  BY Fields DEF Pages, Public, Someone
<1>2. Show(p, Nobody, loading) /\ form' = FormAfter(p, form) /\ ops' = [ops EXCEPT !["logout"] = Idle]
      /\ UNCHANGED <<server, recent, unsynced>>
  BY DEF LogoutDone
<1> HIDE DEF p
<1>3. user' \in Someone /\ loading' \in BOOLEAN /\ path' \in Pages
  BY <1>1, <1>2, ShowTyped
<1>4. form' \in FormRow
  BY <1>2, Fields, FormTyped
<1>5. "logout" \in Kinds /\ cookie' \in 0..Len(owner)
  BY Fields DEF Kinds, LogoutDone, NoCookie
<1>6. OpOK("logout", Idle) /\ Idle \in OpRow(Len(owner))
  BY <1>5, Fields, IdleRow
<1> QED BY <1>2, <1>3, <1>4, <1>5, <1>6, Fields, HandlerStep

LEMMA CallServedTyped == ASSUME TypeInv, CallServed PROVE TypeInv'
<1> DEFINE o == [ops["call"] EXCEPT !.at = "called", !.by = Whoever(ops["call"].as)]
<1>1. "call" \in Kinds
  BY DEF Kinds
<1>2. ops["call"].as \in 0..Len(owner) /\ TypeOK
  BY <1>1, OpFacts DEF TypeInv
<1>3. Whoever(ops["call"].as) \in Someone
  BY <1>2, WhoeverTyped
<1>4. OpOK("call", o) /\ o \in OpRow(Len(owner))
  BY <1>1, <1>3, OpFacts DEF OpRow, OpOK, Stage
<1>5. ops' = [ops EXCEPT !["call"] = o]
  BY DEF CallServed
<1> HIDE DEF o
<1> QED BY <1>1, <1>4, <1>5, Fields, HandlerStep DEF CallServed

LEMMA CallAnsweredTyped == ASSUME TypeInv, CallAnswered PROVE TypeInv'
<1> DEFINE drop == ops["call"].by = Nobody /\ ~recent
           u == IF drop THEN Nobody ELSE user
<1>1. "call" \in Kinds /\ u \in Someone /\ path \in Pages /\ loading \in BOOLEAN
  BY Fields DEF Kinds, Someone
<1>2. Show(path, u, loading) /\ form' = FormAfter(path, form) /\ ops' = [ops EXCEPT !["call"] = Idle]
      /\ UNCHANGED <<server, cookie, unsynced>>
  BY DEF CallAnswered
<1>3. recent' \in BOOLEAN
  BY DEF CallAnswered
<1> HIDE DEF u
<1>4. user' \in Someone /\ loading' \in BOOLEAN /\ path' \in Pages
  BY <1>1, <1>2, ShowTyped
<1>5. form' \in FormRow
  BY <1>2, Fields, FormTyped
<1>6. OpOK("call", Idle) /\ Idle \in OpRow(Len(owner))
  BY <1>1, Fields, IdleRow
<1> QED BY <1>1, <1>2, <1>3, <1>4, <1>5, <1>6, Fields, HandlerStep

LEMMA RevokeTyped == ASSUME TypeInv, NEW s \in 1..MaxSessions, Revoke(s) PROVE TypeInv'
<1>1. s \in 1..Len(owner)
  BY Fields DEF Revoke
<1> QED BY <1>1, EndedStep DEF Revoke

LEMMA StepTyped == ASSUME TypeInv, [Next]_vars PROVE TypeInv'
<1>1. CASE UNCHANGED vars
  BY <1>1, Fields, QuietStep DEF vars, server
<1>2. CASE Reload
  BY <1>2, ReloadTyped
<1>3. CASE \E p \in Public \cup Protected : Visit(p)
  BY <1>3, VisitTyped DEF Pages
<1>4. CASE \E got \in BOOLEAN : Verify(got) \/ OpenEnroll(got) \/ LogoutDone(got)
  BY <1>4, VerifyTyped, LogoutDoneTyped
<1>5. CASE \E a \in Accounts : Submit(a) \/ Register(a) \/ Enroll(a)
  BY <1>5, SignInTyped
<1>6. CASE \E a \in Accounts, k \in {"passkey", "enroll"} : Prompt(k, a)
  BY <1>6, PromptTyped
<1>7. CASE \E k \in {"submit", "passkey", "enroll"} : Granted(k) \/ Refused(k)
  BY <1>7, GrantedTyped, RefusedTyped
<1>8. CASE \E k \in Kinds : MeServed(k) \/ Refreshed(k)
  BY <1>8, MeServedTyped, RefreshedTyped
<1>9. CASE PasskeyLogin \/ Enrolled \/ Logout \/ LogoutServed
  BY <1>9, PasskeyTyped, EnrolledTyped, LogoutTyped, LogoutServedTyped
<1>10. CASE Call \/ CallServed \/ CallAnswered \/ TwoSecondsPass
  BY <1>10, CallTyped, CallServedTyped, CallAnsweredTyped, TwoSecondsTyped
<1>11. CASE \E s \in 1..MaxSessions : Revoke(s)
  BY <1>11, RevokeTyped
<1> QED BY <1>1, <1>2, <1>3, <1>4, <1>5, <1>6, <1>7, <1>8, <1>9, <1>10, <1>11 DEF Next

\* Every reachable state is well typed: a cookie and every request in flight
\* name a session that was minted, and each handler is at a stage of its own.
THEOREM TypeCorrect == Spec => []TypeOK
<1>1. Spec => []TypeInv
  BY InitTyped, StepTyped, PTL DEF Spec
<1>2. TypeInv => TypeOK
  BY DEF TypeInv
<1> QED BY <1>1, <1>2, PTL

-----------------------------------------------------------------------------
(* The user shown is the one the cookie acts as.                           *)

\* Session s of the sessions own acts as user u, or ended.
Acts(own, s, u) == u # Nobody => s # NoCookie /\ own[s] \in {u, Gone}

Asking == {"login", "register", "begin", "finish"}

\* In step, at most one handler is changing who is signed in.  Until it is
\* granted, the user shown is the cookie's; from then on only what refresh()
\* brings has to be.
SyncInv ==
    ~unsynced =>
        /\ \A j, k \in Credential : ~Free(j) /\ ~Free(k) => j = k
        /\ AtRest => Acts(owner, cookie, user)
        /\ \A k \in Credential :
             /\ ops[k].at \in Asking => Acts(owner, cookie, user)
             /\ ops[k].at = "me" => ops[k].as = cookie
             /\ ops[k].at = "mine" => Acts(owner, cookie, ops[k].by)

\* No step gives a session another owner.
OwnersKept == \A s \in 1..Len(owner) : owner'[s] \in {owner[s], Gone}

LEMMA Rest == AtRest <=> \A k \in Credential : ops[k].at = "idle"
BY DEF AtRest, InFlight, Free, Credential

LEMMA RestNext == AtRest' <=> \A k \in Credential : ops'[k].at = "idle"
BY DEF AtRest, InFlight, Free, Credential

LEMMA ActsStill ==
    ASSUME TypeInv, OwnersKept, NEW s \in 0..Len(owner), NEW u, Acts(owner, s, u)
    PROVE  Acts(owner', s, u) /\ Acts(owner', s, Nobody)
BY DEF OwnersKept, Acts, NoCookie

LEMMA OwnersStep == ASSUME TypeInv, [Next]_vars PROVE OwnersKept
<1>1. CASE owner' = owner
  BY <1>1 DEF OwnersKept
<1>2. CASE \E s : owner' = [owner EXCEPT ![s] = Gone]
  BY <1>2, Fields DEF OwnersKept
<1>3. CASE \E a \in Accounts : owner' = Append(owner, a)
  BY <1>3, Fields DEF OwnersKept
<1>4. CASE UNCHANGED vars
  BY <1>1, <1>4 DEF vars
<1>5. CASE Reload \/ (\E p \in Public \cup Protected : Visit(p))
           \/ (\E got \in BOOLEAN : Verify(got) \/ OpenEnroll(got) \/ LogoutDone(got))
  BY <1>1, <1>5 DEF Reload, Visit, Verify, OpenEnroll, LogoutDone, server
<1>6. CASE \E a \in Accounts : Submit(a) \/ Register(a) \/ Enroll(a)
  BY <1>1, <1>6 DEF Submit, Register, Enroll, Press, server
<1>7. CASE (\E a \in Accounts, k \in {"passkey", "enroll"} : Prompt(k, a)) \/ PasskeyLogin \/ Enrolled \/ Logout
  BY <1>1, <1>7 DEF Prompt, PasskeyLogin, Press, Enrolled, Logout, server
<1>8. CASE \E k \in {"submit", "passkey", "enroll"} : Granted(k)
  <2>1. PICK k \in {"submit", "passkey", "enroll"} : Granted(k)
    BY <1>8
  <2>2. k \in Kinds
    BY DEF Kinds
  <2>3. ops[k].by \in Accounts
    BY <2>1, <2>2, OpFacts DEF Granted, OpOK
  <2> QED BY <1>3, <2>1, <2>3 DEF Granted
<1>9. CASE (\E k \in {"submit", "passkey", "enroll"} : Refused(k)) \/ (\E k \in Kinds : MeServed(k) \/ Refreshed(k))
  BY <1>1, <1>9 DEF Refused, MeServed, Refreshed, server
<1>10. CASE LogoutServed
  BY <1>1, <1>2, <1>10 DEF LogoutServed
<1>11. CASE Call \/ CallServed \/ CallAnswered \/ TwoSecondsPass
  BY <1>1, <1>11 DEF Call, CallServed, CallAnswered, TwoSecondsPass, server
<1>12. CASE \E s \in 1..MaxSessions : Revoke(s)
  BY <1>2, <1>12 DEF Revoke
<1> QED BY <1>4, <1>5, <1>6, <1>7, <1>8, <1>9, <1>10, <1>11, <1>12 DEF Next

\* A step of no handler that changes who is signed in.
LEMMA SyncQuiet ==
    ASSUME TypeInv, SyncInv, OwnersKept, cookie' = cookie, user' \in {user, Nobody}, unsynced' = unsynced,
           \A k \in Credential : ops'[k] = ops[k]
    PROVE  SyncInv'
<1> SUFFICES ASSUME ~unsynced PROVE
        /\ \A j, k \in Credential : ~Free(j)' /\ ~Free(k)' => j = k
        /\ AtRest' => Acts(owner', cookie, user')
        /\ \A k \in Credential :
             /\ ops'[k].at \in Asking => Acts(owner', cookie, user')
             /\ ops'[k].at = "me" => ops'[k].as = cookie
             /\ ops'[k].at = "mine" => Acts(owner', cookie, ops'[k].by)
  BY DEF SyncInv
<1>1. cookie \in 0..Len(owner)
  BY Fields
<1>2. Acts(owner, cookie, user) => Acts(owner', cookie, user')
  BY <1>1, ActsStill
<1>3. \A k \in Credential : Acts(owner, cookie, ops[k].by) => Acts(owner', cookie, ops[k].by)
  BY <1>1, ActsStill
<1> QED BY <1>2, <1>3, Rest, RestNext DEF SyncInv, Free

\* A handler that changes who is signed in starts.
LEMMA SyncStart ==
    ASSUME TypeInv, SyncInv, NEW k \in Credential, NEW o, Start(k, o), o.at \in Asking \cup {"out"},
           UNCHANGED <<owner, cookie, user>>
    PROVE  SyncInv'
<1> SUFFICES ASSUME ~unsynced' PROVE SyncInv'
  BY DEF SyncInv
<1>1. ~unsynced /\ AtRest
  BY DEF Start
<1>2. ops' = [ops EXCEPT ![k] = o] /\ k \in Kinds
  BY DEF Start, Credential
<1>3. \A j \in Credential : ops'[j] = IF j = k THEN o ELSE ops[j]
  BY <1>2, Fields DEF Credential
<1>4. \A j \in Credential : j # k => ops'[j].at = "idle"
  BY <1>1, <1>3, Rest
<1>5. Acts(owner, cookie, user)
  BY <1>1 DEF SyncInv
<1>6. o.at \notin {"idle", "me", "mine"}
  BY DEF Asking
<1> QED BY <1>3, <1>4, <1>5, <1>6, RestNext DEF SyncInv, Free, Asking

\* The only handler in flight goes on, and what must hold then is shown of it.
LEMMA SyncGoes ==
    ASSUME TypeInv, SyncInv, ~unsynced, NEW k \in Credential, ~Free(k), NEW o, ops' = [ops EXCEPT ![k] = o],
           o.at = "idle" => Acts(owner', cookie', user'),
           o.at \in Asking => Acts(owner', cookie', user'),
           o.at = "me" => o.as = cookie',
           o.at = "mine" => Acts(owner', cookie', o.by)
    PROVE  SyncInv'
<1>1. \A j \in Credential : ops'[j] = IF j = k THEN o ELSE ops[j]
  BY Fields DEF Credential
<1>2. \A j \in Credential : j # k => ops'[j].at = "idle"
  BY <1>1 DEF SyncInv, Free
<1> QED BY <1>1, <1>2, RestNext DEF SyncInv, Free, Asking

LEMMA SyncInit == Init => SyncInv
BY DEF Init, SyncInv, Credential, Kinds, Free, At, Idle, Acts, Asking, AtRest, InFlight

LEMMA SyncReload == ASSUME Reload PROVE SyncInv'
<1>1. user' = Nobody /\ cookie' = cookie
  BY DEF Reload, Show
<1>2. \A k \in Credential : ops'[k] = IF k = "boot" THEN At("me", cookie, Nobody) ELSE Idle
  BY DEF Reload, Credential
<1> QED BY <1>1, <1>2 DEF SyncInv, Free, At, Idle, Acts, Asking

\* Sign-ins, ceremonies and log-outs start.
LEMMA SyncStarts ==
    ASSUME TypeInv, SyncInv,
           (\E a \in Accounts : Submit(a) \/ Register(a) \/ Enroll(a)) \/ PasskeyLogin \/ Logout
    PROVE  SyncInv'
<1>1. {"submit", "passkey", "enroll", "logout"} \subseteq Credential
  BY DEF Credential, Kinds
<1>2. CASE \E a \in Accounts : Submit(a)
  <2>1. PICK a \in Accounts : Start("submit", At("login", cookie, a)) /\ UNCHANGED <<owner, cookie, user>>
    BY <1>2 DEF Submit, Press, server
  <2>2. At("login", cookie, a).at \in Asking
    BY DEF At, Asking
  <2> QED BY <1>1, <2>1, <2>2, SyncStart
<1>3. CASE \E a \in Accounts : Register(a)
  <2>1. PICK a \in Accounts : Start("submit", At("register", cookie, a)) /\ UNCHANGED <<owner, cookie, user>>
    BY <1>3 DEF Register, Press, server
  <2>2. At("register", cookie, a).at \in Asking
    BY DEF At, Asking
  <2> QED BY <1>1, <2>1, <2>2, SyncStart
<1>4. CASE \E a \in Accounts : Enroll(a)
  <2>1. PICK a \in Accounts : Start("enroll", At("login", cookie, a)) /\ UNCHANGED <<owner, cookie, user>>
    BY <1>4 DEF Enroll, Press, server
  <2>2. At("login", cookie, a).at \in Asking
    BY DEF At, Asking
  <2> QED BY <1>1, <2>1, <2>2, SyncStart
<1>5. CASE PasskeyLogin
  <2>1. Start("passkey", At("begin", cookie, Nobody)) /\ UNCHANGED <<owner, cookie, user>>
    BY <1>5 DEF PasskeyLogin, Press, server
  <2>2. At("begin", cookie, Nobody).at \in Asking
    BY DEF At, Asking
  <2> QED BY <1>1, <2>1, <2>2, SyncStart
<1>6. CASE Logout
  <2>1. Start("logout", At("out", cookie, Nobody)) /\ UNCHANGED <<owner, cookie, user>>
    BY <1>6 DEF Logout, server
  <2>2. At("out", cookie, Nobody).at = "out"
    BY DEF At
  <2> QED BY <1>1, <2>1, <2>2, SyncStart
<1> QED BY <1>2, <1>3, <1>4, <1>5, <1>6

\* A prompt, a refusal or a finished enrolment leaves the cookie and the user.
LEMMA SyncAsks ==
    ASSUME TypeInv, SyncInv,
           \/ \E a \in Accounts, k \in {"passkey", "enroll"} : Prompt(k, a)
           \/ \E k \in {"submit", "passkey", "enroll"} : Refused(k)
           \/ Enrolled
    PROVE  SyncInv'
<1> DEFINE Answered(k, o) ==
             /\ ops[k].at \in Asking /\ ops' = [ops EXCEPT ![k] = o]
             /\ o.at \in {"idle", "finish"}
             /\ owner' = owner /\ cookie' = cookie /\ user' = user /\ unsynced' = unsynced
<1>0. \E k \in {"submit", "passkey", "enroll"} : \E o : Answered(k, o)
  <2>1. CASE \E a \in Accounts, k \in {"passkey", "enroll"} : Prompt(k, a)
    BY <2>1 DEF Prompt, Asking, At, server
  <2>2. CASE \E k \in {"submit", "passkey", "enroll"} : Refused(k)
    BY <2>2 DEF Refused, Asking, Idle, server
  <2>3. CASE Enrolled
    BY <2>3 DEF Enrolled, Asking, Idle, server
  <2> QED BY <2>1, <2>2, <2>3
<1>a. PICK k \in {"submit", "passkey", "enroll"} : \E o : Answered(k, o)
  BY <1>0
<1>1. PICK o : Answered(k, o)
  BY <1>a
<1>2. k \in Credential
  BY DEF Credential, Kinds
<1>3. CASE unsynced
  BY <1>1, <1>3 DEF SyncInv
<1>4. CASE ~unsynced
  <2>1. Acts(owner', cookie', user') /\ ~Free(k)
    BY <1>1, <1>2, <1>4 DEF SyncInv, Free, Asking
  <2> QED BY <1>1, <1>2, <1>4, <2>1, SyncGoes
<1> QED BY <1>3, <1>4

\* A session is granted: refresh() asks with the cookie that names it.
LEMMA SyncGranted ==
    ASSUME TypeInv, SyncInv, NEW k \in {"submit", "passkey", "enroll"}, Granted(k) PROVE SyncInv'
<1> DEFINE o == At(IF k = "enroll" THEN "begin" ELSE "me", Len(owner) + 1, Nobody)
<1>1. k \in Credential
  BY DEF Credential, Kinds
<1>2. ops' = [ops EXCEPT ![k] = o] /\ cookie' = Len(owner) + 1 /\ unsynced' = (unsynced \/ k = "enroll")
  BY DEF Granted
<1>3. CASE unsynced'
  BY <1>3 DEF SyncInv
<1>4. CASE ~unsynced'
  <2>1. ~unsynced /\ k # "enroll"
    BY <1>2, <1>4
  <2>2. ~Free(k)
    BY DEF Granted, Free
  <2>3. o.at = "me" /\ o.as = cookie'
    BY <1>2, <2>1 DEF At
  <2>4. o.at \notin Asking \cup {"idle", "mine"}
    BY <2>3 DEF Asking
  <2> HIDE DEF o
  <2> QED BY <1>1, <1>2, <2>1, <2>2, <2>3, <2>4, SyncGoes
<1> QED BY <1>3, <1>4

LEMMA SyncServed ==
    ASSUME TypeInv, SyncInv, NEW k \in Kinds, MeServed(k) PROVE SyncInv'
<1>1. PICK a \in {Whoever(ops[k].as), Nobody} : ops' = [ops EXCEPT ![k] = At("mine", ops[k].as, a)]
  BY DEF MeServed
<1>2. k \in Credential /\ ~Free(k)
  BY NotCall DEF MeServed, Credential, Free
<1>3. owner' = owner /\ cookie' = cookie /\ unsynced' = unsynced
  BY DEF MeServed, server
<1>4. CASE unsynced
  BY <1>3, <1>4 DEF SyncInv
<1>5. CASE ~unsynced
  <2>1. ops[k].as = cookie
    BY <1>2, <1>5 DEF SyncInv, MeServed
  <2>2. Acts(owner, cookie, a)
    BY <1>1, <2>1 DEF Acts, Whoever
  <2>3. At("mine", ops[k].as, a).at = "mine" /\ At("mine", ops[k].as, a).by = a /\ "mine" \notin Asking \cup {"me", "idle"}
    BY DEF At, Asking
  <2> QED BY <1>1, <1>2, <1>3, <1>5, <2>2, <2>3, SyncGoes
<1> QED BY <1>4, <1>5

LEMMA SyncRefreshed ==
    ASSUME TypeInv, SyncInv, NEW k \in Kinds, Refreshed(k) PROVE SyncInv'
<1>1. k \in Credential /\ ~Free(k) /\ ops[k].at = "mine"
  BY NotCall DEF Refreshed, Credential, Free
<1>2. user' = ops[k].by /\ owner' = owner /\ cookie' = cookie /\ unsynced' = unsynced
      /\ ops' = [ops EXCEPT ![k] = Idle]
  BY DEF Refreshed, Show, server
<1>3. CASE unsynced
  BY <1>2, <1>3 DEF SyncInv
<1>4. CASE ~unsynced
  <2>1. Acts(owner', cookie', user')
    BY <1>1, <1>2, <1>4 DEF SyncInv
  <2>2. Idle.at = "idle" /\ "idle" \notin {"me", "mine"}
    BY DEF Idle
  <2> QED BY <1>1, <1>2, <1>4, <2>1, <2>2, SyncGoes
<1> QED BY <1>3, <1>4

LEMMA SyncLogout ==
    ASSUME TypeInv, SyncInv, LogoutServed \/ (\E answered \in BOOLEAN : LogoutDone(answered)) PROVE SyncInv'
<1>1. "logout" \in Credential
  BY DEF Credential, Kinds
<1>2. CASE unsynced
  BY <1>2 DEF SyncInv, LogoutServed, LogoutDone
<1>3. CASE ~unsynced /\ LogoutServed
  <2>1. ~Free("logout") /\ ops' = [ops EXCEPT !["logout"] = [ops["logout"] EXCEPT !.at = "outed"]]
    BY <1>3 DEF LogoutServed, Free
  <2>2. [ops["logout"] EXCEPT !.at = "outed"].at = "outed"
    BY <1>1, OpFacts DEF OpRow, Credential
  <2>3. "outed" \notin Asking \cup {"idle", "me", "mine"}
    BY DEF Asking
  <2> QED BY <1>1, <1>3, <2>1, <2>2, <2>3, SyncGoes
<1>4. CASE ~unsynced /\ \E answered \in BOOLEAN : LogoutDone(answered)
  <2>1. ~Free("logout") /\ ops' = [ops EXCEPT !["logout"] = Idle] /\ user' = Nobody
    BY <1>4 DEF LogoutDone, Free, Show
  <2>2. Acts(owner', cookie', user') /\ Idle.at = "idle"
    BY <2>1 DEF Acts, Idle
  <2>3. "idle" \notin {"me", "mine"}
    OBVIOUS
  <2> QED BY <1>1, <1>4, <2>1, <2>2, <2>3, SyncGoes
<1> QED BY <1>2, <1>3, <1>4

\* Navigation, management calls, revocations elsewhere: at most the user goes.
LEMMA SyncElsewhere ==
    ASSUME TypeInv, SyncInv, OwnersKept,
           \/ UNCHANGED vars
           \/ \E p \in Public \cup Protected : Visit(p)
           \/ \E got \in BOOLEAN : Verify(got) \/ OpenEnroll(got)
           \/ Call \/ CallServed \/ CallAnswered \/ TwoSecondsPass
           \/ \E s \in 1..MaxSessions : Revoke(s)
    PROVE  SyncInv'
<1>1. "call" \notin Credential
  BY DEF Credential
<1>2. CASE UNCHANGED vars \/ (\E p \in Public \cup Protected : Visit(p)) \/ TwoSecondsPass
           \/ (\E got \in BOOLEAN : Verify(got) \/ OpenEnroll(got)) \/ (\E s \in 1..MaxSessions : Revoke(s))
  <2>1. cookie' = cookie /\ user' = user /\ unsynced' = unsynced /\ ops' = ops
    BY <1>2 DEF vars, Visit, Show, TwoSecondsPass, Verify, OpenEnroll, Revoke
  <2> QED BY <2>1, SyncQuiet
<1>3. CASE Call
  <2>1. cookie' = cookie /\ user' = user /\ unsynced' = unsynced
    BY <1>3, <1>1, Fields DEF Call, Start
  <2>2. \A k \in Credential : ops'[k] = ops[k]
    BY <1>3, <1>1, Fields DEF Call, Start
  <2> QED BY <2>1, <2>2, SyncQuiet
<1>4. CASE CallServed \/ CallAnswered
  <2>1. cookie' = cookie /\ user' \in {user, Nobody} /\ unsynced' = unsynced
    BY <1>4 DEF CallServed, CallAnswered, Show
  <2>2. \A k \in Credential : ops'[k] = ops[k]
    <3>1. PICK o : ops' = [ops EXCEPT !["call"] = o]
      BY <1>4 DEF CallServed, CallAnswered
    <3> QED BY <3>1, <1>1, Fields DEF Credential
  <2> QED BY <2>1, <2>2, SyncQuiet
<1> QED BY <1>2, <1>3, <1>4

LEMMA SyncStep == ASSUME TypeInv, SyncInv, [Next]_vars PROVE SyncInv'
<1>1. OwnersKept
  BY OwnersStep
<1>2. CASE Reload
  BY <1>2, SyncReload
<1>3. CASE (\E a \in Accounts : Submit(a) \/ Register(a) \/ Enroll(a)) \/ PasskeyLogin \/ Logout
  BY <1>3, SyncStarts
<1>4. CASE (\E a \in Accounts, k \in {"passkey", "enroll"} : Prompt(k, a)) \/ Enrolled
  BY <1>4, SyncAsks
<1>5. CASE \E k \in {"submit", "passkey", "enroll"} : Granted(k) \/ Refused(k)
  BY <1>5, SyncGranted, SyncAsks
<1>6. CASE \E k \in Kinds : MeServed(k) \/ Refreshed(k)
  BY <1>6, SyncServed, SyncRefreshed
<1>7. CASE LogoutServed \/ \E answered \in BOOLEAN : LogoutDone(answered)
  BY <1>7, SyncLogout
<1>8. CASE \/ UNCHANGED vars
           \/ \E p \in Public \cup Protected : Visit(p)
           \/ \E got \in BOOLEAN : Verify(got) \/ OpenEnroll(got)
           \/ Call \/ CallServed \/ CallAnswered \/ TwoSecondsPass
           \/ \E s \in 1..MaxSessions : Revoke(s)
  BY <1>1, <1>8, SyncElsewhere
<1> QED BY <1>2, <1>3, <1>4, <1>5, <1>6, <1>7, <1>8 DEF Next

\* Unless sign-ins overlapped or an enrolment signed in on the side, the user
\* the console shows is the one its cookie acts as, once no handler is about
\* to change either.
THEOREM ShownActs == Spec => []ShownIsActing
<1>1. Init => TypeInv /\ SyncInv
  BY InitTyped, SyncInit
<1>2. TypeInv /\ SyncInv /\ [Next]_vars => (TypeInv /\ SyncInv)'
  BY StepTyped, SyncStep
<1>3. TypeInv /\ SyncInv => ShownIsActing
  BY DEF SyncInv, ShownIsActing, Acts
<1> QED BY <1>1, <1>2, <1>3, PTL DEF Spec

-----------------------------------------------------------------------------
(* Who sees the administration, and with whose session it calls.           *)

\* What the guards let through.
GuardInv ==
    /\ path \in Protected /\ ~loading => user # Nobody
    /\ path = "admin" /\ ~loading => user \in Admins

LEMMA ShowGuards ==
    ASSUME NEW p \in Pages, NEW u, NEW busy \in BOOLEAN, Show(p, u, busy) PROVE GuardInv'
<1>1. path' = Landing(p, u, busy) /\ user' = u /\ loading' = busy
  BY DEF Show
<1>2. CASE p \in Public \/ busy
  <2>1. path' = p
    BY <1>1, <1>2 DEF Landing, Public, Protected
  <2> QED BY <1>1, <1>2, <2>1 DEF GuardInv, Public, Protected
<1>3. CASE p \in Protected /\ ~busy /\ u = Nobody
  <2>1. path' = "login"
    BY <1>1, <1>3 DEF Landing, Public, Protected
  <2> QED BY <2>1 DEF GuardInv, Protected
<1>4. CASE p = "admin" /\ ~busy /\ u # Nobody /\ u \notin Admins
  <2>1. path' = "dash"
    BY <1>1, <1>4 DEF Landing, Public, Protected
  <2> QED BY <1>1, <1>4, <2>1 DEF GuardInv
<1>5. CASE p \in Protected /\ ~busy /\ u # Nobody /\ (p = "admin" => u \in Admins)
  <2>1. path' = p
    BY <1>1, <1>5 DEF Landing, Public, Protected
  <2> QED BY <1>1, <1>5, <2>1 DEF GuardInv
<1> QED BY <1>2, <1>3, <1>4, <1>5 DEF Pages, Protected

LEMMA GuardKept ==
    ASSUME GuardInv, UNCHANGED <<path, user, loading>> PROVE GuardInv'
BY DEF GuardInv

LEMMA GuardStep == ASSUME TypeInv, GuardInv, [Next]_vars PROVE GuardInv'
<1>1. CASE UNCHANGED <<path, user, loading>>
  BY <1>1, GuardKept
<1>2. CASE UNCHANGED vars
  BY <1>1, <1>2 DEF vars
<1>3. CASE Reload
  BY <1>3, Fields, ShowGuards DEF Reload
<1>4. CASE \E p \in Public \cup Protected : Visit(p)
  BY <1>4, Fields, ShowGuards DEF Visit, Pages
<1>5. CASE \E got \in BOOLEAN : Verify(got) \/ OpenEnroll(got)
  BY <1>1, <1>5 DEF Verify, OpenEnroll
<1>6. CASE \E answered \in BOOLEAN : LogoutDone(answered)
  <2>1. PICK answered \in BOOLEAN : Show(IF answered THEN "home" ELSE path, Nobody, loading)
    BY <1>6 DEF LogoutDone
  <2>2. (IF answered THEN "home" ELSE path) \in Pages /\ loading \in BOOLEAN
    BY Fields DEF Pages, Public
  <2> QED BY <2>1, <2>2, ShowGuards
<1>7. CASE (\E a \in Accounts : Submit(a) \/ Register(a) \/ Enroll(a)) \/ PasskeyLogin \/ Logout
           \/ (\E a \in Accounts, k \in {"passkey", "enroll"} : Prompt(k, a)) \/ Enrolled
  BY <1>1, <1>7 DEF Submit, Register, Enroll, PasskeyLogin, Press, Logout, Prompt, Enrolled
<1>8. CASE (\E k \in {"submit", "passkey", "enroll"} : Granted(k) \/ Refused(k)) \/ (\E k \in Kinds : MeServed(k))
  BY <1>1, <1>8 DEF Granted, Refused, MeServed
<1>9. CASE \E k \in Kinds : Refreshed(k)
  <2>1. PICK k \in Kinds : Show(IF k \in SignIns THEN "dash" ELSE path, ops[k].by, FALSE)
    BY <1>9 DEF Refreshed
  <2>2. (IF k \in SignIns THEN "dash" ELSE path) \in Pages
    BY Fields DEF Pages, Protected
  <2> QED BY <2>1, <2>2, ShowGuards
<1>10. CASE CallAnswered
  <2>1. \E u : Show(path, u, loading)
    BY <1>10 DEF CallAnswered
  <2> QED BY <2>1, Fields, ShowGuards
<1>11. CASE LogoutServed \/ Call \/ CallServed \/ TwoSecondsPass \/ (\E s \in 1..MaxSessions : Revoke(s))
  BY <1>1, <1>11 DEF LogoutServed, Call, CallServed, TwoSecondsPass, Revoke
<1> QED BY <1>2, <1>3, <1>4, <1>5, <1>6, <1>7, <1>8, <1>9, <1>10, <1>11 DEF Next

\* A call that leaves a page of the administration is an administrator's: the
\* guard let the user shown through, and the user shown acts.
LEMMA CallByAdmin ==
    ASSUME TypeInv, SyncInv, GuardInv, AdminCallsByAdmins, Call PROVE AdminCallsByAdmins'
<1>1. ops' = [ops EXCEPT !["call"] = [At("call", cookie, Nobody) EXCEPT
                                        !.page = IF AtRest /\ ~unsynced THEN path ELSE "none"]]
      /\ owner' = owner /\ path \in Protected /\ ~loading
  BY DEF Call, Start, server
<1>2. ops'["call"].as = cookie /\ ops'["call"].page = IF AtRest /\ ~unsynced THEN path ELSE "none"
  BY <1>1, Fields DEF At, Kinds
<1>3. SUFFICES ASSUME ops'["call"].page = "admin" PROVE Whoever(cookie)' \in Admins \cup {Nobody}
  BY <1>1, <1>2 DEF AdminCallsByAdmins, Whoever, Call
<1>4. AtRest /\ ~unsynced /\ path = "admin"
  BY <1>2, <1>3
<1>5. user # Nobody /\ user \in Admins
  BY <1>1, <1>4 DEF GuardInv
<1>6. owner[cookie] \in {user, Gone}
  BY <1>4, <1>5 DEF SyncInv, Acts
<1> QED BY <1>1, <1>5, <1>6 DEF Whoever, Call

LEMMA CallKept ==
    ASSUME TypeInv, OwnersKept, AdminCallsByAdmins,
           ops'["call"] = ops["call"] \/ ops'["call"].at # "call"
    PROVE  AdminCallsByAdmins'
<1> SUFFICES ASSUME ops'["call"] = ops["call"], ops["call"].at = "call", ops["call"].page = "admin"
             PROVE  Whoever(ops["call"].as)' \in Admins \cup {Nobody}
  BY DEF AdminCallsByAdmins
<1>1. ops["call"].as \in 0..Len(owner)
  BY OpFacts DEF Kinds
<1>2. Whoever(ops["call"].as) \in Admins \cup {Nobody}
  BY DEF AdminCallsByAdmins
<1> QED BY <1>1, <1>2, Fields DEF Whoever, OwnersKept, NoCookie

LEMMA CallStep ==
    ASSUME TypeInv, SyncInv, GuardInv, AdminCallsByAdmins, [Next]_vars PROVE AdminCallsByAdmins'
<1>1. OwnersKept
  BY OwnersStep
<1>2. CASE Call
  BY <1>2, CallByAdmin
<1>3. CASE ops'["call"] = ops["call"] \/ ops'["call"].at # "call"
  BY <1>1, <1>3, CallKept
<1>4. CASE UNCHANGED ops
  BY <1>3, <1>4
<1>5. CASE \E k \in Kinds \ {"call"} : \E o : ops' = [ops EXCEPT ![k] = o]
  <2>1. PICK k, o : k \in Kinds \ {"call"} /\ ops' = [ops EXCEPT ![k] = o]
    BY <1>5
  <2>2. ops'["call"] = ops["call"]
    BY <2>1, Fields DEF Kinds
  <2> QED BY <1>3, <2>2
<1>6. {"submit", "passkey", "enroll", "logout"} \subseteq Kinds \ {"call"}
  BY DEF Kinds
<1>7. CASE UNCHANGED vars
  BY <1>4, <1>7 DEF vars
<1>8. CASE Reload
  <2>1. ops'["call"].at # "call"
    BY <1>8 DEF Reload, Idle, Kinds
  <2> QED BY <1>3, <2>1
<1>9. CASE (\E p \in Public \cup Protected : Visit(p)) \/ TwoSecondsPass \/ (\E s \in 1..MaxSessions : Revoke(s))
           \/ (\E got \in BOOLEAN : Verify(got) \/ OpenEnroll(got))
  BY <1>4, <1>9 DEF Visit, TwoSecondsPass, Revoke, Verify, OpenEnroll
<1>10. CASE (\E answered \in BOOLEAN : LogoutDone(answered)) \/ LogoutServed \/ Logout \/ PasskeyLogin \/ Enrolled
  <2>1. \E k \in {"passkey", "enroll", "logout"} : \E o : ops' = [ops EXCEPT ![k] = o]
    BY <1>10 DEF LogoutDone, LogoutServed, Logout, PasskeyLogin, Enrolled, Press, Start
  <2> QED BY <1>5, <1>6, <2>1
<1>11. CASE \E a \in Accounts : Submit(a) \/ Register(a) \/ Enroll(a)
  <2>1. \E k \in {"submit", "enroll"} : \E o : ops' = [ops EXCEPT ![k] = o]
    BY <1>11 DEF Submit, Register, Enroll, Press, Start
  <2> QED BY <1>5, <1>6, <2>1
<1>12. CASE (\E a \in Accounts, k \in {"passkey", "enroll"} : Prompt(k, a))
            \/ (\E k \in {"submit", "passkey", "enroll"} : Granted(k) \/ Refused(k))
  <2>1. \E k \in {"submit", "passkey", "enroll"} : \E o : ops' = [ops EXCEPT ![k] = o]
    BY <1>12 DEF Prompt, Granted, Refused
  <2> QED BY <1>5, <1>6, <2>1
<1>13. CASE \E k \in Kinds : MeServed(k) \/ Refreshed(k)
  <2>1. PICK k \in Kinds : MeServed(k) \/ Refreshed(k)
    BY <1>13
  <2>2. k # "call"
    BY <2>1, NotCall DEF MeServed, Refreshed
  <2>3. \E o : ops' = [ops EXCEPT ![k] = o]
    BY <2>1 DEF MeServed, Refreshed
  <2> QED BY <1>5, <2>2, <2>3
<1>14. CASE CallServed \/ CallAnswered
  <2>1. ops'["call"].at # "call"
    <3>1. CASE CallServed
      <4>1. "call" \in Kinds /\ ops["call"] \in OpRow(Len(owner))
        BY OpFacts DEF Kinds
      <4> QED BY <3>1, <4>1, Fields DEF CallServed, OpRow
    <3>2. CASE CallAnswered
      BY <3>2, Fields DEF CallAnswered, Idle, Kinds
    <3> QED BY <1>14, <3>1, <3>2
  <2> QED BY <1>3, <2>1
<1> QED BY <1>2, <1>7, <1>8, <1>9, <1>10, <1>11, <1>12, <1>13, <1>14 DEF Next

\* A page of the administration that is in step with its cookie calls the
\* server with an administrator's session or a dead one, however long the call
\* is on its way and whatever is granted, revoked or reloaded meanwhile.
THEOREM AdminsCall == Spec => []AdminCallsByAdmins
<1>1. Init => TypeInv /\ SyncInv /\ GuardInv /\ AdminCallsByAdmins
  <2>1. Init => GuardInv
    BY DEF Init, GuardInv
  <2>2. Init => AdminCallsByAdmins
    BY DEF Init, AdminCallsByAdmins, Idle, Kinds
  <2> QED BY <2>1, <2>2, InitTyped, SyncInit
<1>2. TypeInv /\ SyncInv /\ GuardInv /\ AdminCallsByAdmins /\ [Next]_vars
        => (TypeInv /\ SyncInv /\ GuardInv /\ AdminCallsByAdmins)'
  BY StepTyped, SyncStep, GuardStep, CallStep
<1> QED BY <1>1, <1>2, PTL DEF Spec
=============================================================================
