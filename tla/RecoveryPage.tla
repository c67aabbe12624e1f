---------------------------- MODULE RecoveryPage ----------------------------
(***************************************************************************)
(* Password recovery: the page (pages/ForgotPassword.tsx) beside the two   *)
(* handlers it calls (SendCode, ResetPassword of handler/auth.go), for one *)
(* registered address.  The handlers are a few statements each with no     *)
(* transaction around them, and other tabs call them too.                  *)
(***************************************************************************)
EXTENDS Calls

CONSTANTS
    Codes,         \* bound: the codes issued, numbers in the order of issue
    MaxAttempts,   \* codeMaxAttempts
    Tabs           \* who calls, one call at a time each: this page and others

VARIABLES
    db,   \* server: the codes stored and the wrong guesses counted for each;
          \* ghosts: the codes issued and the guesses compared with each
    ui,   \* the page: step, address, "sent" and busy
    net   \* the call of each tab

Page == 1
Emails == {"known", "unknown"}

Init ==
    /\ db = [codes |-> {}, tries |-> [c \in Codes |-> 0], young |-> 0, issued |-> 0,
             guesses |-> [c \in Codes |-> 0]]
    /\ ui = [step |-> "email", email |-> "known", sent |-> FALSE, loading |-> FALSE]
    /\ net = Silent(Tabs)

\* The address may be edited after a code was sent for another.
TypeEmail(email) ==
    /\ ui.step = "email" /\ email # ui.email
    /\ ui' = [ui EXCEPT !.email = email]
    /\ UNCHANGED <<db, net>>

Code(email) == [op |-> "code", at |-> "sent", email |-> email, rec |-> 0]
Reset(email, guess) ==
    [op |-> "reset", at |-> "sent", email |-> email, guess |-> guess, rec |-> 0]

\* A code that may have been mailed, or a wrong one.
Guesses == 0..db.issued

SendCode ==
    /\ ui.step = "email" /\ ~ui.loading /\ net[Page] = NoCall
    /\ ui' = [ui EXCEPT !.loading = TRUE]
    /\ net' = [net EXCEPT ![Page] = Code(ui.email)]
    /\ UNCHANGED db

NextStep ==
    /\ ui.step = "email" /\ ui.sent
    /\ ui' = [ui EXCEPT !.step = "reset"]
    /\ UNCHANGED <<db, net>>

ResetPassword(guess) ==
    /\ ui.step = "reset" /\ ~ui.loading /\ net[Page] = NoCall
    /\ ui' = [ui EXCEPT !.loading = TRUE]
    /\ net' = [net EXCEPT ![Page] = Reset(ui.email, guess)]
    /\ UNCHANGED db

Elsewhere(i, guess) ==
    /\ i # Page /\ net[i] = NoCall
    /\ \E call \in {Code("known"), Reset("known", guess)} : net' = [net EXCEPT ![i] = call]
    /\ UNCHANGED <<db, ui>>

\* The page is opened again.
Back ==
    /\ net[Page] = NoCall /\ (ui.step # "email" \/ ui.sent)
    /\ ui' = [step |-> "email", email |-> ui.email, sent |-> FALSE, loading |-> FALSE]
    /\ UNCHANGED <<db, net>>

-----------------------------------------------------------------------------
Goes(i, op, from, to) ==
    /\ net[i].op = op /\ net[i].at = from
    /\ net' = [net EXCEPT ![i].at = to]
    /\ UNCHANGED ui

Newest == IF db.codes = {} THEN 0 ELSE CHOOSE c \in db.codes : \A d \in db.codes : d <= c

\* SendCode: the cooldown, and an address nobody registered...
CodeChecked(i) ==
    /\ Goes(i, "code", "sent",
            IF net[i].email = "unknown" THEN "done"
            ELSE IF Newest # 0 /\ Newest = db.young THEN "refused" ELSE "checked")
    /\ UNCHANGED db

\* ... the outstanding codes go ...
CodesWiped(i) ==
    /\ Goes(i, "code", "checked", "wiped")
    /\ db' = [db EXCEPT !.codes = {}]

\* ... the new one is stored, with a cooldown until it is no longer young ...
CodeStored(i) ==
    LET c == db.issued + 1 IN
    /\ c \in Codes
    /\ net[i].op = "code" /\ net[i].at = "wiped"
    /\ net' = [net EXCEPT ![i] = [@ EXCEPT !.at = "stored", !.rec = c]]
    /\ db' = [db EXCEPT !.issued = c, !.young = c, !.codes = @ \cup {c}]
    /\ UNCHANGED ui

\* ... and mailed, or taken back; no code is left to store at the bound.
CodeMailed(i) ==
    /\ Goes(i, "code", "stored", "done")
    /\ UNCHANGED db

CodeTakenBack(i) ==
    /\ \/ Goes(i, "code", "stored", "refused")
       \/ db.issued + 1 \notin Codes /\ Goes(i, "code", "wiped", "refused")
    /\ db' = [db EXCEPT !.codes = @ \ {net[i].rec}]

\* The minute of the cooldown is over; the five of a code are.
Cool == db.young # 0 /\ db' = [db EXCEPT !.young = 0] /\ UNCHANGED <<ui, net>>
Expire(c) == c \in db.codes /\ db' = [db EXCEPT !.codes = @ \ {c}] /\ UNCHANGED <<ui, net>>

\* Mutant: any outstanding code is good, however often it was guessed.
CodeReadUnlimited(i) ==
    LET known == net[i].email = "known" /\ Newest # 0 IN
    /\ net[i].op = "reset" /\ net[i].at = "sent"
    /\ net' = [net EXCEPT ![i] =
                  [@ EXCEPT !.at = IF known THEN "read" ELSE "refused", !.rec = Newest]]
    /\ UNCHANGED <<db, ui>>

\* ResetPassword reads the newest code; one guessed too often is deleted.
CodeRead(i) ==
    LET known == net[i].email = "known" /\ Newest # 0
        spent == known /\ db.tries[Newest] >= MaxAttempts
    IN
    /\ net[i].op = "reset" /\ net[i].at = "sent"
    /\ net' = [net EXCEPT ![i] =
                  [@ EXCEPT !.at = IF known /\ ~spent THEN "read" ELSE "refused", !.rec = Newest]]
    /\ db' = IF spent THEN [db EXCEPT !.codes = @ \ {Newest}] ELSE db
    /\ UNCHANGED ui

\* The hash is compared; a wrong guess is counted in a statement of its own.
Compared(i) ==
    LET c == net[i].rec  right == net[i].guess = c IN
    /\ Goes(i, "reset", "read", IF right THEN "matched" ELSE "refused")
    /\ db' = [db EXCEPT !.guesses[c] = @ + 1,
                        !.tries[c] = IF right \/ c \notin db.codes THEN @ ELSE @ + 1]

\* A right one: every code goes, then the password is set.
ResetDone(i) ==
    /\ Goes(i, "reset", "matched", "done")
    /\ db' = [db EXCEPT !.codes = {}]

\* The answer; the page goes to the sign-in page, or shows an error.
Answered(i, arrived) ==
    LET ok == arrived /\ net[i].at = "done" IN
    /\ net[i] # NoCall
    /\ arrived => net[i].at \in {"done", "refused"}
    /\ net[i].at \in {"sent", "done", "refused"}
    /\ net' = Ended(net, i)
    /\ ui' = IF i # Page THEN ui
             ELSE [ui EXCEPT !.loading = FALSE, !.sent = @ \/ (ok /\ net[i].op = "code"),
                             !.step = IF ok /\ net[i].op = "reset" THEN "left" ELSE @]
    /\ UNCHANGED db

Next ==
    \/ SendCode \/ NextStep \/ Back \/ Cool
    \/ \E email \in Emails : TypeEmail(email)
    \/ \E guess \in Guesses : ResetPassword(guess)
    \/ \E c \in Codes : Expire(c)
    \/ \E i \in Tabs :
          \/ \E guess \in Guesses : Elsewhere(i, guess)
          \/ CodeChecked(i) \/ CodesWiped(i) \/ CodeStored(i) \/ CodeMailed(i) \/ CodeTakenBack(i)
          \/ CodeRead(i) \/ Compared(i) \/ ResetDone(i)
          \/ Answered(i, TRUE) \/ Answered(i, FALSE)

-----------------------------------------------------------------------------
Bound == MaxAttempts - 1 + Cardinality(Tabs)

ServerType ==
    [codes : SUBSET Codes, tries : [Codes -> 0..Bound], young : Codes \cup {0},
     issued : Codes \cup {0}, guesses : [Codes -> Nat]]
PageType ==
    [step : {"email", "reset", "left"}, email : Emails, sent : BOOLEAN, loading : BOOLEAN]
CallType ==
    {NoCall}
    \cup [op : {"code"}, at : {"sent", "checked", "wiped", "stored", "done", "refused"},
          email : Emails, rec : Codes \cup {0}]
    \cup [op : {"reset"}, at : {"sent", "read", "matched", "done", "refused"}, email : Emails,
          guess : Nat, rec : Codes \cup {0}]

TypeOK == db \in ServerType /\ ui \in PageType /\ net \in [Tabs -> CallType]

\* No code is ever compared with more guesses than the attempts it is allowed
\* and one more for each other call that had read it before the count moved,
\* whatever is requested, expires or is reset in between.
GuessesBounded == \A c \in Codes : db.guesses[c] <= Bound
=============================================================================
