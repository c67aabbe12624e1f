----------------------------- MODULE SetupWizard ----------------------------
(***************************************************************************)
(* First-run installation: the gates of App.tsx that ask the server        *)
(* whether an administrator exists, the wizard behind them                 *)
(* (pages/Setup.tsx), and the server's SetupHandler.  Several browser tabs *)
(* may be open; each has one call in flight at most, beside a mail test.   *)
(***************************************************************************)
EXTENDS Naturals

CONSTANTS Tabs

VARIABLES
    db,   \* server: the administrators, and whether there is a database
    ui,   \* per tab: gate, route, wizard step, the steps filled in correctly,
          \* and the flags of the two buttons
    net   \* per tab: the call in flight

vars == <<db, ui, net>>

Steps == 0..3
\* The steps with input to check: account, mail, passkeys.  A step whose
\* feature is switched off counts as filled in.
Checked == 0..2

Gates == {"loading", "needed", "done", "error"}
\* /setup is behind BlockSetupWhenDone, every other public page, the sign-in
\* page among them, behind SetupGate.
Routes == {"setup", "site"}

NoCall == [op |-> "none", at |-> "none", good |-> Checked]
Asks == [op |-> "status", at |-> "sent", good |-> Checked]

\* The gate of a route is mounted: it asks, and the wizard behind it is blank.
Mounted(route) ==
    [gate |-> "loading", route |-> route, step |-> 0, good |-> {1, 2},
     submitting |-> FALSE, testing |-> FALSE]

Init ==
    /\ db \in [admins : {0, 1}, up : BOOLEAN]
    /\ \E route \in Routes : ui = [t \in Tabs |-> Mounted(route)]
    /\ net = [t \in Tabs |-> Asks]

\* The page is loaded, or its error screen retried.
Reload(t) ==
    /\ ui[t].gate # "loading"
    /\ ui' = [ui EXCEPT ![t] = Mounted(@.route)]
    /\ net' = [net EXCEPT ![t] = Asks]
    /\ UNCHANGED db

-----------------------------------------------------------------------------
\* SetupHandler.needed(); a count that fails reads as zero.
Needed == db.up /\ db.admins = 0

ServeStatus(t, counted) ==
    /\ net[t].op = "status" /\ net[t].at = "sent"
    /\ net' = [net EXCEPT ![t].at = IF Needed \/ (db.up /\ ~counted) THEN "needed" ELSE "done"]
    /\ UNCHANGED db /\ UNCHANGED ui

\* Mutant: a failed status check is treated as "setup complete".
StatusAnsweredOpen(t, arrived) ==
    /\ net[t].op = "status"
    /\ arrived => net[t].at # "sent"
    /\ net' = [net EXCEPT ![t] = NoCall]
    /\ ui' = [ui EXCEPT ![t].gate = IF arrived THEN net[t].at ELSE "done"]
    /\ UNCHANGED db

\* useSetupStatus()
StatusAnswered(t, arrived) ==
    /\ net[t].op = "status"
    /\ arrived => net[t].at # "sent"
    /\ net' = [net EXCEPT ![t] = NoCall]
    /\ ui' = [ui EXCEPT ![t].gate = IF arrived THEN net[t].at ELSE "error"]
    /\ UNCHANGED db

\* SetupGate sends to the wizard, BlockSetupWhenDone to the sign-in page, and
\* the gate there asks again.
Redirect(t) ==
    /\ \/ ui[t].route = "site" /\ ui[t].gate = "needed"
       \/ ui[t].route = "setup" /\ ui[t].gate = "done"
    /\ ui' = [ui EXCEPT ![t] = Mounted(IF @.route = "site" THEN "setup" ELSE "site")]
    /\ net' = [net EXCEPT ![t] = Asks]
    /\ UNCHANGED db

Wizard(t) == ui[t].route = "setup" /\ ui[t].gate = "needed"
Site(t) == ui[t].route = "site" /\ ui[t].gate = "done"

-----------------------------------------------------------------------------
\* Typing, or a switch, makes the input of the step shown correct or not.
Edit(t) ==
    LET s == ui[t].step IN
    /\ Wizard(t) /\ s \in Checked
    /\ ui' = [ui EXCEPT ![t].good = IF s \in @ THEN @ \ {s} ELSE @ \cup {s}]
    /\ UNCHANGED db /\ UNCHANGED net

\* Mutant: only the account is looked at.
NextAccountOnly(t) ==
    /\ Wizard(t) /\ ui[t].step < 3
    /\ ui[t].step = 0 => 0 \in ui[t].good
    /\ ui' = [ui EXCEPT ![t].step = @ + 1]
    /\ UNCHANGED db /\ UNCHANGED net

\* next(): what is wrong is an error, and the wizard stays.
NextStep(t) ==
    /\ Wizard(t) /\ ui[t].step < 3
    /\ ui[t].step \in ui[t].good
    /\ ui' = [ui EXCEPT ![t].step = @ + 1]
    /\ UNCHANGED db /\ UNCHANGED net

\* Back is never disabled, not even while Finish is under way.
BackStep(t) ==
    /\ Wizard(t) /\ ui[t].step > 0
    /\ ui' = [ui EXCEPT ![t].step = @ - 1]
    /\ UNCHANGED db /\ UNCHANGED net

\* testSMTP(), with the mail settings as they are, and its end.
TestSMTP(t) ==
    /\ Wizard(t) /\ ui[t].step = 1 /\ 1 \in ui[t].good /\ ~ui[t].testing
    /\ ui' = [ui EXCEPT ![t].testing = TRUE]
    /\ UNCHANGED db /\ UNCHANGED net

TestEnds(t) ==
    /\ ui[t].testing
    /\ ui' = [ui EXCEPT ![t].testing = FALSE]
    /\ UNCHANGED db /\ UNCHANGED net

\* complete(): the whole form goes, as it is now.
Complete(t) ==
    /\ Wizard(t) /\ ui[t].step = 3 /\ ~ui[t].submitting
    /\ net' = [net EXCEPT ![t] = [op |-> "complete", at |-> "sent", good |-> ui[t].good]]
    /\ ui' = [ui EXCEPT ![t].submitting = TRUE]
    /\ UNCHANGED db

-----------------------------------------------------------------------------
\* SetupHandler.Complete: it is refused when there is an administrator, and
\* when the server's own checks find something...
Refuse(t) ==
    /\ net[t].op = "complete" /\ net[t].at = "sent"
    /\ net' = [net EXCEPT ![t].at = "refused"]
    /\ UNCHANGED db /\ UNCHANGED ui

PassChecks(t) ==
    /\ net[t].op = "complete" /\ net[t].at = "sent" /\ Needed
    /\ net' = [net EXCEPT ![t].at = "hashing"]
    /\ UNCHANGED db /\ UNCHANGED ui

\* ... hashing the password takes a while, and nothing is looked at again ...
CreateAdmin(t) ==
    /\ net[t].op = "complete" /\ net[t].at = "hashing"
    /\ db' = [db EXCEPT !.admins = @ + 1]
    /\ net' = [net EXCEPT ![t].at = "created"]
    /\ UNCHANGED ui

\* ... and each setting is written in turn: one may fail with the account
\* already there.
StoreSettings(t, stored) ==
    /\ net[t].op = "complete" /\ net[t].at = "created"
    /\ net' = [net EXCEPT ![t].at = IF stored THEN "done" ELSE "refused"]
    /\ UNCHANGED db /\ UNCHANGED ui

\* The sign-in page opens, and its gate asks whether the setup is needed.
Completed(t) ==
    /\ net[t].op = "complete" /\ net[t].at = "done"
    /\ ui' = [ui EXCEPT ![t] = Mounted("site")]
    /\ net' = [net EXCEPT ![t] = Asks]
    /\ UNCHANGED db

\* Refused, unreachable, or the answer lost: the form stays as it is.
NotCompleted(t) ==
    /\ net[t].op = "complete"
    /\ ui' = [ui EXCEPT ![t].submitting = FALSE]
    /\ net' = [net EXCEPT ![t] = NoCall]
    /\ UNCHANGED db

\* A call the tab gave up goes on at the server: an administrator appears.
Elsewhere ==
    /\ Needed
    /\ db' = [db EXCEPT !.admins = 1]
    /\ UNCHANGED ui /\ UNCHANGED net

Next ==
    \/ Elsewhere
    \/ \E t \in Tabs :
          \/ Reload(t) \/ Redirect(t) \/ Edit(t) \/ NextStep(t) \/ BackStep(t)
          \/ TestSMTP(t) \/ TestEnds(t) \/ Complete(t)
          \/ Refuse(t) \/ PassChecks(t) \/ CreateAdmin(t) \/ Completed(t) \/ NotCompleted(t)
          \/ \E yes \in BOOLEAN :
                ServeStatus(t, yes) \/ StatusAnswered(t, yes) \/ StoreSettings(t, yes)

Spec == Init /\ [][Next]_vars

-----------------------------------------------------------------------------
Stages == {"none", "sent", "needed", "done", "refused", "hashing", "created"}

SetupTypeOK ==
    /\ db \in [admins : Nat, up : BOOLEAN]
    /\ ui \in [Tabs -> [gate : Gates, route : Routes, step : Steps, good : SUBSET Checked,
                        submitting : BOOLEAN, testing : BOOLEAN]]
    /\ net \in [Tabs -> [op : {"none", "status", "complete"}, at : Stages, good : SUBSET Checked]]
    /\ \A t \in Tabs : net[t].op = "status" => net[t].at \in {"sent", "needed", "done"}

\* No tab ever shows the sign-in page, or any page of the site, of an instance
\* without an administrator: "a fresh instance can bypass the wizard into a
\* broken login" is what App.tsx guards against, through failed checks,
\* reloads, and other tabs that install meanwhile.  Without a database there
\* is nothing to install into.
LoginImpliesSetup == \A t \in Tabs : Site(t) => db.admins > 0 \/ ~db.up

\* Whatever was edited, walked back or failed before, the form that Finish
\* sends is correct in every step: the server's refusals are not the first
\* to look at a step the wizard has left behind.
OnlyValidSubmitted == \A t \in Tabs : net[t].op = "complete" => net[t].good = Checked
=============================================================================
