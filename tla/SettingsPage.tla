---------------------------- MODULE SettingsPage ----------------------------
(***************************************************************************)
(* The system settings (pages/Settings.tsx): one form over everything, one *)
(* Save that sends it whole and then reads it back.  Three fields stand    *)
(* for the kinds there are: `host` for the mail settings, sent only when   *)
(* the host is filled in, `rp` for the passkey settings, which the server  *)
(* may refuse, and `plaza` for a switch.  The mail password is write-only. *)
(***************************************************************************)
EXTENDS Calls

VARIABLES db, ui, net

Forms == [host : {"", "mail"}, rp : {"", "site"}, plaza : BOOLEAN]
NoForm == [host |-> "none", rp |-> "none", plaza |-> FALSE]
Passwords == {"", "new"}

\* What GET /api/admin/settings tells of what is stored.
Public(stored) == [host |-> stored.host, rp |-> stored.rp, plaza |-> stored.plaza]

Fetch(by) == [op |-> "get", at |-> "sent", by |-> by, form |-> NoForm]

\* edited, raced and asked are ghosts: the form was changed since Save was
\* pressed, somebody else saved, and the password Save was pressed with.
Init ==
    /\ db \in [host : {"", "mail"}, rp : {"site"}, plaza : BOOLEAN, password : {"old"}]
    /\ ui = [form |-> NoForm, failed |-> FALSE, password |-> "", saving |-> FALSE,
             saved |-> FALSE, edited |-> FALSE, raced |-> FALSE, asked |-> ""]
    /\ net = Sent(Silent({1}), Fetch("load"))

Ready == ui.form # NoForm

\* The button of the error screen.
Reload ==
    /\ ~Ready /\ ui.failed /\ HasRoom(net)
    /\ ui' = [ui EXCEPT !.failed = FALSE]
    /\ net' = Sent(net, Fetch("load"))
    /\ UNCHANGED db

\* Every input stays enabled while a save is under way.
Edit(form, password) ==
    /\ Ready
    /\ <<form, password>> # <<ui.form, ui.password>>
    /\ ui' = [ui EXCEPT !.form = form, !.password = password, !.edited = TRUE]
    /\ UNCHANGED <<db, net>>

Save ==
    /\ Ready /\ ~ui.saving /\ HasRoom(net)
    /\ net' = Sent(net, [op |-> "put", at |-> "sent", form |-> ui.form, password |-> ui.password])
    /\ ui' = [ui EXCEPT !.saving = TRUE, !.saved = FALSE, !.edited = FALSE, !.raced = FALSE,
                        !.asked = IF ui.form.host = "" THEN "" ELSE ui.password]
    /\ UNCHANGED db

-----------------------------------------------------------------------------
ServeGet ==
    /\ IsSent(net, 1, "get")
    /\ net' = [net EXCEPT ![1] = [@ EXCEPT !.at = "done", !.form = Public(db)]]
    /\ UNCHANGED <<db, ui>>

\* The mail settings, when sent; a blank password keeps the stored one.
MailFrom(c, stored) ==
    IF c.form.host = "" THEN stored
    ELSE [stored EXCEPT !.host = c.form.host, !.password = IF c.password = "" THEN @ ELSE c.password]

\* SettingsHandler.Update: mail, then passkeys, then the switch, each checked
\* and written before the next is looked at.
ServePut ==
    LET c == net[1] IN
    /\ IsSent(net, 1, "put") /\ c.form.rp # ""
    /\ db' = [MailFrom(c, db) EXCEPT !.rp = c.form.rp, !.plaza = c.form.plaza]
    /\ net' = [net EXCEPT ![1].at = "done"]
    /\ UNCHANGED ui

\* Passkey settings it does not accept are found when the mail is written.
RefusePut ==
    /\ IsSent(net, 1, "put") /\ net[1].form.rp = ""
    /\ db' = MailFrom(net[1], db)
    /\ net' = [net EXCEPT ![1].at = "refused"]
    /\ UNCHANGED ui

\* Another administrator saves.
Outside(plaza) ==
    /\ plaza # db.plaza
    /\ db' = [db EXCEPT !.plaza = plaza]
    /\ ui' = [ui EXCEPT !.raced = TRUE]
    /\ UNCHANGED net

Loaded(answered) ==
    /\ net[1].op = "get" /\ net[1].by = "load"
    /\ answered => IsDone(net, 1, "get")
    /\ ui' = [ui EXCEPT !.form = IF answered THEN net[1].form ELSE NoForm, !.failed = ~answered]
    /\ net' = Ended(net, 1)
    /\ UNCHANGED db

\* Mutant: a save shows its form as the truth instead of reading it back.
PutDoneAlone ==
    /\ IsDone(net, 1, "put")
    /\ ui' = [ui EXCEPT !.saved = TRUE, !.password = "", !.saving = FALSE]
    /\ net' = Ended(net, 1)
    /\ UNCHANGED db

\* "Saved"; the password field, whatever it holds by now, is cleared.
PutDone ==
    /\ IsDone(net, 1, "put")
    /\ ui' = [ui EXCEPT !.saved = TRUE, !.password = ""]
    /\ net' = [net EXCEPT ![1] = Fetch("save")]
    /\ UNCHANGED db

\* What was read replaces the form, and whatever was typed meanwhile.
Refreshed ==
    /\ IsDone(net, 1, "get") /\ net[1].by = "save"
    /\ ui' = [ui EXCEPT !.form = net[1].form, !.saving = FALSE]
    /\ net' = Ended(net, 1)
    /\ UNCHANGED db

\* An error of either call of a save; "Saved" stays beside it when it was the
\* second, which the ghost edited records.
SaveFailed ==
    /\ net[1].op = "put" \/ (net[1].op = "get" /\ net[1].by = "save")
    /\ ui' = [ui EXCEPT !.saving = FALSE, !.edited = TRUE]
    /\ net' = Ended(net, 1)
    /\ UNCHANGED db

Next ==
    \/ Reload \/ Save \/ \E form \in Forms, password \in Passwords : Edit(form, password)
    \/ ServeGet \/ ServePut \/ RefusePut \/ \E plaza \in BOOLEAN : Outside(plaza)
    \/ \E answered \in BOOLEAN : Loaded(answered)
    \/ PutDone \/ Refreshed \/ SaveFailed

-----------------------------------------------------------------------------
ServerType == [host : {"", "mail"}, rp : {"site"}, plaza : BOOLEAN, password : {"old", "new"}]
PageType ==
    [form : Forms \cup {NoForm}, failed : BOOLEAN, password : Passwords, saving : BOOLEAN,
     saved : BOOLEAN, edited : BOOLEAN, raced : BOOLEAN, asked : Passwords]
CallType ==
    {NoCall}
    \cup [op : {"get"}, at : Stages, by : {"load", "save"}, form : Forms \cup {NoForm}]
    \cup [op : {"put"}, at : Stages \cup {"refused"}, form : Forms, password : Passwords]

TypeOK == db \in ServerType /\ ui \in PageType /\ net \in [{1} -> CallType]

\* When the page says "Saved" and nothing was typed, failed or saved by
\* another since, what it shows is what the server stores, even for the parts
\* a save leaves out, and a password typed for it is the one in force.
SavedIsStored ==
    ui.saved /\ ~ui.saving /\ ~ui.edited /\ ~ui.raced =>
        ui.form = Public(db) /\ (ui.asked # "" => db.password = ui.asked)
=============================================================================
