---------------------------- MODULE ChannelsPage ----------------------------
(***************************************************************************)
(* The channel administration (pages/Channels.tsx) over the server's       *)
(* channel table: a list loaded as a whole, a switch and a delete button   *)
(* per row, and one dialog that creates or edits.  An edit sends the whole *)
(* row, except what is blank: the upstream key is never sent to the        *)
(* browser, so a blank field means "keep it".                              *)
(***************************************************************************)
EXTENDS Calls

CONSTANTS
    Channels,      \* channel ids
    ChannelSlots   \* bound: calls in flight

VARIABLES db, ui, net

NoRow == [key |-> "none", base |-> "", status |-> "none"]
Bases == {"", "relay"}       \* base_url: blank is the official endpoint
Keys == {"", "secret"}
Statuses == {"active", "disabled"}
Rows == [key : Keys, base : Bases, status : Statuses]
NoList == [c \in Channels |-> NoRow]

Listed(list) == {c \in Channels : list[c] # NoRow}
Other(status) == IF status = "active" THEN "disabled" ELSE "active"

Closed == [open |-> FALSE, editing |-> 0]
\* load(), awaited by a save or a switch, whose busy flag it ends, or by none.
Load(by) == [op |-> "load", at |-> "sent", by |-> by, list |-> NoList]

\* Starts a handler.  raced (a ghost): handlers overlapped, a call failed or
\* somebody else wrote, so the list need not be the table any more.
Send(c) ==
    /\ HasRoom(net)
    /\ net' = Sent(net, c)
    /\ ui' = [ui EXCEPT !.raced = @ \/ ~Settled(net)]
    /\ UNCHANGED db

Init ==
    /\ db \in [Channels -> {NoRow, [key |-> "secret", base |-> "relay", status |-> "active"]}]
    /\ ui = [list |-> NoList, loading |-> TRUE, saving |-> FALSE, busy |-> 0,
             dialog |-> Closed, deleting |-> 0, raced |-> FALSE]
    /\ net = Sent(Silent(ChannelSlots), Load("none"))

Refresh ==
    /\ HasRoom(net)
    /\ net' = Sent(net, Load("none"))
    /\ ui' = [ui EXCEPT !.loading = TRUE, !.raced = @ \/ ~Settled(net)]
    /\ UNCHANGED db

Covered == ui.dialog.open \/ ui.deleting # 0

OpenCreate ==
    /\ ~Covered
    /\ ui' = [ui EXCEPT !.dialog = [open |-> TRUE, editing |-> 0]]
    /\ UNCHANGED <<db, net>>

\* The rows are drawn while no load is under way.
OpenEdit(c) ==
    /\ ~Covered /\ ~ui.loading /\ c \in Listed(ui.list)
    /\ ui' = [ui EXCEPT !.dialog = [open |-> TRUE, editing |-> c]]
    /\ UNCHANGED <<db, net>>

CloseDialog ==
    /\ ui.dialog.open
    /\ ui' = [ui EXCEPT !.dialog = Closed]
    /\ UNCHANGED <<db, net>>

Valid(d, form) == d.editing # 0 \/ form.key # ""

\* submit(), with whatever the form holds by now.
Submit(form) ==
    /\ ui.dialog.open /\ ~ui.saving /\ Valid(ui.dialog, form)
    /\ HasRoom(net)
    /\ net' = Sent(net, [op |-> "save", at |-> "sent", id |-> ui.dialog.editing,
                         row |-> form])
    /\ ui' = [ui EXCEPT !.saving = TRUE, !.raced = @ \/ ~Settled(net)]
    /\ UNCHANGED db

Toggle(c) ==
    /\ ~Covered /\ ~ui.loading /\ c \in Listed(ui.list) /\ ui.busy # c
    /\ HasRoom(net)
    /\ net' = Sent(net, [op |-> "toggle", at |-> "sent", id |-> c,
                         status |-> Other(ui.list[c].status)])
    /\ ui' = [ui EXCEPT !.busy = c, !.raced = @ \/ ~Settled(net)]
    /\ UNCHANGED db

AskDelete(c) ==
    /\ ~Covered /\ ~ui.loading /\ c \in Listed(ui.list)
    /\ ui' = [ui EXCEPT !.deleting = c]
    /\ UNCHANGED <<db, net>>

KeepChannel ==
    /\ ui.deleting # 0
    /\ ui' = [ui EXCEPT !.deleting = 0]
    /\ UNCHANGED <<db, net>>

\* The button has no busy flag: it may be pressed again before the answer.
ConfirmDelete ==
    /\ ui.deleting # 0
    /\ Send([op |-> "delete", at |-> "sent", id |-> ui.deleting])

-----------------------------------------------------------------------------
Serve(i, table) ==
    /\ db' = table
    /\ net' = [net EXCEPT ![i].at = "done"]
    /\ UNCHANGED ui

ServeLoad(i) ==
    /\ IsSent(net, i, "load")
    /\ net' = [net EXCEPT ![i] = [@ EXCEPT !.at = "done", !.list = db]]
    /\ UNCHANGED <<db, ui>>

\* ChannelHandler.Create refuses a channel without a key.
ServeCreate(i) ==
    /\ IsSent(net, i, "save") /\ net[i].id = 0 /\ net[i].row.key # ""
    /\ \E c \in Channels \ Listed(db) : Serve(i, [db EXCEPT ![c] = net[i].row])

\* Mutant: Update writes the key it was given, blank or not.
ServeUpdateWhole(i) ==
    /\ IsSent(net, i, "save") /\ net[i].id \in Listed(db)
    /\ Serve(i, [db EXCEPT ![net[i].id] = net[i].row])

\* ChannelHandler.Update writes the fields that are not blank.
ServeUpdate(i) ==
    LET c == net[i].id  new == net[i].row IN
    /\ IsSent(net, i, "save") /\ c \in Listed(db)
    /\ Serve(i, [db EXCEPT ![c] =
                    [key |-> IF new.key = "" THEN @.key ELSE new.key,
                     base |-> IF new.base = "" THEN @.base ELSE new.base,
                     status |-> new.status]])

ServeToggle(i) ==
    /\ IsSent(net, i, "toggle") /\ net[i].id \in Listed(db)
    /\ Serve(i, [db EXCEPT ![net[i].id].status = net[i].status])

ServeDelete(i) ==
    /\ IsSent(net, i, "delete") /\ net[i].id \in Listed(db)
    /\ Serve(i, [db EXCEPT ![net[i].id] = NoRow])

\* Another administrator switches a channel.
Outside(c) ==
    /\ c \in Listed(db)
    /\ db' = [db EXCEPT ![c].status = Other(@)]
    /\ ui' = [ui EXCEPT !.raced = TRUE]
    /\ UNCHANGED net

\* The list drawn is that of the load that ended last.
ListAfter(i, list, failed) ==
    /\ net' = Ended(net, i)
    /\ ui' = [ui EXCEPT !.list = list, !.loading = FALSE,
                        !.saving = @ /\ net[i].by # "save",
                        !.busy = IF net[i].by = "toggle" THEN 0 ELSE @,
                        !.raced = @ \/ failed]
    /\ UNCHANGED db

Loaded(i) == IsDone(net, i, "load") /\ ListAfter(i, net[i].list, FALSE)

LoadFailed(i) == MayFail(net, i, "load") /\ ListAfter(i, NoList, TRUE)

\* A write that succeeded closes its dialog, whichever is open, and reloads.
Reloads(i, by, state) ==
    /\ ui' = [state EXCEPT !.loading = TRUE]
    /\ net' = [net EXCEPT ![i] = Load(by)]
    /\ UNCHANGED db

Saved(i) == IsDone(net, i, "save") /\ Reloads(i, "save", [ui EXCEPT !.dialog = Closed])
Toggled(i) == IsDone(net, i, "toggle") /\ Reloads(i, "toggle", ui)

\* Mutant: confirmDelete does not load the list again.
DeletedOnly(i) ==
    /\ IsDone(net, i, "delete")
    /\ ui' = [ui EXCEPT !.deleting = 0]
    /\ net' = Ended(net, i)
    /\ UNCHANGED db

Deleted(i) == IsDone(net, i, "delete") /\ Reloads(i, "none", [ui EXCEPT !.deleting = 0])

WriteFailed(i) ==
    /\ \E op \in {"save", "toggle", "delete"} : MayFail(net, i, op)
    /\ net' = Ended(net, i)
    /\ ui' = [ui EXCEPT !.raced = TRUE,
                        !.saving = @ /\ net[i].op # "save",
                        !.busy = IF net[i].op = "toggle" THEN 0 ELSE @]
    /\ UNCHANGED db

Next ==
    \/ Refresh \/ OpenCreate \/ CloseDialog \/ KeepChannel \/ ConfirmDelete
    \/ \E c \in Channels : OpenEdit(c) \/ Toggle(c) \/ AskDelete(c) \/ Outside(c)
    \/ \E form \in Rows : Submit(form)
    \/ \E i \in ChannelSlots :
          \/ ServeLoad(i) \/ ServeCreate(i) \/ ServeUpdate(i) \/ ServeToggle(i) \/ ServeDelete(i)
          \/ Loaded(i) \/ LoadFailed(i) \/ Saved(i) \/ Toggled(i) \/ Deleted(i) \/ WriteFailed(i)

-----------------------------------------------------------------------------
Table == [Channels -> Rows \cup {NoRow}]
PageType ==
    [list : Table, loading : BOOLEAN, saving : BOOLEAN, busy : Channels \cup {0},
     dialog : {Closed} \cup [open : {TRUE}, editing : Channels \cup {0}],
     deleting : Channels \cup {0}, raced : BOOLEAN]
CallType ==
    {NoCall}
    \cup [op : {"load"}, at : Stages, by : {"none", "save", "toggle"}, list : Table]
    \cup [op : {"save"}, at : Stages, id : Channels \cup {0}, row : Rows]
    \cup [op : {"toggle"}, at : Stages, id : Channels, status : Statuses]
    \cup [op : {"delete"}, at : Stages, id : Channels]

TypeOK == db \in Table /\ ui \in PageType /\ net \in [ChannelSlots -> CallType]

\* No channel ever loses its upstream key: the form an edit sends starts with
\* a blank key, because the key is never shown, and blank means unchanged.
KeepsUpstreamKey == \A c \in Listed(db) : db[c].key # ""

\* At rest, and unless handlers overlapped, a call failed or somebody else
\* wrote, the list shown is the table: every handler that writes loads again.
ListSettles == Settled(net) /\ ~ui.raced => ui.list = db
=============================================================================
