----------------------------- MODULE UsersPage ------------------------------
(***************************************************************************)
(* The administrators' user list (pages/users): a searched and paged list, *)
(* row buttons that write at once, and dialogs that write on Confirm.      *)
(* The list is a copy; every handler refreshes it with the search and the  *)
(* page of the render it was created in.                                   *)
(***************************************************************************)
EXTENDS Calls

CONSTANTS
    Ids,          \* users that may exist, numbers in the order of the list
    UserSlots,    \* bound: calls in flight
    LastPage      \* bound: the pages the buttons reach

VARIABLES
    db,   \* server: the users that exist
    ui,   \* the page's state
    net   \* its calls in flight

Closed == [kind |-> "none", user |-> 0]
NoRows == [users |-> {}, page |-> 0]

\* GET /api/admin/users?q=&page=, with one row a page, whatever is searched.
Slice(p) == {u \in db : Cardinality({v \in db : v <= u}) = p}

\* load(q, p), for a row button that waits for it, or 0.
LoadCall(p, row) ==
    [op |-> "load", at |-> "sent", p |-> p, row |-> row, rows |-> NoRows, total |-> 0]

Init ==
    /\ db \in {s \in SUBSET Ids : Cardinality(s) >= 2}
    /\ ui = [rows |-> NoRows, page |-> 1, total |-> 0, rowBusy |-> 0,
             dialog |-> Closed, busy |-> FALSE]
    /\ net = Sent(Silent(UserSlots), LoadCall(1, 0))

\* The header's button, a search, and the paging buttons: the label moves at
\* once and the rows follow when they arrive.
LoadPage(p) ==
    /\ HasRoom(net)
    /\ net' = Sent(net, LoadCall(p, 0))
    /\ ui' = [ui EXCEPT !.page = p]
    /\ UNCHANGED db

Refresh == LoadPage(ui.page)
Search == LoadPage(1)
\* Mutant: the arrow is not disabled on the first page.
PreviousAnyway == LoadPage(ui.page - 1)
Previous == ui.page > 1 /\ LoadPage(ui.page - 1)
Following == ui.page < ui.total /\ ui.page < LastPage /\ LoadPage(ui.page + 1)

\* The role, or the status or group, of a row (act): the row is busy until the answer,
\* for status and group until the list is back too.
RowWrite(u, what) ==
    /\ u \in ui.rows.users /\ ui.rowBusy # u
    /\ HasRoom(net)
    /\ net' = Sent(net, [op |-> "row", at |-> "sent", user |-> u, what |-> what,
                         p |-> ui.page])
    /\ ui' = [ui EXCEPT !.rowBusy = u]
    /\ UNCHANGED db

\* Mutant: the reset effect clears the busy flag as well.
OpenDialogIdle(kind, u) ==
    /\ ui.dialog = Closed
    /\ (kind = "create") <=> (u = 0)
    /\ u \in ui.rows.users \cup {0}
    /\ ui' = [ui EXCEPT !.dialog = [kind |-> kind, user |-> u], !.busy = FALSE]
    /\ UNCHANGED <<db, net>>

\* The reset effect of UserDialogs leaves the busy flag alone.
OpenDialog(kind, u) ==
    /\ ui.dialog = Closed
    /\ (kind = "create") <=> (u = 0)
    /\ u \in ui.rows.users \cup {0}
    /\ ui' = [ui EXCEPT !.dialog = [kind |-> kind, user |-> u]]
    /\ UNCHANGED <<db, net>>

\* The cross closes the dialog even while its call is in flight; the backdrop
\* and Cancel wait for it.
CloseDialog ==
    /\ ui.dialog # Closed
    /\ ui' = [ui EXCEPT !.dialog = Closed]
    /\ UNCHANGED <<db, net>>

\* Confirm.  A name, password or quota the console itself turns down only
\* shows an error, and changes nothing else.
Submit ==
    /\ ui.dialog # Closed /\ ~ui.busy
    /\ HasRoom(net)
    /\ net' = Sent(net, [op |-> "dialog", at |-> "sent", kind |-> ui.dialog.kind,
                         user |-> ui.dialog.user, p |-> ui.page])
    /\ ui' = [ui EXCEPT !.busy = TRUE]
    /\ UNCHANGED db

-----------------------------------------------------------------------------
\* The server answers a load with the page asked for.
ServeLoad(i) ==
    LET c == net[i] IN
    /\ IsSent(net, i, "load")
    /\ net' = [net EXCEPT ![i] = [@ EXCEPT !.at = "done", !.total = Cardinality(db),
                                           !.rows = [users |-> Slice(c.p), page |-> c.p]]]
    /\ UNCHANGED <<db, ui>>

ServeRow(i) ==
    /\ IsSent(net, i, "row")
    /\ net' = [net EXCEPT ![i].at = "done"]
    /\ UNCHANGED <<db, ui>>

ServeDialog(i) ==
    /\ IsSent(net, i, "dialog")
    /\ CASE net[i].kind = "create" -> \E u \in Ids \ db : db' = db \cup {u}
         [] net[i].kind = "delete" -> db' = db \ {net[i].user}
         [] OTHER -> UNCHANGED db
    /\ net' = [net EXCEPT ![i].at = "done"]
    /\ UNCHANGED ui

\* Mutant: load keeps the page label the buttons have set.
LoadedKeepLabel(i) ==
    /\ IsDone(net, i, "load")
    /\ ui' = [ui EXCEPT !.rows = net[i].rows, !.total = net[i].total]
    /\ net' = Ended(net, i)
    /\ UNCHANGED db

\* Whose row is still busy after a load that a row button waited for, or not.
StillBusy(c) == IF c.row = 0 THEN ui.rowBusy ELSE 0

\* load(): the rows and the label are those of the answer that came last.
Loaded(i) ==
    LET c == net[i] IN
    /\ IsDone(net, i, "load")
    /\ ui' = [ui EXCEPT !.rows = c.rows, !.page = c.p, !.total = c.total, !.rowBusy = StillBusy(c)]
    /\ net' = Ended(net, i)
    /\ UNCHANGED db

LoadFailed(i) ==
    /\ MayFail(net, i, "load")
    /\ ui' = [ui EXCEPT !.rows = NoRows, !.rowBusy = StillBusy(net[i])]
    /\ net' = Ended(net, i)
    /\ UNCHANGED db

\* act(): a role closes whatever dialog is open and does not wait for the
\* list; the others stay busy until the list is back.
RowWritten(i) ==
    LET c == net[i]  role == c.what = "role" IN
    /\ IsDone(net, i, "row")
    /\ net' = [net EXCEPT ![i] = LoadCall(c.p, IF role THEN 0 ELSE c.user)]
    /\ ui' = IF role THEN [ui EXCEPT !.dialog = Closed, !.rowBusy = 0] ELSE ui
    /\ UNCHANGED db

RowFailed(i) ==
    /\ MayFail(net, i, "row")
    /\ net' = Ended(net, i)
    /\ ui' = [ui EXCEPT !.rowBusy = 0]
    /\ UNCHANGED db

\* submit() ends: it closes the dialog that is open now, which may not be the
\* one it was pressed in.  A failure leaves it open, with the error.
DialogWritten(i) ==
    LET c == net[i] IN
    /\ IsDone(net, i, "dialog")
    /\ net' = [net EXCEPT ![i] = LoadCall(c.p, 0)]
    /\ ui' = [ui EXCEPT !.dialog = Closed, !.busy = FALSE]
    /\ UNCHANGED db

DialogFailed(i) ==
    /\ MayFail(net, i, "dialog")
    /\ net' = Ended(net, i)
    /\ ui' = [ui EXCEPT !.busy = FALSE]
    /\ UNCHANGED db

Next ==
    \/ Refresh \/ Search \/ Previous \/ Following
    \/ \E u \in Ids, what \in {"role", "other"} : RowWrite(u, what)
    \/ \E kind \in {"create", "set", "delete"}, u \in Ids \cup {0} :
          OpenDialog(kind, u)
    \/ CloseDialog \/ Submit
    \/ \E i \in UserSlots :
          \/ ServeLoad(i) \/ Loaded(i) \/ LoadFailed(i)
          \/ ServeRow(i) \/ RowWritten(i) \/ RowFailed(i)
          \/ ServeDialog(i) \/ DialogWritten(i) \/ DialogFailed(i)

-----------------------------------------------------------------------------
RowsType == [users : SUBSET Ids, page : 0..LastPage]
DialogType == {Closed} \cup [kind : {"create"}, user : {0}] \cup [kind : {"set", "delete"}, user : Ids]
PageType ==
    [rows : RowsType, page : 1..LastPage, total : 0..Cardinality(Ids), rowBusy : Ids \cup {0},
     dialog : DialogType, busy : BOOLEAN]
CallType ==
    {NoCall}
    \cup [op : {"load"}, at : Stages, p : 1..LastPage, row : Ids \cup {0}, rows : RowsType,
          total : 0..Cardinality(Ids)]
    \cup [op : {"row"}, at : Stages, user : Ids, what : {"role", "other"}, p : 1..LastPage]
    \cup [op : {"dialog"}, at : Stages, kind : {"create", "set", "delete"}, user : Ids \cup {0},
          p : 1..LastPage]

TypeOK == db \in SUBSET Ids /\ ui \in PageType /\ net \in [UserSlots -> CallType]

\* With no load in flight the page number shown is that of the rows shown,
\* although the buttons move it at once and loads overtake one another.
PageLabelMatchesRows ==
    Flying(net, {"load"}) = {} /\ ui.rows.users # {} => ui.page = ui.rows.page

\* At most one dialog write is in flight, although the cross closes a dialog
\* whose call has not ended and the next dialog opens at once: no double
\* Confirm creates a user twice or deletes on top of a delete.
OneDialogWrite == Cardinality(Flying(net, {"dialog"})) <= 1
=============================================================================
