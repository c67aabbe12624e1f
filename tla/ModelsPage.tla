----------------------------- MODULE ModelsPage -----------------------------
(***************************************************************************)
(* The model catalogue of the administration (pages/Models.tsx): the       *)
(* models the channels serve, and a dialog that shows and sets what one    *)
(* costs.  The dialog opens at once and fetches the catalogue then, so one *)
(* form serves every model and is filled by whichever answer comes last.   *)
(***************************************************************************)
EXTENDS Calls

CONSTANTS
    Models,        \* the models the channels name
    ModelSlots     \* bound: calls in flight

VARIABLES db, ui, net

\* A price is where it came from: nowhere, the administrator, or the catalogue
\* entry of a model.  A blank form field is the price "none".
Origins == Models \cup {"none", "typed"}

ListCall == [op |-> "list", at |-> "sent"]
MetaCall(m) == [op |-> "meta", at |-> "sent", model |-> m, price |-> "none"]

Init ==
    /\ db \in {price \in [Models -> Origins] : \A m \in Models : price[m] \in {"none", m}}
    /\ ui = [rows |-> {}, loading |-> TRUE, edit |-> "none", form |-> "none", busy |-> FALSE,
             hasty |-> FALSE]
    /\ net = Sent(Silent(ModelSlots), ListCall)

Refresh ==
    /\ HasRoom(net)
    /\ net' = Sent(net, ListCall)
    /\ ui' = [ui EXCEPT !.loading = TRUE]
    /\ UNCHANGED db

\* hasty (a ghost): the administrator did not wait for the form to be filled.
Pending == Flying(net, {"meta"}) # {}

\* openMeta(): the dialog is up before its form is.
OpenMeta(m) ==
    /\ ui.edit = "none" /\ ~ui.loading /\ m \in ui.rows
    /\ HasRoom(net)
    /\ net' = Sent(net, MetaCall(m))
    /\ ui' = [ui EXCEPT !.edit = m, !.hasty = @ \/ Pending]
    /\ UNCHANGED db

\* The cross; the backdrop does the same but waits for a save.
CloseMeta ==
    /\ ui.edit # "none"
    /\ ui' = [ui EXCEPT !.edit = "none"]
    /\ UNCHANGED <<db, net>>

Type(price) ==
    /\ ui.edit # "none" /\ ui.form # price
    /\ ui' = [ui EXCEPT !.form = price]
    /\ UNCHANGED <<db, net>>

\* saveMeta(), for the model of the dialog that is open now.
SaveMeta ==
    /\ ui.edit # "none" /\ ~ui.busy
    /\ HasRoom(net)
    /\ net' = Sent(net, [op |-> "save", at |-> "sent", model |-> ui.edit, price |-> ui.form])
    /\ ui' = [ui EXCEPT !.busy = TRUE, !.hasty = @ \/ Pending]
    /\ UNCHANGED db

-----------------------------------------------------------------------------
ServeList(i) ==
    /\ IsSent(net, i, "list")
    /\ net' = [net EXCEPT ![i].at = "done"]
    /\ UNCHANGED <<db, ui>>

ServeMeta(i) ==
    /\ IsSent(net, i, "meta")
    /\ net' = [net EXCEPT ![i] = [@ EXCEPT !.at = "done", !.price = db[net[i].model]]]
    /\ UNCHANGED <<db, ui>>

\* ModelMetaHandler.Upsert: a blank field was not sent and leaves the price.
ServeSave(i) ==
    /\ IsSent(net, i, "save")
    /\ db' = [db EXCEPT ![net[i].model] = IF net[i].price = "none" THEN @ ELSE net[i].price]
    /\ net' = [net EXCEPT ![i].at = "done"]
    /\ UNCHANGED ui

\* Promise.all(...): the rows stay when either list fails.
Listed(i, answered) ==
    /\ IF answered THEN IsDone(net, i, "list") ELSE MayFail(net, i, "list")
    /\ ui' = [ui EXCEPT !.rows = IF answered THEN Models ELSE @, !.loading = FALSE]
    /\ net' = Ended(net, i)
    /\ UNCHANGED db

\* Mutant: a catalogue that cannot be fetched leaves the form as it was.
MetaShownOrKept(i, answered) ==
    /\ IF answered THEN IsDone(net, i, "meta") ELSE MayFail(net, i, "meta")
    /\ ui' = [ui EXCEPT !.form = IF answered THEN net[i].price ELSE @]
    /\ net' = Ended(net, i)
    /\ UNCHANGED db

\* The form is that of the model asked for, whichever dialog is open; blank
\* when the catalogue has no entry or cannot be fetched.
MetaShown(i, answered) ==
    /\ IF answered THEN IsDone(net, i, "meta") ELSE MayFail(net, i, "meta")
    /\ ui' = [ui EXCEPT !.form = IF answered THEN net[i].price ELSE "none"]
    /\ net' = Ended(net, i)
    /\ UNCHANGED db

MetaSaved(i, answered) ==
    /\ IF answered THEN IsDone(net, i, "save") ELSE MayFail(net, i, "save")
    /\ ui' = [ui EXCEPT !.busy = FALSE, !.edit = IF answered THEN "none" ELSE @]
    /\ net' = Ended(net, i)
    /\ UNCHANGED db

Next ==
    \/ Refresh \/ CloseMeta \/ SaveMeta
    \/ \E m \in Models : OpenMeta(m)
    \/ \E price \in {"none", "typed"} : Type(price)
    \/ \E i \in ModelSlots :
          \/ ServeList(i) \/ ServeMeta(i) \/ ServeSave(i)
          \/ \E answered \in BOOLEAN :
                Listed(i, answered) \/ MetaShown(i, answered) \/ MetaSaved(i, answered)

-----------------------------------------------------------------------------
PageType ==
    [rows : SUBSET Models, loading : BOOLEAN, edit : Models \cup {"none"}, form : Origins,
     busy : BOOLEAN, hasty : BOOLEAN]
CallType ==
    {NoCall}
    \cup [op : {"list"}, at : Stages]
    \cup [op : {"meta"}, at : Stages, model : Models, price : Origins]
    \cup [op : {"save"}, at : Stages, model : Models, price : Origins]

TypeOK == db \in [Models -> Origins] /\ ui \in PageType /\ net \in [ModelSlots -> CallType]

\* Unless the administrator acted while a form was still being fetched, no
\* model is ever billed at a price that was read from another model's entry:
\* the form is shared, and what an earlier dialog left there must be gone by
\* the time Confirm can be pressed, whatever failed in between.
PricesNotBorrowed == ~ui.hasty => \A m \in Models : db[m] \in {"none", "typed", m}
=============================================================================
