----------------------------- MODULE PlansPage ------------------------------
(***************************************************************************)
(* Plans and subscriptions in the console (pages/Subscriptions.tsx): two   *)
(* dialogs, one to create a plan and one to grant a plan to a user, which  *)
(* share the busy flag and the error but keep a form each, and a list of   *)
(* plans with a delete button that nothing disables.                       *)
(***************************************************************************)
EXTENDS Calls

CONSTANTS
    PlanIds,       \* the plans that may be created
    Fillings,      \* bound: how often the plan form is filled in, 1..n
    PlanSlots      \* bound: calls in flight

VARIABLES db, ui, net

Load(busy) == [op |-> "load", at |-> "sent", busy |-> busy, plans |-> {}]

\* db.made: from which filling of the form each plan was created, 0 for none;
\* db.granted: how many subscriptions were granted is not counted, only of
\* which plans.  lost is a ghost: the fillings whose answer was lost.
Init ==
    /\ db \in [made : {[p \in PlanIds |-> 0]}, live : {{}, {1}}, granted : {{}}]
    /\ ui = [plans |-> {}, dialog |-> "none", busy |-> FALSE, form |-> 0, used |-> 0,
             planId |-> 0, lost |-> {}]
    /\ net = Sent(Silent(PlanSlots), Load(FALSE))

\* Grant waits until there is a plan to choose.
OpenDialog(kind) ==
    /\ ui.dialog = "none" /\ (kind = "grant" => ui.plans # {})
    /\ ui' = [ui EXCEPT !.dialog = kind]
    /\ UNCHANGED <<db, net>>

\* The cross; the backdrop waits for the call.
CloseDialog ==
    /\ ui.dialog # "none"
    /\ ui' = [ui EXCEPT !.dialog = "none"]
    /\ UNCHANGED <<db, net>>

\* The blank plan form is filled in, with one more plan in mind.
Fill ==
    /\ ui.dialog = "plan" /\ ui.form = 0 /\ ui.used + 1 \in Fillings
    /\ ui' = [ui EXCEPT !.form = ui.used + 1, !.used = @ + 1]
    /\ UNCHANGED <<db, net>>

\* The choice outlives the dialog, and the plan.
Choose(p) ==
    /\ ui.dialog = "grant" /\ p \in ui.plans \ {ui.planId}
    /\ ui' = [ui EXCEPT !.planId = p]
    /\ UNCHANGED <<db, net>>

Press(c) ==
    /\ ~ui.busy
    /\ HasRoom(net)
    /\ net' = Sent(net, c)
    /\ ui' = [ui EXCEPT !.busy = TRUE]
    /\ UNCHANGED db

CreatePlan ==
    /\ ui.dialog = "plan" /\ ui.form # 0
    /\ Press([op |-> "create", at |-> "sent", form |-> ui.form])

Grant ==
    /\ ui.dialog = "grant" /\ ui.planId # 0
    /\ Press([op |-> "grant", at |-> "sent", plan |-> ui.planId])

DelPlan(p) ==
    /\ ui.dialog = "none" /\ p \in ui.plans
    /\ HasRoom(net)
    /\ net' = Sent(net, [op |-> "delete", at |-> "sent", plan |-> p])
    /\ UNCHANGED <<db, ui>>

-----------------------------------------------------------------------------
Serve(i, table) ==
    /\ db' = table
    /\ net' = [net EXCEPT ![i].at = "done"]
    /\ UNCHANGED ui

ServeLoad(i) ==
    /\ IsSent(net, i, "load")
    /\ net' = [net EXCEPT ![i] = [@ EXCEPT !.at = "done", !.plans = db.live]]
    /\ UNCHANGED <<db, ui>>

\* A new id: those of deleted plans are not handed out again.
ServeCreate(i) ==
    /\ IsSent(net, i, "create")
    /\ \E p \in PlanIds :
          /\ p \notin db.live /\ db.made[p] = 0 /\ \A q \in 1..(p - 1) : q \in db.live \/ db.made[q] # 0
          /\ Serve(i, [db EXCEPT !.made[p] = net[i].form, !.live = @ \cup {p}])

ServeGrant(i) ==
    /\ IsSent(net, i, "grant") /\ net[i].plan \in db.live
    /\ Serve(i, [db EXCEPT !.granted = @ \cup {net[i].plan}])

ServeDelete(i) ==
    /\ IsSent(net, i, "delete") /\ net[i].plan \in db.live
    /\ Serve(i, [db EXCEPT !.live = @ \ {net[i].plan}])

\* load(): a failure keeps the lists.  The dialog that waited is idle again.
Loaded(i, answered) ==
    /\ IF answered THEN IsDone(net, i, "load") ELSE MayFail(net, i, "load")
    /\ ui' = [ui EXCEPT !.plans = IF answered THEN net[i].plans ELSE @, !.busy = @ /\ ~net[i].busy]
    /\ net' = Ended(net, i)
    /\ UNCHANGED db

Reloads(i, busy, state) ==
    /\ net' = [net EXCEPT ![i] = Load(busy)]
    /\ ui' = state
    /\ UNCHANGED db

\* Mutant: the plan form keeps what was typed.
CreatedKeepForm(i) ==
    /\ IsDone(net, i, "create")
    /\ Reloads(i, TRUE, [ui EXCEPT !.dialog = "none"])

\* createPlan() goes on: the dialog, whichever it is, closes; the form is blank.
Created(i) ==
    /\ IsDone(net, i, "create")
    /\ Reloads(i, TRUE, [ui EXCEPT !.dialog = "none", !.form = 0])

Granted(i) ==
    /\ IsDone(net, i, "grant")
    /\ Reloads(i, TRUE, [ui EXCEPT !.dialog = "none"])

Deleted(i) == IsDone(net, i, "delete") /\ Reloads(i, FALSE, ui)

\* An error: the dialog, and what was typed, stay.
Failed(i, op) ==
    /\ MayFail(net, i, op)
    /\ ui' = [ui EXCEPT !.busy = @ /\ op = "delete",
                        !.lost = IF IsDone(net, i, "create") THEN @ \cup {net[i].form} ELSE @]
    /\ net' = Ended(net, i)
    /\ UNCHANGED db

Next ==
    \/ CloseDialog \/ Fill \/ CreatePlan \/ Grant
    \/ \E kind \in {"plan", "grant"} : OpenDialog(kind)
    \/ \E p \in PlanIds : Choose(p) \/ DelPlan(p)
    \/ \E i \in PlanSlots :
          \/ ServeLoad(i) \/ ServeCreate(i) \/ ServeGrant(i) \/ ServeDelete(i)
          \/ Loaded(i, TRUE) \/ Loaded(i, FALSE)
          \/ Created(i) \/ Granted(i) \/ Deleted(i)
          \/ \E op \in {"create", "grant", "delete"} : Failed(i, op)

-----------------------------------------------------------------------------
ServerType ==
    [made : [PlanIds -> Fillings \cup {0}], live : SUBSET PlanIds, granted : SUBSET PlanIds]
PageType ==
    [plans : SUBSET PlanIds, dialog : {"none", "plan", "grant"}, busy : BOOLEAN,
     form : Fillings \cup {0}, used : Fillings \cup {0}, planId : PlanIds \cup {0},
     lost : SUBSET Fillings]
CallType ==
    {NoCall}
    \cup [op : {"load"}, at : Stages, busy : BOOLEAN, plans : SUBSET PlanIds]
    \cup [op : {"create"}, at : Stages, form : Fillings]
    \cup [op : {"grant", "delete"}, at : Stages, plan : PlanIds]

TypeOK == db \in ServerType /\ ui \in PageType /\ net \in [PlanSlots -> CallType]

\* One plan for one filling of the form, whatever is closed, reopened, retried
\* or confirmed again while calls are in flight, unless the answer to the
\* creation was lost on the network.
OnePlanPerForm ==
    \A p, q \in PlanIds : p # q /\ db.made[p] = db.made[q] => db.made[p] \in ui.lost \cup {0}
=============================================================================
