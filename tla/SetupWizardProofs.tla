------------------------- MODULE SetupWizardProofs --------------------------
(***************************************************************************)
(* Theorems about module SetupWizard, for any number of browser tabs and   *)
(* of administrators.                                                      *)
(***************************************************************************)
EXTENDS SetupWizard, TLAPS

-----------------------------------------------------------------------------
(* Types.                                                                  *)

TabRow == [gate : Gates, route : Routes, step : Steps, good : SUBSET Checked,
           submitting : BOOLEAN, testing : BOOLEAN]
CallRow == [op : {"none", "status", "complete"}, at : Stages, good : SUBSET Checked]
CallOK(c) == c \in CallRow /\ (c.op = "status" => c.at \in {"sent", "needed", "done"})

LEMMA MountedTyped == ASSUME NEW r \in Routes PROVE Mounted(r) \in TabRow
BY DEF Mounted, TabRow, Gates, Steps, Checked

LEMMA CallsTyped == CallOK(NoCall) /\ CallOK(Asks)
BY DEF CallOK, NoCall, Asks, CallRow, Stages, Checked

\* One tab's page, or one tab's call, is replaced.
LEMMA PageReplaced ==
    ASSUME SetupTypeOK, NEW t \in Tabs, NEW r \in TabRow, ui' = [ui EXCEPT ![t] = r],
           UNCHANGED db, UNCHANGED net
    PROVE  SetupTypeOK'
BY DEF SetupTypeOK, TabRow

LEMMA CallReplaced ==
    ASSUME SetupTypeOK, NEW t \in Tabs, NEW c, CallOK(c), net' = [net EXCEPT ![t] = c],
           db' \in [admins : Nat, up : BOOLEAN], UNCHANGED ui
    PROVE  SetupTypeOK'
BY DEF SetupTypeOK, CallOK, CallRow

LEMMA BothReplaced ==
    ASSUME SetupTypeOK, NEW t \in Tabs, NEW r \in TabRow, NEW c, CallOK(c),
           ui' = [ui EXCEPT ![t] = r], net' = [net EXCEPT ![t] = c], UNCHANGED db
    PROVE  SetupTypeOK'
BY DEF SetupTypeOK, TabRow, CallOK, CallRow

LEMMA Rows ==
    ASSUME SetupTypeOK, NEW t \in Tabs
    PROVE  /\ ui[t] \in TabRow /\ CallOK(net[t])
           /\ db \in [admins : Nat, up : BOOLEAN]
BY DEF SetupTypeOK, TabRow, CallOK, CallRow

LEMMA Pages ==
    ASSUME SetupTypeOK PROVE ui \in [Tabs -> TabRow] /\ net \in [Tabs -> CallRow]
BY DEF SetupTypeOK, TabRow, CallRow

\* The wizard's own actions.
LEMMA WizardTyped ==
    ASSUME SetupTypeOK, NEW t \in Tabs,
           Edit(t) \/ NextStep(t) \/ BackStep(t) \/ TestSMTP(t) \/ TestEnds(t)
    PROVE  SetupTypeOK'
<1>1. PICK r \in TabRow : ui' = [ui EXCEPT ![t] = r]
    <2>1. CASE Edit(t)
        BY <2>1, Rows DEF Edit, TabRow, Steps, Checked
    <2>2. CASE NextStep(t)
        <3>1. [ui[t] EXCEPT !.step = @ + 1] \in TabRow
            BY <2>2, Rows DEF NextStep, TabRow, Steps
        <3> QED BY <2>2, <3>1 DEF NextStep
    <2>3. CASE BackStep(t)
        <3>1. [ui[t] EXCEPT !.step = @ - 1] \in TabRow
            BY <2>3, Rows DEF BackStep, TabRow, Steps
        <3> QED BY <2>3, <3>1 DEF BackStep
    <2>4. CASE TestSMTP(t)
        BY <2>4, Rows DEF TestSMTP, TabRow
    <2>5. CASE TestEnds(t)
        BY <2>5, Rows DEF TestEnds, TabRow
    <2> QED BY <2>1, <2>2, <2>3, <2>4, <2>5
<1>2. UNCHANGED db /\ UNCHANGED net
    BY DEF Edit, NextStep, BackStep, TestSMTP, TestEnds
<1> QED BY <1>1, <1>2, PageReplaced

\* What the server does with one call.
LEMMA ServerTyped ==
    ASSUME SetupTypeOK, NEW t \in Tabs,
           \/ Refuse(t) \/ PassChecks(t) \/ CreateAdmin(t)
           \/ \E yes \in BOOLEAN : ServeStatus(t, yes) \/ StoreSettings(t, yes)
    PROVE  SetupTypeOK'
<1>1. PICK s \in Stages :
          /\ net' = [net EXCEPT ![t].at = s]
          /\ net[t].op = "status" => s \in {"needed", "done"}
    BY DEF Refuse, PassChecks, CreateAdmin, ServeStatus, StoreSettings, Stages
<1>2. CallOK([net[t] EXCEPT !.at = s]) BY <1>1, Rows DEF CallOK, CallRow
<1>3. net' = [net EXCEPT ![t] = [net[t] EXCEPT !.at = s]] BY <1>1, Rows DEF SetupTypeOK
<1>4. UNCHANGED ui BY DEF Refuse, PassChecks, CreateAdmin, ServeStatus, StoreSettings
<1>5. db' \in [admins : Nat, up : BOOLEAN]
    BY Rows DEF Refuse, PassChecks, CreateAdmin, ServeStatus, StoreSettings
<1> QED BY <1>2, <1>3, <1>4, <1>5, CallReplaced

\* What changes a page together with its call.
LEMMA AnswerTyped ==
    ASSUME SetupTypeOK, NEW t \in Tabs,
           \/ Reload(t) \/ Redirect(t) \/ Complete(t) \/ Completed(t) \/ NotCompleted(t)
           \/ \E yes \in BOOLEAN : StatusAnswered(t, yes)
    PROVE  SetupTypeOK'
<1>1. UNCHANGED db
    BY DEF Reload, Redirect, Complete, Completed, NotCompleted, StatusAnswered
<1>2. PICK c : CallOK(c) /\ net' = [net EXCEPT ![t] = c]
    <2>1. CASE Complete(t)
        <3>1. CallOK([op |-> "complete", at |-> "sent", good |-> ui[t].good])
            BY Rows DEF CallOK, CallRow, TabRow, Stages
        <3> QED BY <2>1, <3>1 DEF Complete
    <2>2. CASE ~Complete(t)
        BY <2>2, CallsTyped DEF Reload, Redirect, Completed, NotCompleted, StatusAnswered
    <2> QED BY <2>1, <2>2
<1>3. PICK r \in TabRow : ui' = [ui EXCEPT ![t] = r]
    <2>1. CASE Reload(t) \/ Redirect(t) \/ Completed(t)
        <3>1. Mounted("site") \in TabRow /\ Mounted("setup") \in TabRow
            BY MountedTyped DEF Routes
        <3>2. Mounted(ui[t].route) \in TabRow
            BY Rows, MountedTyped DEF TabRow
        <3> QED BY <2>1, <3>1, <3>2, Rows DEF Reload, Redirect, Completed, SetupTypeOK
    <2>2. CASE Complete(t) \/ NotCompleted(t)
        BY <2>2, Rows DEF Complete, NotCompleted, TabRow
    <2>3. ASSUME NEW yes \in BOOLEAN, StatusAnswered(t, yes)
          PROVE  \E r \in TabRow : ui' = [ui EXCEPT ![t] = r]
        <3>1. PICK g \in Gates : ui' = [ui EXCEPT ![t].gate = g]
            BY <2>3, Rows DEF StatusAnswered, Gates, CallOK
        <3> QED BY <3>1, Rows DEF TabRow
    <2> QED BY <2>1, <2>2, <2>3
<1> QED BY <1>1, <1>2, <1>3, BothReplaced

LEMMA ElsewhereTyped == ASSUME SetupTypeOK, Elsewhere PROVE SetupTypeOK'
BY DEF SetupTypeOK, Elsewhere

\* The type invariant of the wizard and its gates: pages and calls stay
\* records of their fields, and a status call waits or has one of two answers.
THEOREM SetupTypeCorrect == Spec => []SetupTypeOK
<1>1. Init => SetupTypeOK
    BY MountedTyped, CallsTyped DEF Init, SetupTypeOK, TabRow, CallOK, CallRow, Asks
<1>2. SetupTypeOK /\ [Next]_vars => SetupTypeOK'
    <2> SUFFICES ASSUME SetupTypeOK, [Next]_vars PROVE SetupTypeOK'
        OBVIOUS
    <2>1. CASE UNCHANGED vars
        BY <2>1 DEF SetupTypeOK, vars
    <2>2. CASE Next
        BY <2>2, WizardTyped, ServerTyped, AnswerTyped, ElsewhereTyped DEF Next
    <2> QED BY <2>1, <2>2
<1> QED BY <1>1, <1>2, PTL DEF Spec

-----------------------------------------------------------------------------
(* Finish sends only what the wizard has checked.                          *)

\* The steps behind the one shown are correct, and so is a form under way.
Walked(t) == \A k \in Checked : k < ui[t].step => k \in ui[t].good
SentWhole(t) == net[t].op = "complete" => net[t].good = Checked
FormInv == \A t \in Tabs : Walked(t) /\ SentWhole(t)

LEMMA FormStep ==
    ASSUME SetupTypeOK, FormInv, Next PROVE FormInv'
<1> SUFFICES ASSUME NEW u \in Tabs PROVE (Walked(u) /\ SentWhole(u))'
    BY DEF FormInv
<1>1. Walked(u) /\ SentWhole(u) BY DEF FormInv
<1>2. ui \in [Tabs -> TabRow] /\ net \in [Tabs -> CallRow] BY Pages
<1>3. ASSUME ui'[u] = ui[u], net'[u].op = net[u].op, net'[u].good = net[u].good
      PROVE  (Walked(u) /\ SentWhole(u))'
    BY <1>1, <1>3 DEF Walked, SentWhole
<1>4. CASE Elsewhere
    BY <1>3, <1>4 DEF Elsewhere
<1>5. ASSUME NEW t \in Tabs, Edit(t) \/ NextStep(t) \/ BackStep(t) \/ TestSMTP(t) \/ TestEnds(t)
      PROVE  (Walked(u) /\ SentWhole(u))'
    <2>1. SentWhole(u)'
        BY <1>1, <1>5 DEF SentWhole, Edit, NextStep, BackStep, TestSMTP, TestEnds
    <2>2. ui[t] \in TabRow BY Rows
    <2>3. CASE Edit(t)
        BY <1>1, <1>2, <2>1, <2>2, <2>3 DEF Walked, Edit, TabRow, Checked, Steps
    <2>4. CASE NextStep(t)
        <3>1. ui'[u].good = ui[u].good
            BY <1>2, <2>4 DEF NextStep, TabRow
        <3>2. \/ ui'[u].step = ui[u].step
              \/ ui[u].step \in ui[u].good /\ ui'[u].step = ui[u].step + 1
            BY <1>2, <2>4 DEF NextStep, TabRow
        <3>3. ui[u].step \in Steps BY <1>2 DEF TabRow
        <3> QED BY <1>1, <2>1, <3>1, <3>2, <3>3 DEF Walked, Checked, Steps
    <2>5. CASE BackStep(t)
        <3>1. ui'[u].good = ui[u].good
            BY <1>2, <2>5 DEF BackStep, TabRow
        <3>2. ui'[u].step = ui[u].step \/ ui'[u].step = ui[u].step - 1
            BY <1>2, <2>5 DEF BackStep, TabRow
        <3>3. ui[u].step \in Steps BY <1>2 DEF TabRow
        <3> QED BY <1>1, <2>1, <3>1, <3>2, <3>3 DEF Walked, Checked, Steps
    <2>6. CASE TestSMTP(t) \/ TestEnds(t)
        <3>1. ui'[u].good = ui[u].good /\ ui'[u].step = ui[u].step
            BY <1>2, <2>6 DEF TestSMTP, TestEnds, TabRow
        <3> QED BY <1>1, <2>1, <3>1 DEF Walked
    <2> QED BY <1>5, <2>1, <2>3, <2>4, <2>5, <2>6
<1>6. ASSUME NEW t \in Tabs,
             \/ Refuse(t) \/ PassChecks(t) \/ CreateAdmin(t)
             \/ \E yes \in BOOLEAN : ServeStatus(t, yes) \/ StoreSettings(t, yes)
      PROVE  (Walked(u) /\ SentWhole(u))'
    <2>1. PICK s : net' = [net EXCEPT ![t].at = s]
        BY <1>6 DEF Refuse, PassChecks, CreateAdmin, ServeStatus, StoreSettings
    <2>2. net'[u].op = net[u].op /\ net'[u].good = net[u].good
        BY <2>1, <1>2 DEF CallRow
    <2>3. UNCHANGED ui
        BY <1>6 DEF Refuse, PassChecks, CreateAdmin, ServeStatus, StoreSettings
    <2> QED BY <1>3, <2>2, <2>3
<1>7. ASSUME NEW t \in Tabs, Reload(t) \/ Redirect(t) \/ Completed(t)
      PROVE  (Walked(u) /\ SentWhole(u))'
    <2>1. SentWhole(u)'
        BY <1>1, <1>7 DEF SentWhole, Reload, Redirect, Completed, Asks, SetupTypeOK
    <2>2. Walked(u)'
        BY <1>1, <1>7 DEF Walked, Reload, Redirect, Completed, Mounted, SetupTypeOK, Checked
    <2> QED BY <2>1, <2>2
<1>8. ASSUME NEW t \in Tabs,
             NotCompleted(t) \/ \E yes \in BOOLEAN : StatusAnswered(t, yes)
      PROVE  (Walked(u) /\ SentWhole(u))'
    <2>1. SentWhole(u)'
        BY <1>1, <1>8 DEF SentWhole, NotCompleted, StatusAnswered, NoCall, SetupTypeOK
    <2>2. Walked(u)'
        BY <1>1, <1>8 DEF Walked, NotCompleted, StatusAnswered, SetupTypeOK
    <2> QED BY <2>1, <2>2
<1>9. ASSUME NEW t \in Tabs, Complete(t) PROVE (Walked(u) /\ SentWhole(u))'
    <2>1. Walked(t) /\ ui[t].step = 3 /\ ui[t].good \in SUBSET Checked
        BY <1>9, Rows DEF FormInv, Complete, TabRow
    <2>2. ui[t].good = Checked
        BY <2>1 DEF Walked, Checked
    <2>3. SentWhole(u)'
        BY <1>1, <1>9, <2>2 DEF SentWhole, Complete, SetupTypeOK
    <2>4. Walked(u)'
        BY <1>1, <1>9 DEF Walked, Complete, SetupTypeOK
    <2> QED BY <2>3, <2>4
<1> QED BY <1>4, <1>5, <1>6, <1>7, <1>8, <1>9 DEF Next

\* The form that Finish sends is correct in every step, whatever was edited,
\* walked back, reloaded or refused before.
THEOREM SubmittedValid == Spec => []OnlyValidSubmitted
<1>1. Init => FormInv
    <2> SUFFICES ASSUME Init, NEW t \in Tabs PROVE Walked(t) /\ SentWhole(t)
        BY DEF FormInv
    <2>1. PICK route \in Routes : ui = [x \in Tabs |-> Mounted(route)]
        BY DEF Init
    <2>2. ui[t].step = 0 BY <2>1 DEF Mounted
    <2>3. net[t].op = "status" BY DEF Init, Asks
    <2> QED BY <2>2, <2>3 DEF Walked, SentWhole, Checked
<1>2. SetupTypeOK /\ FormInv /\ [Next]_vars => FormInv'
    <2>1. FormInv /\ UNCHANGED vars => FormInv'
        BY DEF FormInv, Walked, SentWhole, vars
    <2> QED BY <2>1, FormStep
<1>3. FormInv => OnlyValidSubmitted BY DEF FormInv, SentWhole, OnlyValidSubmitted
<1> QED BY <1>1, <1>2, <1>3, SetupTypeCorrect, PTL DEF Spec

-----------------------------------------------------------------------------
(* No sign-in page before there is an administrator.                       *)

Installed == db.admins > 0 \/ ~db.up
\* Neither an open gate nor an answer that will open one is wrong.
GateInv ==
    \A t \in Tabs : /\ ui[t].gate = "done" => Installed
                    /\ net[t].op = "status" /\ net[t].at = "done" => Installed

\* Nothing removes an administrator, and the database does not come back up.
LEMMA InstalledStays == ASSUME SetupTypeOK, Next, Installed PROVE Installed'
<1>1. UNCHANGED db \/ db' = [db EXCEPT !.admins = 1] \/ db' = [db EXCEPT !.admins = @ + 1]
    BY DEF Next, Elsewhere, Reload, Redirect, Edit, NextStep, BackStep, TestSMTP, TestEnds,
           Complete, Refuse, PassChecks, CreateAdmin, Completed, NotCompleted, ServeStatus,
           StatusAnswered, StoreSettings
<1> QED BY <1>1 DEF Installed, SetupTypeOK

LEMMA GateStep == ASSUME SetupTypeOK, GateInv, Next PROVE GateInv'
<1> SUFFICES ASSUME NEW u \in Tabs
             PROVE  /\ ui'[u].gate = "done" => Installed'
                    /\ net'[u].op = "status" /\ net'[u].at = "done" => Installed'
    BY DEF GateInv, Installed
<1> USE InstalledStays
<1>1. /\ ui[u].gate = "done" => Installed
      /\ net[u].op = "status" /\ net[u].at = "done" => Installed
    BY DEF GateInv
<1>2. ui \in [Tabs -> TabRow] /\ net \in [Tabs -> CallRow] BY Pages
<1>3. CASE Elsewhere BY <1>1, <1>3 DEF Elsewhere
<1>4. ASSUME NEW t \in Tabs, Edit(t) \/ NextStep(t) \/ BackStep(t) \/ TestSMTP(t) \/ TestEnds(t)
      PROVE  /\ ui'[u].gate = "done" => Installed'
             /\ net'[u].op = "status" /\ net'[u].at = "done" => Installed'
    <2>1. ui'[u].gate = ui[u].gate
        <3>1. CASE Edit(t)
            BY <1>2, <3>1 DEF Edit, TabRow
        <3>2. CASE NextStep(t) \/ BackStep(t)
            BY <1>2, <3>2 DEF NextStep, BackStep, TabRow
        <3>3. CASE TestSMTP(t) \/ TestEnds(t)
            BY <1>2, <3>3 DEF TestSMTP, TestEnds, TabRow
        <3> QED BY <1>4, <3>1, <3>2, <3>3
    <2>2. UNCHANGED net BY <1>4 DEF Edit, NextStep, BackStep, TestSMTP, TestEnds
    <2> QED BY <1>1, <2>1, <2>2
<1>5. ASSUME NEW t \in Tabs, Refuse(t) \/ PassChecks(t) \/ CreateAdmin(t)
                              \/ \E yes \in BOOLEAN : StoreSettings(t, yes)
      PROVE  /\ ui'[u].gate = "done" => Installed'
             /\ net'[u].op = "status" /\ net'[u].at = "done" => Installed'
    <2>1. UNCHANGED ui BY <1>5 DEF Refuse, PassChecks, CreateAdmin, StoreSettings
    <2>2. net'[u] = net[u] \/ net'[u].op = "complete"
        BY <1>2, <1>5 DEF Refuse, PassChecks, CreateAdmin, StoreSettings, CallRow
    <2> QED BY <1>1, <2>1, <2>2
<1>6. ASSUME NEW t \in Tabs, NEW counted \in BOOLEAN, ServeStatus(t, counted)
      PROVE  /\ ui'[u].gate = "done" => Installed'
             /\ net'[u].op = "status" /\ net'[u].at = "done" => Installed'
    <2>1. UNCHANGED ui BY <1>6 DEF ServeStatus
    <2>2. net'[u] = net[u] \/ (net'[u].at = "done" => Installed)
        BY <1>2, <1>6, Rows DEF ServeStatus, Needed, Installed, CallRow
    <2> QED BY <1>1, <2>1, <2>2
<1>7. ASSUME NEW t \in Tabs, NEW arrived \in BOOLEAN, StatusAnswered(t, arrived)
      PROVE  /\ ui'[u].gate = "done" => Installed'
             /\ net'[u].op = "status" /\ net'[u].at = "done" => Installed'
    <2>1. ui'[u].gate = "done" => Installed
        BY <1>1, <1>2, <1>7 DEF StatusAnswered, TabRow
    <2>2. net'[u] = net[u] \/ net'[u].op = "none"
        BY <1>7 DEF StatusAnswered, NoCall, SetupTypeOK
    <2> QED BY <1>1, <2>1, <2>2
<1>8. ASSUME NEW t \in Tabs, Reload(t) \/ Redirect(t) \/ Completed(t)
      PROVE  /\ ui'[u].gate = "done" => Installed'
             /\ net'[u].op = "status" /\ net'[u].at = "done" => Installed'
    <2>1. ui'[u] = ui[u] \/ ui'[u].gate = "loading"
        BY <1>8 DEF Reload, Redirect, Completed, Mounted, SetupTypeOK
    <2>2. net'[u] = net[u] \/ net'[u].at = "sent"
        BY <1>8 DEF Reload, Redirect, Completed, Asks, SetupTypeOK
    <2> QED BY <1>1, <2>1, <2>2
<1>9. ASSUME NEW t \in Tabs, Complete(t) \/ NotCompleted(t)
      PROVE  /\ ui'[u].gate = "done" => Installed'
             /\ net'[u].op = "status" /\ net'[u].at = "done" => Installed'
    <2>1. ui'[u].gate = ui[u].gate
        BY <1>2, <1>9 DEF Complete, NotCompleted, TabRow
    <2>2. net'[u] = net[u] \/ net'[u].op # "status"
        BY <1>9 DEF Complete, NotCompleted, NoCall, SetupTypeOK
    <2> QED BY <1>1, <2>1, <2>2
<1> QED BY <1>3, <1>4, <1>5, <1>6, <1>7, <1>8, <1>9 DEF Next

\* No tab shows the site of an instance without an administrator, for any
\* number of tabs, whatever fails and whoever installs meanwhile.
THEOREM SetupBeforeLogin == Spec => []LoginImpliesSetup
<1>1. Init => GateInv
    <2> SUFFICES ASSUME Init, NEW t \in Tabs
                 PROVE  ui[t].gate = "loading" /\ net[t].at = "sent"
        BY DEF GateInv
    <2>1. PICK route \in Routes : ui = [x \in Tabs |-> Mounted(route)]
        BY DEF Init
    <2> QED BY <2>1 DEF Init, Mounted, Asks
<1>2. SetupTypeOK /\ GateInv /\ [Next]_vars => GateInv'
    <2>1. GateInv /\ UNCHANGED vars => GateInv'
        BY DEF GateInv, Installed, vars
    <2> QED BY <2>1, GateStep
<1>3. GateInv => LoginImpliesSetup BY DEF GateInv, Installed, LoginImpliesSetup, Site
<1> QED BY <1>1, <1>2, <1>3, SetupTypeCorrect, PTL DEF Spec
=============================================================================
