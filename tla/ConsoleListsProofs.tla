------------------------ MODULE ConsoleListsProofs -------------------------
(***************************************************************************)
(* Theorems about the console's pages with lists of rows to manage, for    *)
(* any number of rows and of calls in flight: for each page an inductive   *)
(* invariant, named after the instance of its module in Console (UInv for  *)
(* the users page), and the properties of Console it implies.              *)
(***************************************************************************)
EXTENDS Console, TLAPS, FiniteSetTheorems, Sequences

-----------------------------------------------------------------------------
(* pages/users                                                             *)

\* The page's module counts as this one does.
LEMMA UCard == \A s : U!Cardinality(s) = Cardinality(s)
BY DEF U!Cardinality, Cardinality

\* What ties the page to its calls: Confirm is busy while a dialog's call is
\* in flight, so there is one at most; the answer of a load is a page of rows
\* with its own number; and unless a load is to come, the number shown is
\* that of the rows.
UDialogs ==
    /\ \A i \in Slots : net[i].op = "dialog" => ui.busy
    /\ \A i, j \in Slots : net[i].op = "dialog" /\ net[j].op = "dialog" => i = j
UAnswer(c) == c.op = "load" /\ c.at = "done" => c.rows.page = c.p
UAnswers == \A i \in Slots : UAnswer(net[i])
UAgrees == ui.rows.users # {} => ui.page = ui.rows.page
ULabel == (\A i \in Slots : net[i].op # "load") => UAgrees
UInv == U!TypeOK /\ UDialogs /\ UAnswers /\ ULabel

\* The types of the three variables.
LEMMA UTypes ==
    ASSUME UInv
    PROVE  db \in SUBSET Ids /\ ui \in U!PageType /\ net \in [Slots -> U!CallType]
BY DEF UInv, U!TypeOK

\* A call sent takes one of the free slots.
LEMMA USend ==
    ASSUME NEW c, U!HasRoom(net), U!TypeOK
    PROVE  \E i \in Slots : net[i].op = "none" /\ U!Sent(net, c) = [net EXCEPT ![i] = c]
BY DEF U!HasRoom, U!FreeSlots, U!Sent, U!TypeOK

\* A page opened sends one call and no other.
LEMMA UFirst ==
    ASSUME NEW c
    PROVE  U!Sent(U!Silent(Slots), c) \in [Slots -> {U!NoCall, c}]
BY DEF U!Sent, U!Silent

\* A load that leaves is of its type and has nothing to answer yet.
LEMMA ULoads ==
    ASSUME NEW p \in 1..LastPage, NEW row \in Ids \cup {0}
    PROVE  U!LoadCall(p, row) \in U!CallType /\ UAnswer(U!LoadCall(p, row))
           /\ U!LoadCall(p, row).op = "load"
<1>1. 0 \in 0..Cardinality(Ids) BY ListsAssumption, FS_CardinalityType
<1>2. U!NoRows \in U!RowsType BY ListsAssumption DEF U!NoRows, U!RowsType
<1> QED BY <1>1, <1>2, UCard DEF U!LoadCall, U!CallType, U!Stages, UAnswer

\* The fields a call of each kind has.
LEMMA UKinds ==
    ASSUME NEW c \in U!CallType
    PROVE  /\ c.op = "load" =>
                c \in [op : {"load"}, at : U!Stages, p : 1..LastPage, row : Ids \cup {0},
                       rows : U!RowsType, total : 0..Cardinality(Ids)]
           /\ c.op = "row" =>
                c \in [op : {"row"}, at : U!Stages, user : Ids, what : {"role", "other"},
                       p : 1..LastPage]
           /\ c.op = "dialog" =>
                c \in [op : {"dialog"}, at : U!Stages, kind : {"create", "set", "delete"},
                       user : Ids \cup {0}, p : 1..LastPage]
<1>1. ASSUME c.op = "load"
      PROVE  c \in [op : {"load"}, at : U!Stages, p : 1..LastPage, row : Ids \cup {0},
                    rows : U!RowsType, total : 0..Cardinality(Ids)]
    BY <1>1, UCard DEF U!CallType, U!NoCall
<1>2. ASSUME c.op = "row"
      PROVE  c \in [op : {"row"}, at : U!Stages, user : Ids, what : {"role", "other"},
                    p : 1..LastPage]
    BY <1>2 DEF U!CallType, U!NoCall
<1>3. ASSUME c.op = "dialog"
      PROVE  c \in [op : {"dialog"}, at : U!Stages, kind : {"create", "set", "delete"},
                    user : Ids \cup {0}, p : 1..LastPage]
    BY <1>3 DEF U!CallType, U!NoCall
<1> QED BY <1>1, <1>2, <1>3

\* The invariant holds when the page opens.
LEMMA UInit == ASSUME U!Init PROVE UInv
<1>1. 0 \in 0..Cardinality(Ids) BY ListsAssumption, FS_CardinalityType
<1>2. 1 \in 1..LastPage BY ListsAssumption
<1>10. U!NoRows \in U!RowsType BY ListsAssumption DEF U!NoRows, U!RowsType
<1>3. db \in SUBSET Ids BY DEF U!Init
<1>4. ui \in U!PageType
    BY <1>1, <1>2, <1>10, UCard DEF U!Init, U!PageType, U!DialogType
<1>5. \A i \in Slots : net[i] \in {U!NoCall, U!LoadCall(1, 0)}
    BY UFirst DEF U!Init
<1>6. net \in [Slots -> U!CallType]
    BY UFirst, ULoads, <1>2 DEF U!Init, U!CallType
<1>7. \A i \in Slots : net[i].op # "dialog"
    BY <1>5 DEF U!NoCall, U!LoadCall
<1>8. UAnswers
    BY <1>5, ULoads, <1>2 DEF UAnswers, UAnswer, U!NoCall
<1>9. UAgrees BY DEF U!Init, UAgrees, U!NoRows
<1> QED BY <1>3, <1>4, <1>6, <1>7, <1>8, <1>9 DEF UInv, U!TypeOK, UDialogs, ULabel

\* The call in slot i becomes c.
LEMMA UCall ==
    ASSUME UInv, NEW i \in Slots, NEW c \in U!CallType, net' = [net EXCEPT ![i] = c],
           db' \in SUBSET Ids, ui' \in U!PageType, UAnswer(c),
           ui.busy => ui'.busy \/ net[i].op = "dialog",
           c.op = "dialog" => ui'.busy /\ (net[i].op = "dialog" \/ ~ui.busy),
           \/ c.op = "load"
           \/ UAgrees'
           \/ net[i].op # "load" /\ ui'.rows = ui.rows /\ ui'.page = ui.page
    PROVE  UInv'
<1> USE UTypes
<1>1. U!TypeOK' BY DEF U!TypeOK
<1>2. net'[i] = c /\ \A j \in Slots \ {i} : net'[j] = net[j]
    OBVIOUS
<1>3. UDialogs' BY <1>2 DEF UInv, UDialogs
<1>4. UAnswers' BY <1>2 DEF UInv, UAnswers
<1>5. ULabel' BY <1>2 DEF UInv, ULabel, UAgrees
<1> QED BY <1>1, <1>3, <1>4, <1>5 DEF UInv

\* A call leaves, and with it the page may change as a dialog or a load does.
LEMMA USends ==
    ASSUME UInv, U!HasRoom(net), NEW c \in U!CallType, net' = U!Sent(net, c),
           UNCHANGED db, ui' \in U!PageType, UAnswer(c), ui.busy => ui'.busy,
           c.op = "dialog" => ui'.busy /\ ~ui.busy,
           c.op = "load" \/ (ui'.rows = ui.rows /\ ui'.page = ui.page)
    PROVE  UInv'
<1>1. PICK i \in Slots : net[i].op = "none" /\ net' = [net EXCEPT ![i] = c]
    BY USend DEF UInv
<1> QED BY <1>1, UTypes, UCall

\* The dialog, or whose row is busy, is all that changes.
LEMMA UPage ==
    ASSUME UInv, UNCHANGED <<db, net>>, ui' \in U!PageType, ui'.busy = ui.busy,
           ui'.rows = ui.rows, ui'.page = ui.page
    PROVE  UInv'
BY DEF UInv, U!TypeOK, UDialogs, UAnswers, ULabel, UAgrees

\* Every action of the page keeps the invariant.
LEMMA UStep == ASSUME UInv, U!Next PROVE UInv'
<1> USE UTypes
<1>1. ASSUME NEW p \in 1..LastPage, U!LoadPage(p) PROVE UInv'
    <2>1. ui' \in U!PageType /\ ui'.busy = ui.busy
        BY <1>1 DEF U!LoadPage, U!PageType
    <2> QED BY <1>1, <2>1, ULoads, USends DEF U!LoadPage
<1>2. ASSUME U!Refresh \/ U!Search \/ U!Previous \/ U!Following PROVE UInv'
    <2>1. ui.page \in 1..LastPage BY DEF U!PageType
    <2>2. \E p \in 1..LastPage : U!LoadPage(p)
        BY <1>2, <2>1, ListsAssumption DEF U!Refresh, U!Search, U!Previous, U!Following
    <2> QED BY <1>1, <2>2
<1>3. ASSUME NEW u \in Ids, NEW what \in {"role", "other"}, U!RowWrite(u, what) PROVE UInv'
    <2> DEFINE c == [op |-> "row", at |-> "sent", user |-> u, what |-> what, p |-> ui.page]
    <2>1. c \in U!CallType /\ UAnswer(c) /\ c.op = "row"
        BY DEF U!CallType, U!Stages, U!PageType, UAnswer
    <2>2. ui' \in U!PageType /\ ui'.busy = ui.busy /\ ui'.rows = ui.rows /\ ui'.page = ui.page
        BY <1>3 DEF U!RowWrite, U!PageType
    <2>3. U!HasRoom(net) /\ net' = U!Sent(net, c) /\ UNCHANGED db BY <1>3 DEF U!RowWrite
    <2> HIDE DEF c
    <2> QED BY <2>1, <2>2, <2>3, USends
<1>4. ASSUME NEW kind \in {"create", "set", "delete"}, NEW u \in Ids \cup {0},
             U!OpenDialog(kind, u)
      PROVE  UInv'
    <2>1. [kind |-> kind, user |-> u] \in U!DialogType
        BY <1>4 DEF U!OpenDialog, U!DialogType
    <2>2. ui' \in U!PageType /\ ui'.busy = ui.busy /\ ui'.rows = ui.rows /\ ui'.page = ui.page
        BY <1>4, <2>1 DEF U!OpenDialog, U!PageType
    <2> QED BY <1>4, <2>2, UPage DEF U!OpenDialog
<1>5. ASSUME U!CloseDialog PROVE UInv'
    <2>2. ui' \in U!PageType /\ ui'.busy = ui.busy /\ ui'.rows = ui.rows /\ ui'.page = ui.page
        BY <1>5 DEF U!CloseDialog, U!PageType, U!DialogType
    <2> QED BY <1>5, <2>2, UPage DEF U!CloseDialog
<1>6. ASSUME U!Submit PROVE UInv'
    <2> DEFINE c == [op |-> "dialog", at |-> "sent", kind |-> ui.dialog.kind,
                     user |-> ui.dialog.user, p |-> ui.page]
    <2>1. ui.dialog.kind \in {"create", "set", "delete"} /\ ui.dialog.user \in Ids \cup {0}
        BY <1>6 DEF U!Submit, U!PageType, U!DialogType
    <2>2. c \in U!CallType /\ UAnswer(c) /\ c.op = "dialog"
        BY <2>1 DEF U!CallType, U!Stages, U!PageType, UAnswer
    <2>3. ui' \in U!PageType /\ ui'.busy /\ ~ui.busy /\ ui'.rows = ui.rows /\ ui'.page = ui.page
        BY <1>6 DEF U!Submit, U!PageType
    <2>4. U!HasRoom(net) /\ net' = U!Sent(net, c) /\ UNCHANGED db BY <1>6 DEF U!Submit
    <2> HIDE DEF c
    <2> QED BY <2>2, <2>3, <2>4, USends
<1>7. ASSUME NEW i \in Slots, U!ServeLoad(i) PROVE UInv'
    <2>1. net[i].op = "load" BY <1>7 DEF U!ServeLoad, U!IsSent
    <2>2. net[i] \in [op : {"load"}, at : U!Stages, p : 1..LastPage, row : Ids \cup {0},
                      rows : U!RowsType, total : 0..Cardinality(Ids)]
        BY <2>1, UKinds
    <2>3. Cardinality(db) \in 0..Cardinality(Ids)
        BY ListsAssumption, FS_Subset, FS_CardinalityType
    <2> USE UCard
    <2> DEFINE rows == [users |-> U!Slice(net[i].p), page |-> net[i].p]
               c == [net[i] EXCEPT !.at = "done", !.total = Cardinality(db), !.rows = rows]
    <2>4. rows \in U!RowsType /\ rows.page = net[i].p
        BY <2>2 DEF U!RowsType, U!Slice
    <2>5. net' = [net EXCEPT ![i] = c] BY <1>7 DEF U!ServeLoad
    <2> HIDE DEF rows
    <2>6. c \in U!CallType /\ UAnswer(c) /\ c.op = "load"
        BY <2>2, <2>3, <2>4 DEF U!CallType, U!Stages, UAnswer
    <2> HIDE DEF c
    <2> QED BY <1>7, <2>5, <2>6, UCall DEF U!ServeLoad
<1>8. ASSUME NEW i \in Slots, U!ServeRow(i) PROVE UInv'
    <2> DEFINE c == [net[i] EXCEPT !.at = "done"]
    <2>1. net[i].op = "row" BY <1>8 DEF U!ServeRow, U!IsSent
    <2>2. c \in U!CallType /\ UAnswer(c) /\ c.op = "row"
        BY <2>1, UKinds DEF U!CallType, U!Stages, UAnswer
    <2>3. net' = [net EXCEPT ![i] = c] BY <1>8 DEF U!ServeRow
    <2> HIDE DEF c
    <2> QED BY <1>8, <2>1, <2>2, <2>3, UCall DEF U!ServeRow
<1>9. ASSUME NEW i \in Slots, U!ServeDialog(i) PROVE UInv'
    <2> DEFINE c == [net[i] EXCEPT !.at = "done"]
    <2>1. net[i].op = "dialog" BY <1>9 DEF U!ServeDialog, U!IsSent
    <2>2. c \in U!CallType /\ UAnswer(c) /\ c.op = "dialog"
        BY <2>1, UKinds DEF U!CallType, U!Stages, UAnswer
    <2>3. net' = [net EXCEPT ![i] = c] /\ UNCHANGED ui BY <1>9 DEF U!ServeDialog
    <2>4. db' \in SUBSET Ids
        <3>1. \/ \E u \in Ids \ db : db' = db \cup {u}
              \/ db' = db \ {net[i].user}
              \/ db' = db
            BY <1>9, <2>1, UKinds DEF U!ServeDialog
        <3> QED BY <3>1
    <2> HIDE DEF c
    <2>5. ui.busy BY <2>1 DEF UInv, UDialogs
    <2> QED BY <2>1, <2>2, <2>3, <2>4, <2>5, UCall
<1>10. ASSUME NEW i \in Slots, U!Loaded(i) PROVE UInv'
    <2>1. net[i].op = "load" /\ net[i].at = "done" BY <1>10 DEF U!Loaded, U!IsDone
    <2>2. net[i] \in [op : {"load"}, at : U!Stages, p : 1..LastPage, row : Ids \cup {0},
                      rows : U!RowsType, total : 0..Cardinality(Ids)]
        BY <2>1, UKinds
    <2>6. U!StillBusy(net[i]) \in Ids \cup {0} BY DEF U!StillBusy, U!PageType
    <2>3. ui' \in U!PageType /\ ui'.busy = ui.busy /\ ui'.rows = net[i].rows /\ ui'.page = net[i].p
        BY <1>10, <2>2, <2>6, UCard DEF U!Loaded, U!PageType
    <2>4. UAgrees' BY <2>1, <2>3 DEF UInv, UAnswers, UAnswer, UAgrees
    <2>5. U!NoCall \in U!CallType /\ UAnswer(U!NoCall) /\ U!NoCall.op = "none"
        BY DEF U!CallType, UAnswer, U!NoCall
    <2> QED BY <1>10, <2>3, <2>4, <2>5, UCall DEF U!Loaded, U!Ended
<1>11. ASSUME NEW i \in Slots, U!LoadFailed(i) PROVE UInv'
    <2>1. net[i].op = "load" BY <1>11 DEF U!LoadFailed, U!MayFail
    <2>2. ui' \in U!PageType /\ ui'.busy = ui.busy /\ UAgrees'
        <3>1. U!StillBusy(net[i]) \in Ids \cup {0} BY DEF U!StillBusy, U!PageType
        <3>2. U!NoRows \in U!RowsType /\ U!NoRows.users = {}
            BY ListsAssumption DEF U!NoRows, U!RowsType
        <3> QED BY <1>11, <3>1, <3>2 DEF U!LoadFailed, U!PageType, UAgrees
    <2>3. U!NoCall \in U!CallType /\ UAnswer(U!NoCall) /\ U!NoCall.op = "none"
        BY DEF U!CallType, UAnswer, U!NoCall
    <2> QED BY <1>11, <2>2, <2>3, UCall DEF U!LoadFailed, U!Ended
<1>12. ASSUME NEW i \in Slots, U!RowWritten(i) PROVE UInv'
    <2>1. net[i] \in [op : {"row"}, at : U!Stages, user : Ids, what : {"role", "other"},
                      p : 1..LastPage]
        BY <1>12, UKinds DEF U!RowWritten, U!IsDone
    <2>2. \E row \in Ids \cup {0} : net' = [net EXCEPT ![i] = U!LoadCall(net[i].p, row)]
        BY <1>12, <2>1 DEF U!RowWritten
    <2>3. ui' \in U!PageType /\ ui'.busy = ui.busy
        BY <1>12 DEF U!RowWritten, U!PageType, U!DialogType
    <2> QED BY <1>12, <2>1, <2>2, <2>3, ULoads, UCall DEF U!RowWritten
<1>13. ASSUME NEW i \in Slots, U!RowFailed(i) PROVE UInv'
    <2>1. net[i].op = "row" BY <1>13 DEF U!RowFailed, U!MayFail
    <2>2. ui' \in U!PageType /\ ui'.busy = ui.busy /\ ui'.rows = ui.rows /\ ui'.page = ui.page
        BY <1>13 DEF U!RowFailed, U!PageType
    <2>3. U!NoCall \in U!CallType /\ UAnswer(U!NoCall) /\ U!NoCall.op = "none"
        BY DEF U!CallType, UAnswer, U!NoCall
    <2> QED BY <1>13, <2>1, <2>2, <2>3, UCall DEF U!RowFailed, U!Ended
<1>14. ASSUME NEW i \in Slots, U!DialogWritten(i) PROVE UInv'
    <2>1. net[i] \in [op : {"dialog"}, at : U!Stages, kind : {"create", "set", "delete"},
                      user : Ids \cup {0}, p : 1..LastPage]
        BY <1>14, UKinds DEF U!DialogWritten, U!IsDone
    <2>2. ui' \in U!PageType
        BY <1>14 DEF U!DialogWritten, U!PageType, U!DialogType
    <2> QED BY <1>14, <2>1, <2>2, ULoads, UCall DEF U!DialogWritten
<1>15. ASSUME NEW i \in Slots, U!DialogFailed(i) PROVE UInv'
    <2>1. net[i].op = "dialog" BY <1>15 DEF U!DialogFailed, U!MayFail
    <2>2. ui' \in U!PageType /\ ui'.rows = ui.rows /\ ui'.page = ui.page
        BY <1>15 DEF U!DialogFailed, U!PageType
    <2>3. U!NoCall \in U!CallType /\ UAnswer(U!NoCall) /\ U!NoCall.op = "none"
        BY DEF U!CallType, UAnswer, U!NoCall
    <2> QED BY <1>15, <2>1, <2>2, <2>3, UCall DEF U!DialogFailed, U!Ended
<1> QED BY <1>2, <1>3, <1>4, <1>5, <1>6, <1>7, <1>8, <1>9, <1>10, <1>11, <1>12, <1>13,
           <1>14, <1>15 DEF U!Next

\* The invariant holds whenever the page is shown.
LEMMA UAlways == Spec => [](page = "users" => UInv)
<1>1. Init => (page = "users" => UInv) BY UInit DEF Init
<1>2. (page = "users" => UInv) /\ [Next]_vars => (page = "users" => UInv)'
    <2> SUFFICES ASSUME page = "users" => UInv, [Next]_vars, page' = "users" PROVE UInv'
        OBVIOUS
    <2>1. CASE UNCHANGED vars
        BY <2>1, UPage, UTypes DEF vars
    <2> QED BY <2>1, UStep DEF Next
<1> QED BY <1>1, <1>2, PTL DEF Spec

\* pages/users: once every load has ended, the page number under the table is
\* that of the rows in it, however loads, dialogs and row buttons overlapped.
THEOREM LabelsMatchRows == Spec => []PageLabelMatchesRows
<1>1. (page = "users" => UInv) => PageLabelMatchesRows
    BY DEF PageLabelMatchesRows, U!PageLabelMatchesRows, U!Flying, UInv, U!TypeOK, ULabel, UAgrees
<1> QED BY <1>1, UAlways, PTL

\* pages/users: Confirm is busy until the write and its reload have ended, so no
\* two dialogs write at a time.
THEOREM DialogsWriteOnce == Spec => []OneDialogWrite
<1>1. ASSUME UInv PROVE U!OneDialogWrite
    <2>1. U!Flying(net, {"dialog"}) = {} \/ \E s : U!Flying(net, {"dialog"}) = {s}
        BY <1>1 DEF U!Flying, UInv, U!TypeOK, UDialogs
    <2>2. Cardinality(U!Flying(net, {"dialog"})) \in {0, 1}
        BY <2>1, FS_EmptySet, FS_Singleton
    <2> QED BY <2>2, UCard DEF U!OneDialogWrite
<1> QED BY <1>1, UAlways, PTL DEF OneDialogWrite

-----------------------------------------------------------------------------
(* pages/Channels.tsx                                                      *)

\* Unless raced, there is one call at most; at rest the list is the table, and
\* so is the list an answered load carries.
HKeys == \A c \in Channels : db[c].key # ""
HAlone == \A i, j \in Slots : net[i].op # "none" /\ net[j].op # "none" => i = j
HFresh == \A i \in Slots : net[i].op = "load" /\ net[i].at = "done" => net[i].list = db
HRest == (\A i \in Slots : net[i].op = "none") => ui.list = db
HInv == H!TypeOK /\ HKeys /\ (~ui.raced => HAlone /\ HFresh /\ HRest)

\* The types of the three variables.
LEMMA HTypes ==
    ASSUME HInv
    PROVE  db \in H!Table /\ ui \in H!PageType /\ net \in [Slots -> H!CallType]
BY DEF HInv, H!TypeOK

\* A call sent takes one of the free slots.
LEMMA HSend ==
    ASSUME NEW c, H!HasRoom(net), H!TypeOK
    PROVE  \E i \in Slots : net[i].op = "none" /\ H!Sent(net, c) = [net EXCEPT ![i] = c]
BY DEF H!HasRoom, H!FreeSlots, H!Sent, H!TypeOK

\* A page opened sends one call and no other.
LEMMA HFirst ==
    ASSUME NEW c
    PROVE  \E i \in Slots : H!Sent(H!Silent(Slots), c) = [H!Silent(Slots) EXCEPT ![i] = c]
BY ListsAssumption DEF H!Sent, H!Silent, H!FreeSlots, H!NoCall

\* The calls the page makes are of their types.
LEMMA HCalls ==
    /\ H!NoCall \in H!CallType /\ H!NoCall.op = "none"
    /\ \A by \in {"none", "save", "toggle"} :
          H!Load(by) \in H!CallType /\ H!Load(by).op = "load" /\ H!Load(by).at = "sent"
    /\ H!NoList \in H!Table
BY DEF H!Load, H!NoList, H!Table, H!CallType, H!NoCall, H!Stages

\* The fields a call of each kind has.
LEMMA HKinds ==
    ASSUME NEW c \in H!CallType
    PROVE  /\ c.op = "load" =>
                c \in [op : {"load"}, at : H!Stages, by : {"none", "save", "toggle"},
                       list : H!Table]
           /\ c.op = "save" =>
                c \in [op : {"save"}, at : H!Stages, id : Channels \cup {0}, row : H!Rows]
           /\ c.op = "toggle" =>
                c \in [op : {"toggle"}, at : H!Stages, id : Channels, status : H!Statuses]
           /\ c.op = "delete" => c \in [op : {"delete"}, at : H!Stages, id : Channels]
BY DEF H!CallType, H!NoCall

\* The invariant holds when the page opens.
LEMMA HInit == ASSUME H!Init PROVE HInv
<1>1. db \in H!Table /\ HKeys
    <2>1. H!NoRow.key # ""
        BY DEF H!NoRow
    <2>2. [key |-> "secret", base |-> "relay", status |-> "active"] \in H!Rows
        BY DEF H!Rows, H!Keys, H!Bases, H!Statuses
    <2>3. \A c \in Channels : db[c] = H!NoRow
                              \/ db[c] = [key |-> "secret", base |-> "relay", status |-> "active"]
        BY DEF H!Init
    <2>4. db \in H!Table BY <2>2 DEF H!Init, H!Table
    <2>5. ASSUME NEW c \in Channels PROVE db[c].key # ""
        <3>1. CASE db[c] = H!NoRow BY <2>1, <3>1
        <3>2. CASE db[c] = [key |-> "secret", base |-> "relay", status |-> "active"]
            <4>1. db[c].key = "secret" BY <3>2
            <4> QED BY <4>1
        <3> QED BY <2>3, <3>1, <3>2
    <2> QED BY <2>4, <2>5 DEF HKeys
<1>2. ui \in H!PageType
    BY HCalls DEF H!Init, H!PageType, H!Closed
<1>3. PICK i \in Slots : net = [H!Silent(Slots) EXCEPT ![i] = H!Load("none")]
    BY HFirst DEF H!Init
<1>4. net \in [Slots -> H!CallType] /\ HAlone /\ HFresh /\ HRest
    BY <1>3, HCalls DEF H!Silent, HAlone, HFresh, HRest
<1> QED BY <1>1, <1>2, <1>4 DEF HInv, H!TypeOK

\* The call in slot i becomes c, and what it did to the table is done.
LEMMA HCall ==
    ASSUME HInv, NEW i \in Slots, NEW c \in H!CallType, net' = [net EXCEPT ![i] = c],
           db' \in H!Table, ui' \in H!PageType, HKeys',
           ~ui'.raced => ~ui.raced /\ (net[i].op # "none" \/ H!Settled(net)),
           ~ui'.raced /\ c.op = "none" => ui'.list = db',
           ~ui'.raced /\ c.op = "load" /\ c.at = "done" => c.list = db'
    PROVE  HInv'
<1> USE HTypes
<1>1. H!TypeOK' BY DEF H!TypeOK
<1>2. net'[i] = c /\ \A j \in Slots \ {i} : net'[j] = net[j]
    OBVIOUS
<1>3. ASSUME ~ui'.raced PROVE \A j \in Slots \ {i} : net[j].op = "none"
    BY <1>3 DEF HInv, HAlone, H!Settled
<1>4. ASSUME ~ui'.raced PROVE (HAlone /\ HFresh /\ HRest)'
    BY <1>2, <1>3, <1>4 DEF HAlone, HFresh, HRest
<1> QED BY <1>1, <1>4 DEF HInv

\* A call leaves; beside another one, the page is raced.
LEMMA HSends ==
    ASSUME HInv, H!HasRoom(net), NEW c \in H!CallType, net' = H!Sent(net, c),
           UNCHANGED db, ui' \in H!PageType, ui'.raced = (ui.raced \/ ~H!Settled(net)),
           c.op # "none", c.at = "sent"
    PROVE  HInv'
<1>1. PICK i \in Slots : net[i].op = "none" /\ net' = [net EXCEPT ![i] = c]
    BY HSend DEF HInv
<1>2. HKeys' BY DEF HInv, HKeys
<1> QED BY <1>1, <1>2, HTypes, HCall

\* Only the dialogs change.
LEMMA HPage ==
    ASSUME HInv, UNCHANGED <<db, net>>, ui' \in H!PageType, ui'.raced = ui.raced,
           ui'.list = ui.list
    PROVE  HInv'
BY DEF HInv, H!TypeOK, HKeys, HAlone, HFresh, HRest

\* A write that was carried out, with the table it left.
LEMMA HServe ==
    ASSUME HInv, NEW i \in Slots, NEW table \in H!Table, H!Serve(i, table),
           net[i].op \in {"save", "toggle", "delete"},
           \A c \in Channels : table[c].key # ""
    PROVE  HInv'
<1> DEFINE c == [net[i] EXCEPT !.at = "done"]
<1>1. c \in H!CallType /\ c.op = net[i].op
    BY HTypes, HKinds DEF H!CallType, H!Stages
<1>2. net' = [net EXCEPT ![i] = c] BY DEF H!Serve
<1>3. HKeys' BY DEF H!Serve, HKeys
<1> HIDE DEF c
<1> QED BY <1>1, <1>2, <1>3, HTypes, HCall DEF H!Serve

\* Every action of the page keeps the invariant.
LEMMA HStep == ASSUME HInv, H!Next PROVE HInv'
<1> USE HTypes
<1> HKeys BY DEF HInv
<1>1. ASSUME H!Refresh PROVE HInv'
    <2>1. ui' \in H!PageType /\ ui'.raced = (ui.raced \/ ~H!Settled(net))
        BY <1>1 DEF H!Refresh, H!PageType
    <2> QED BY <1>1, <2>1, HCalls, HSends DEF H!Refresh
<1>2. ASSUME NEW dialog \in {H!Closed} \cup [open : {TRUE}, editing : Channels \cup {0}],
             NEW deleting \in Channels \cup {0},
             ui' = [[ui EXCEPT !.dialog = dialog] EXCEPT !.deleting = deleting],
             UNCHANGED <<db, net>>
      PROVE  HInv'
    <2>1. ui' \in H!PageType /\ ui'.raced = ui.raced /\ ui'.list = ui.list
        BY <1>2 DEF H!PageType
    <2> QED BY <1>2, <2>1, HPage
<1>19. ASSUME H!OpenCreate \/ H!CloseDialog \/ \E c \in Channels : H!OpenEdit(c) PROVE HInv'
    <2>1. PICK dialog \in {H!Closed} \cup [open : {TRUE}, editing : Channels \cup {0}] :
             ui' = [ui EXCEPT !.dialog = dialog] /\ UNCHANGED <<db, net>>
        BY <1>19 DEF H!OpenCreate, H!CloseDialog, H!OpenEdit
    <2>2. ui.deleting \in Channels \cup {0}
          /\ ui' = [[ui EXCEPT !.dialog = dialog] EXCEPT !.deleting = ui.deleting]
        BY <2>1 DEF H!PageType
    <2> QED BY <1>2, <2>1, <2>2
<1>20. ASSUME H!KeepChannel \/ \E c \in Channels : H!AskDelete(c) PROVE HInv'
    <2>1. ui' \in H!PageType /\ ui'.raced = ui.raced /\ ui'.list = ui.list
        BY <1>20 DEF H!KeepChannel, H!AskDelete, H!PageType
    <2> QED BY <1>20, <2>1, HPage DEF H!KeepChannel, H!AskDelete
<1>3. ASSUME H!ConfirmDelete PROVE HInv'
    <2> DEFINE c == [op |-> "delete", at |-> "sent", id |-> ui.deleting]
    <2>1. c \in H!CallType /\ c.op = "delete" /\ c.at = "sent"
        BY <1>3 DEF H!ConfirmDelete, H!CallType, H!Stages, H!PageType
    <2>2. ui' \in H!PageType /\ ui'.raced = (ui.raced \/ ~H!Settled(net))
        BY <1>3 DEF H!ConfirmDelete, H!Send, H!PageType
    <2>3. H!HasRoom(net) /\ net' = H!Sent(net, c) /\ UNCHANGED db
        BY <1>3 DEF H!ConfirmDelete, H!Send
    <2> HIDE DEF c
    <2> QED BY <2>1, <2>2, <2>3, HSends
<1>4. ASSUME NEW form \in H!Rows, H!Submit(form) PROVE HInv'
    <2> DEFINE c == [op |-> "save", at |-> "sent", id |-> ui.dialog.editing, row |-> form]
    <2>5. ui.dialog.open /\ ui.dialog \in {H!Closed} \cup [open : {TRUE}, editing : Channels \cup {0}]
        BY <1>4 DEF H!Submit, H!PageType
    <2>1. ui.dialog.editing \in Channels \cup {0}
        <3>1. CASE ui.dialog = H!Closed BY <3>1 DEF H!Closed
        <3>2. CASE ui.dialog \in [open : {TRUE}, editing : Channels \cup {0}] BY <3>2
        <3> QED BY <2>5, <3>1, <3>2
    <2>2. c \in H!CallType /\ c.op = "save" /\ c.at = "sent"
        BY <2>1 DEF H!CallType, H!Stages
    <2>3. ui' \in H!PageType /\ ui'.raced = (ui.raced \/ ~H!Settled(net))
        BY <1>4 DEF H!Submit, H!PageType
    <2>4. H!HasRoom(net) /\ net' = H!Sent(net, c) /\ UNCHANGED db BY <1>4 DEF H!Submit
    <2> HIDE DEF c
    <2> QED BY <2>2, <2>3, <2>4, HSends
<1>5. ASSUME NEW id \in Channels, H!Toggle(id) PROVE HInv'
    <2> DEFINE c == [op |-> "toggle", at |-> "sent", id |-> id,
                     status |-> H!Other(ui.list[id].status)]
    <2>1. c \in H!CallType /\ c.op = "toggle" /\ c.at = "sent"
        BY DEF H!CallType, H!Stages, H!Other, H!Statuses
    <2>2. ui' \in H!PageType /\ ui'.raced = (ui.raced \/ ~H!Settled(net))
        BY <1>5 DEF H!Toggle, H!PageType
    <2>3. H!HasRoom(net) /\ net' = H!Sent(net, c) /\ UNCHANGED db BY <1>5 DEF H!Toggle
    <2> HIDE DEF c
    <2> QED BY <2>1, <2>2, <2>3, HSends
<1>6. ASSUME NEW c \in Channels, H!Outside(c) PROVE HInv'
    <2>1. db' \in H!Table /\ HKeys'
        BY <1>6 DEF H!Outside, H!Listed, H!Table, H!Rows, H!Other, H!Statuses, HKeys
    <2>2. ui' \in H!PageType /\ ui'.raced BY <1>6 DEF H!Outside, H!PageType
    <2> QED BY <1>6, <2>1, <2>2 DEF H!Outside, HInv, H!TypeOK
<1>7. ASSUME NEW i \in Slots, H!ServeLoad(i) PROVE HInv'
    <2> DEFINE c == [net[i] EXCEPT !.at = "done", !.list = db]
    <2>1. c \in H!CallType /\ c.op = "load" /\ c.list = db /\ net[i].op = "load"
        BY <1>7, HKinds DEF H!ServeLoad, H!IsSent, H!CallType, H!Stages
    <2>2. net' = [net EXCEPT ![i] = c] /\ UNCHANGED <<db, ui>> BY <1>7 DEF H!ServeLoad
    <2>3. HKeys' BY <2>2 DEF HKeys
    <2> HIDE DEF c
    <2> QED BY <2>1, <2>2, <2>3, HCall
<1>8. ASSUME NEW i \in Slots, H!ServeCreate(i) PROVE HInv'
    <2>1. PICK id \in Channels \ H!Listed(db) : H!Serve(i, [db EXCEPT ![id] = net[i].row])
        BY <1>8 DEF H!ServeCreate
    <2>4. net[i].op = "save" /\ net[i].row.key # ""
        BY <1>8 DEF H!ServeCreate, H!IsSent
    <2>2. net[i].row \in H!Rows
        <3>1. net[i] \in [op : {"save"}, at : H!Stages, id : Channels \cup {0}, row : H!Rows]
            BY <2>4, HKinds
        <3> QED BY <3>1
    <2> DEFINE table == [db EXCEPT ![id] = net[i].row]
    <2>3. table \in H!Table /\ \A c \in Channels : table[c].key # ""
        BY <2>2, <2>4 DEF H!Table, HKeys
    <2>5. H!Serve(i, table) BY <2>1
    <2> HIDE DEF table
    <2> QED BY <2>3, <2>4, <2>5, HServe
<1>9. ASSUME NEW i \in Slots, H!ServeUpdate(i) PROVE HInv'
    <2> DEFINE id == net[i].id
               new == net[i].row
               row == [key |-> IF new.key = "" THEN db[id].key ELSE new.key,
                       base |-> IF new.base = "" THEN db[id].base ELSE new.base,
                       status |-> new.status]
               table == [db EXCEPT ![id] = row]
    <2>5. net[i].op = "save" /\ id \in H!Listed(db)
        BY <1>9 DEF H!ServeUpdate, H!IsSent
    <2>6. new \in H!Rows
        <3>1. net[i] \in [op : {"save"}, at : H!Stages, id : Channels \cup {0}, row : H!Rows]
            BY <2>5, HKinds
        <3> QED BY <3>1
    <2>1. net[i].op = "save" /\ new \in H!Rows /\ id \in Channels /\ db[id] \in H!Rows
        BY <2>5, <2>6 DEF H!Listed, H!Table
    <2>2. row \in H!Rows /\ row.key # ""
        BY <2>1 DEF H!Rows, HKeys
    <2>3. H!Serve(i, table) BY <1>9 DEF H!ServeUpdate
    <2> HIDE DEF row
    <2>4. table \in H!Table /\ \A c \in Channels : table[c].key # ""
        BY <2>1, <2>2 DEF H!Table, HKeys
    <2> HIDE DEF table
    <2> QED BY <2>1, <2>3, <2>4, HServe
<1>10. ASSUME NEW i \in Slots, H!ServeToggle(i) PROVE HInv'
    <2> DEFINE id == net[i].id
               table == [db EXCEPT ![id] = [@ EXCEPT !.status = net[i].status]]
    <2>1. net[i].op = "toggle" /\ net[i].status \in H!Statuses /\ id \in Channels
          /\ db[id] \in H!Rows
        BY <1>10, HKinds DEF H!ServeToggle, H!IsSent, H!Listed, H!Table
    <2>2. H!Serve(i, table) BY <1>10 DEF H!ServeToggle
    <2>3. table \in H!Table /\ \A c \in Channels : table[c].key # ""
        BY <2>1 DEF H!Table, H!Rows, HKeys
    <2> HIDE DEF table
    <2> QED BY <2>1, <2>2, <2>3, HServe
<1>11. ASSUME NEW i \in Slots, H!ServeDelete(i) PROVE HInv'
    <2> DEFINE table == [db EXCEPT ![net[i].id] = H!NoRow]
    <2>1. net[i].op = "delete" /\ H!Serve(i, table) BY <1>11 DEF H!ServeDelete, H!IsSent
    <2>2. table \in H!Table /\ \A c \in Channels : table[c].key # ""
        BY <1>11 DEF H!ServeDelete, H!Listed, H!Table, H!NoRow, HKeys
    <2> HIDE DEF table
    <2> QED BY <2>1, <2>2, HServe
<1>12. ASSUME NEW i \in Slots, NEW list \in H!Table, NEW failed \in BOOLEAN,
              net[i].op = "load", failed \/ (net[i].at = "done" /\ list = net[i].list),
              H!ListAfter(i, list, failed)
       PROVE  HInv'
    <2>1. net' = [net EXCEPT ![i] = H!NoCall] /\ UNCHANGED db
        BY <1>12 DEF H!ListAfter, H!Ended
    <2>2. ui' \in H!PageType /\ ui'.raced = (ui.raced \/ failed) /\ ui'.list = list
        BY <1>12 DEF H!ListAfter, H!PageType
    <2>3. ~ui'.raced => ui'.list = db' BY <1>12, <2>1, <2>2 DEF HInv, HFresh
    <2>4. HKeys' BY <2>1 DEF HKeys
    <2> QED BY <1>12, <2>1, <2>2, <2>3, <2>4, HCalls, HCall
<1>13. ASSUME NEW i \in Slots, H!Loaded(i) \/ H!LoadFailed(i) PROVE HInv'
    <2>1. net[i].op = "load" BY <1>13 DEF H!Loaded, H!LoadFailed, H!IsDone, H!MayFail
    <2>2. net[i].list \in H!Table BY <2>1, HKinds
    <2> QED BY <1>12, <1>13, <2>1, <2>2, HCalls DEF H!Loaded, H!LoadFailed, H!IsDone
<1>14. ASSUME NEW i \in Slots, NEW by \in {"none", "save", "toggle"}, NEW state \in H!PageType,
              state.raced = ui.raced, net[i].op # "none", H!Reloads(i, by, state)
       PROVE  HInv'
    <2>1. ui' \in H!PageType /\ ui'.raced = ui.raced BY <1>14 DEF H!Reloads, H!PageType
    <2>2. HKeys' BY <1>14 DEF H!Reloads, HKeys
    <2> QED BY <1>14, <2>1, <2>2, HCalls, HCall DEF H!Reloads
<1>15. ASSUME NEW i \in Slots, H!Saved(i) PROVE HInv'
    <2>1. [ui EXCEPT !.dialog = H!Closed] \in H!PageType BY DEF H!PageType
    <2> QED BY <1>14, <1>15, <2>1 DEF H!Saved, H!IsDone, H!PageType
<1>16. ASSUME NEW i \in Slots, H!Toggled(i) PROVE HInv'
    BY <1>14, <1>16 DEF H!Toggled, H!IsDone
<1>17. ASSUME NEW i \in Slots, H!Deleted(i) PROVE HInv'
    <2>1. [ui EXCEPT !.deleting = 0] \in H!PageType BY DEF H!PageType
    <2> QED BY <1>14, <1>17, <2>1 DEF H!Deleted, H!IsDone, H!PageType
<1>18. ASSUME NEW i \in Slots, H!WriteFailed(i) PROVE HInv'
    <2>1. ui' \in H!PageType /\ ui'.raced BY <1>18 DEF H!WriteFailed, H!PageType
    <2>2. HKeys' BY <1>18 DEF H!WriteFailed, HKeys
    <2> QED BY <1>18, <2>1, <2>2, HCalls, HCall DEF H!WriteFailed, H!Ended
<1> QED BY <1>1, <1>19, <1>20, <1>3, <1>4, <1>5, <1>6, <1>7, <1>8, <1>9, <1>10, <1>11, <1>13,
           <1>15, <1>16, <1>17, <1>18 DEF H!Next

\* The invariant holds whenever the page is shown.
LEMMA HAlways == Spec => [](page = "channels" => HInv)
<1>1. Init => (page = "channels" => HInv) BY HInit DEF Init
<1>2. (page = "channels" => HInv) /\ [Next]_vars => (page = "channels" => HInv)'
    <2> SUFFICES ASSUME page = "channels" => HInv, [Next]_vars, page' = "channels" PROVE HInv'
        OBVIOUS
    <2>1. CASE UNCHANGED vars
        BY <2>1, HPage, HTypes DEF vars
    <2> QED BY <2>1, HStep DEF Next
<1> QED BY <1>1, <1>2, PTL DEF Spec

\* pages/Channels.tsx: the edit form shows no key and a blank one is not sent as
\* one, so no save leaves a channel without its upstream key.
THEOREM KeysAreKept == Spec => []KeepsUpstreamKey
<1>1. (page = "channels" => HInv) => KeepsUpstreamKey
    BY DEF KeepsUpstreamKey, H!KeepsUpstreamKey, H!Listed, HInv, HKeys
<1> QED BY <1>1, HAlways, PTL

\* pages/Channels.tsx: at rest, unless handlers overlapped, a call failed or somebody
\* else wrote, the list on the screen is the table of the server.
THEOREM ListsSettle == Spec => []ChannelListSettles
<1>1. (page = "channels" => HInv) => ChannelListSettles
    BY DEF ChannelListSettles, H!ListSettles, H!Settled, HInv, H!TypeOK, HRest
<1> QED BY <1>1, HAlways, PTL

-----------------------------------------------------------------------------
(* pages/keys                                                              *)

\* A call sent takes one of the free slots.
LEMMA KSend ==
    ASSUME NEW c, K!HasRoom(net), K!TypeOK
    PROVE  \E i \in Slots : net[i].op = "none" /\ K!Sent(net, c) = [net EXCEPT ![i] = c]
BY DEF K!HasRoom, K!FreeSlots, K!Sent, K!TypeOK

\* A page opened sends one call and no other.
LEMMA KFirst ==
    ASSUME NEW c
    PROVE  K!Sent(K!Silent(Slots), c) \in [Slots -> {K!NoCall, c}]
BY DEF K!Sent, K!Silent

\* The call c will put the secret of key k on the screen.
KTells(c, k) ==
    \/ c.op = "create" /\ c.at = "done" /\ c.key = k
    \/ c.op = "load" /\ c.by = k
KKnown(k) == k \in ui.seen \cup ui.lost
KOwed == \A k \in TokenIds :
    db[k] = "none" \/ KKnown(k) \/ \E i \in Slots : KTells(net[i], k)
KInv == K!TypeOK /\ KOwed

\* A load is of its type.
LEMMA KLoads == ASSUME NEW k \in TokenIds \cup {0} PROVE K!Load(k) \in K!CallType
BY DEF K!Load, K!CallType, K!NoTokens, K!States, K!Stages

\* The invariant holds when the page opens.
LEMMA KInit == ASSUME K!Init PROVE KInv
<1>1. db \in [TokenIds -> K!States] BY DEF K!Init, K!States
<1>2. ui \in K!PageType
    BY DEF K!Init, K!PageType, K!States, K!Filters, K!NoTokens, K!Exists
<1>3. net \in [Slots -> K!CallType]
    BY KFirst, KLoads DEF K!Init, K!CallType
<1>4. KOwed
    BY DEF K!Init, KOwed, K!Exists, KKnown
<1> QED BY <1>1, <1>2, <1>3, <1>4 DEF KInv, K!TypeOK

\* The call in slot i becomes c; what was told stays told, and what the call
\* was to tell, c will.
LEMMA KCall ==
    ASSUME KInv, NEW i \in Slots, NEW c \in K!CallType, net' = [net EXCEPT ![i] = c],
           db' \in [TokenIds -> K!States], ui' \in K!PageType,
           \A k \in TokenIds : KKnown(k) => KKnown(k)',
           \A k \in TokenIds : db[k] = "none" => db'[k] = "none" \/ KTells(c, k),
           \A k \in TokenIds : KTells(net[i], k) => KTells(c, k) \/ KKnown(k)'
    PROVE  KInv'
<1>1. K!TypeOK' BY DEF KInv, K!TypeOK
<1>2. ASSUME NEW k \in TokenIds
      PROVE  db'[k] = "none" \/ KKnown(k)' \/ \E j \in Slots : KTells(net'[j], k)
    <2>1. net'[i] = c /\ \A j \in Slots \ {i} : net'[j] = net[j]
        BY DEF KInv, K!TypeOK
    <2> QED BY <2>1 DEF KInv, KOwed
<1> QED BY <1>1, <1>2 DEF KInv, KOwed

\* A call leaves that has created nothing yet.
LEMMA KSends ==
    ASSUME KInv, K!HasRoom(net), NEW c \in K!CallType, net' = K!Sent(net, c),
           UNCHANGED db, ui' \in K!PageType, \A k \in TokenIds : KKnown(k) => KKnown(k)'
    PROVE  KInv'
<1>1. PICK i \in Slots : net[i].op = "none" /\ net' = [net EXCEPT ![i] = c]
    BY KSend DEF KInv
<1>2. \A k \in TokenIds : ~KTells(net[i], k) BY <1>1 DEF KTells
<1>3. db' \in [TokenIds -> K!States] BY DEF KInv, K!TypeOK
<1> QED BY <1>1, <1>2, <1>3, KCall

\* Every action of the page keeps the invariant.
LEMMA KStep == ASSUME KInv, K!Next PROVE KInv'
<1> db \in [TokenIds -> K!States] /\ ui \in K!PageType /\ net \in [Slots -> K!CallType]
    BY DEF KInv, K!TypeOK
<1>1. ASSUME K!Create PROVE KInv'
    <2>1. [op |-> "create", at |-> "sent", key |-> 0] \in K!CallType
        BY DEF K!CallType, K!Stages
    <2> QED BY <1>1, <2>1, KSends DEF K!Create, K!PageType, KKnown
<1>2. ASSUME NEW f \in K!Filters, K!Filter(f) PROVE KInv'
    BY <1>2 DEF K!Filter, KInv, K!TypeOK, KOwed, K!PageType, KKnown
<1>3. ASSUME NEW k \in TokenIds, K!Toggle(k) PROVE KInv'
    <2>1. [op |-> "toggle", at |-> "sent", key |-> k, status |-> K!Other(ui.list[k])] \in K!CallType
        BY DEF K!CallType, K!Stages, K!Other, K!States
    <2> QED BY <1>3, <2>1, KSends DEF K!Toggle, KKnown
<1>4. ASSUME NEW k \in TokenIds, K!Remove(k) PROVE KInv'
    <2>1. [op |-> "remove", at |-> "sent", key |-> k] \in K!CallType
        BY DEF K!CallType, K!Stages
    <2> QED BY <1>4, <2>1, KSends DEF K!Remove, KKnown
<1>5. ASSUME NEW i \in Slots, K!ServeLoad(i) PROVE KInv'
    <2> DEFINE c == [net[i] EXCEPT !.at = "done", !.list = db]
    <2>1. c \in K!CallType
        BY <1>5 DEF K!ServeLoad, K!IsSent, K!CallType, K!Stages, K!NoCall
    <2>2. net' = [net EXCEPT ![i] = c] BY <1>5 DEF K!ServeLoad
    <2>3. \A k \in TokenIds : KTells(net[i], k) => KTells(c, k)
        BY <1>5 DEF K!ServeLoad, K!IsSent, KTells, K!CallType, K!NoCall
    <2> HIDE DEF c
    <2> QED BY <1>5, <2>1, <2>2, <2>3, KCall DEF K!ServeLoad, KKnown
<1>6. ASSUME NEW i \in Slots, K!ServeCreate(i) PROVE KInv'
    <2>1. PICK k \in TokenIds :
             /\ db[k] = "none" /\ db' = [db EXCEPT ![k] = "active"]
             /\ net' = [net EXCEPT ![i] = [@ EXCEPT !.at = "done", !.key = k]]
        BY <1>6 DEF K!ServeCreate
    <2> DEFINE c == [net[i] EXCEPT !.at = "done", !.key = k]
    <2>2. net[i] \in [op : {"create"}, at : K!Stages, key : TokenIds \cup {0}]
        BY <1>6 DEF K!ServeCreate, K!IsSent, K!CallType, K!NoCall
    <2>3. c \in K!CallType /\ c.op = "create" /\ c.at = "done" /\ c.key = k
        BY <2>2 DEF K!CallType, K!Stages
    <2>4. \A j \in TokenIds : ~KTells(net[i], j)
        BY <1>6 DEF K!ServeCreate, K!IsSent, KTells
    <2>5. db' \in [TokenIds -> K!States] BY <2>1 DEF K!States
    <2>6. net' = [net EXCEPT ![i] = c] BY <2>1
    <2> HIDE DEF c
    <2>7. \A j \in TokenIds : db[j] = "none" => db'[j] = "none" \/ KTells(c, j)
        BY <2>1, <2>3 DEF KTells
    <2> QED BY <1>6, <2>3, <2>4, <2>5, <2>6, <2>7, KCall DEF K!ServeCreate, KKnown
<1>7. ASSUME NEW i \in Slots, K!ServeWrite(i) PROVE KInv'
    <2> DEFINE c == [net[i] EXCEPT !.at = "done"]
    <2>1. c \in K!CallType /\ net' = [net EXCEPT ![i] = c]
        BY <1>7 DEF K!ServeWrite, K!IsSent, K!CallType, K!Stages, K!NoCall
    <2>2. \A j \in TokenIds : ~KTells(net[i], j)
        BY <1>7 DEF K!ServeWrite, K!IsSent, KTells
    <2>3. db' \in [TokenIds -> K!States] /\ \A j \in TokenIds : db[j] = "none" => db'[j] = "none"
        BY <1>7 DEF K!ServeWrite, K!IsSent, K!Exists, K!CallType, K!States, K!NoCall
    <2> HIDE DEF c
    <2> QED BY <1>7, <2>1, <2>2, <2>3, KCall DEF K!ServeWrite, KKnown
<1>8. ASSUME NEW i \in Slots, NEW answered \in BOOLEAN, K!Loaded(i, answered) PROVE KInv'
    <2>1. net[i] \in [op : {"load"}, at : K!Stages, by : TokenIds \cup {0},
                      list : [TokenIds -> K!States]]
        BY <1>8 DEF K!Loaded, K!IsDone, K!MayFail, K!CallType, K!NoCall
    <2>2. ui' \in K!PageType /\ \A k \in TokenIds : KKnown(k) => KKnown(k)'
        BY <1>8, <2>1 DEF K!Loaded, K!PageType, KKnown, K!NoTokens, K!States
    <2>3. \A k \in TokenIds : KTells(net[i], k) => KKnown(k)'
        BY <1>8, <2>1, ListsAssumption DEF K!Loaded, K!PageType, KKnown, KTells
    <2>4. K!NoCall \in K!CallType BY DEF K!CallType
    <2> QED BY <1>8, <2>2, <2>3, <2>4, KCall DEF K!Loaded, K!Ended
<1>9. ASSUME NEW i \in Slots, K!Created(i) PROVE KInv'
    <2>1. net[i] \in [op : {"create"}, at : K!Stages, key : TokenIds \cup {0}]
        BY <1>9 DEF K!Created, K!IsDone, K!CallType, K!NoCall
    <2>2. K!Load(net[i].key) \in K!CallType BY <2>1, KLoads
    <2>3. \A k \in TokenIds : KTells(net[i], k) => KTells(K!Load(net[i].key), k)
        BY <2>1 DEF KTells, K!Load
    <2> QED BY <1>9, <2>2, <2>3, KCall DEF K!Created, KKnown
<1>10. ASSUME NEW i \in Slots, K!Written(i) PROVE KInv'
    <2>1. \A k \in TokenIds : ~KTells(net[i], k)
        BY <1>10 DEF K!Written, K!IsDone, KTells
    <2> QED BY <1>10, <2>1, KLoads, KCall DEF K!Written, KKnown
<1>11. ASSUME NEW i \in Slots, K!CreateFailed(i) PROVE KInv'
    <2>1. net[i] \in [op : {"create"}, at : K!Stages, key : TokenIds \cup {0}]
        BY <1>11 DEF K!CreateFailed, K!MayFail, K!CallType, K!NoCall
    <2>2. ui' \in K!PageType /\ \A k \in TokenIds : KKnown(k) \/ KTells(net[i], k) => KKnown(k)'
        BY <1>11, <2>1, ListsAssumption DEF K!CreateFailed, K!PageType, KKnown, KTells
    <2>3. K!NoCall \in K!CallType BY DEF K!CallType
    <2> QED BY <1>11, <2>2, <2>3, KCall DEF K!CreateFailed, K!Ended
<1>12. ASSUME NEW i \in Slots, K!WriteFailed(i) PROVE KInv'
    <2>1. \A k \in TokenIds : ~KTells(net[i], k)
        BY <1>12 DEF K!WriteFailed, K!MayFail, KTells
    <2>2. K!NoCall \in K!CallType BY DEF K!CallType
    <2> QED BY <1>12, <2>1, <2>2, KCall DEF K!WriteFailed, K!Ended, KKnown
<1> QED BY <1>1, <1>2, <1>3, <1>4, <1>5, <1>6, <1>7, <1>8, <1>9, <1>10, <1>11, <1>12 DEF K!Next

\* The invariant holds whenever the page is shown.
LEMMA KAlways == Spec => [](page = "keys" => KInv)
<1>1. Init => (page = "keys" => KInv) BY KInit DEF Init
<1>2. (page = "keys" => KInv) /\ [Next]_vars => (page = "keys" => KInv)'
    <2> SUFFICES ASSUME page = "keys" => KInv, [Next]_vars, page' = "keys" PROVE KInv'
        OBVIOUS
    <2>1. CASE UNCHANGED vars
        BY <2>1 DEF vars, KInv, K!TypeOK, KOwed, KKnown
    <2> QED BY <2>1, KStep DEF Next
<1> QED BY <1>1, <1>2, PTL DEF Spec

\* pages/keys: a key's secret is in the answer of its creation and in every list,
\* so at rest each key that exists was shown, or the page said that it failed.
THEOREM SecretsReachUser == Spec => []SecretsShown
<1>1. (page = "keys" => KInv) => SecretsShown
    BY DEF SecretsShown, K!SecretsShown, K!Settled, KInv, KOwed, K!TypeOK, KTells, KKnown
<1> QED BY <1>1, KAlways, PTL

-----------------------------------------------------------------------------
(* pages/Models.tsx                                                        *)

\* While nobody was hasty: what is stored, or on its way to be, or in the form
\* once it is filled, is a price of that model's own.
MOwn(price, m) == price \in {"none", "typed", m}
MMeta(i) == net[i].op = "meta"
MQuiet ==
    /\ \A m \in ModelNames : MOwn(db[m], m)
    /\ \A i \in Slots : net[i].op \in {"meta", "save"} => MOwn(net[i].price, net[i].model)
    /\ \A i, j \in Slots : MMeta(i) /\ MMeta(j) => i = j
    /\ ui.edit # "none" =>
          \/ \E i \in Slots : MMeta(i) /\ net[i].model = ui.edit
          \/ (\A i \in Slots : ~MMeta(i)) /\ MOwn(ui.form, ui.edit)
MInv == M!TypeOK /\ (~ui.hasty => MQuiet)

\* The types of the three variables.
LEMMA MTypes ==
    ASSUME MInv
    PROVE  db \in [ModelNames -> M!Origins] /\ ui \in M!PageType /\ net \in [Slots -> M!CallType]
BY DEF MInv, M!TypeOK

\* A call sent takes one of the free slots.
LEMMA MSend ==
    ASSUME NEW c, M!HasRoom(net), M!TypeOK
    PROVE  \E i \in Slots : net[i].op = "none" /\ M!Sent(net, c) = [net EXCEPT ![i] = c]
BY DEF M!HasRoom, M!FreeSlots, M!Sent, M!TypeOK

\* A page opened sends one call and no other.
LEMMA MFirst ==
    ASSUME NEW c
    PROVE  M!Sent(M!Silent(Slots), c) \in [Slots -> {M!NoCall, c}]
BY DEF M!Sent, M!Silent

\* The fields a call of each kind has.
LEMMA MKinds ==
    ASSUME NEW c \in M!CallType
    PROVE  /\ c.op = "list" => c \in [op : {"list"}, at : M!Stages]
           /\ c.op = "meta" =>
                c \in [op : {"meta"}, at : M!Stages, model : ModelNames, price : M!Origins]
           /\ c.op = "save" =>
                c \in [op : {"save"}, at : M!Stages, model : ModelNames, price : M!Origins]
BY DEF M!CallType, M!NoCall

\* The calls the page makes are of their types.
LEMMA MCalls ==
    /\ M!NoCall \in M!CallType /\ M!NoCall.op = "none"
    /\ M!ListCall \in M!CallType /\ M!ListCall.op = "list"
BY DEF M!ListCall, M!CallType, M!NoCall, M!Stages

\* The invariant holds when the page opens.
LEMMA MInit == ASSUME M!Init PROVE MInv
<1>1. db \in [ModelNames -> M!Origins] /\ \A m \in ModelNames : MOwn(db[m], m)
    BY DEF M!Init, MOwn
<1>2. ui \in M!PageType /\ ui.edit = "none"
    BY DEF M!Init, M!PageType, M!Origins
<1>3. net \in [Slots -> {M!NoCall, M!ListCall}]
    BY MFirst DEF M!Init
<1>4. net \in [Slots -> M!CallType] /\ \A i \in Slots : net[i].op \in {"none", "list"}
    BY <1>3, MCalls
<1> QED BY <1>1, <1>2, <1>4 DEF MInv, M!TypeOK, MQuiet, MMeta

\* The call in slot i becomes c.
LEMMA MCall ==
    ASSUME MInv, NEW i \in Slots, NEW c \in M!CallType, net' = [net EXCEPT ![i] = c],
           db' \in [ModelNames -> M!Origins], ui' \in M!PageType, ~ui'.hasty => ~ui.hasty,
           ~ui'.hasty => \A m \in ModelNames : MOwn(db'[m], m),
           ~ui'.hasty /\ c.op \in {"meta", "save"} => MOwn(c.price, c.model),
           ~ui'.hasty /\ c.op = "meta" => MMeta(i) \/ \A j \in Slots : ~MMeta(j),
           \/ ui'.edit = "none"
           \/ ui'.hasty
           \/ c.op = "meta" /\ c.model = ui'.edit
           \/ c.op # "meta" /\ ~MMeta(i) /\ ui'.edit = ui.edit /\ ui'.form = ui.form
           \/ c.op # "meta" /\ MMeta(i) /\ MOwn(ui'.form, ui'.edit)
    PROVE  MInv'
<1> USE MTypes
<1>1. M!TypeOK' BY DEF M!TypeOK
<1>2. net'[i] = c /\ \A j \in Slots \ {i} : net'[j] = net[j]
    OBVIOUS
<1>3. ASSUME ~ui'.hasty PROVE MQuiet'
    <2> MQuiet BY <1>3 DEF MInv
    <2>1. \A j \in Slots : net'[j].op \in {"meta", "save"} => MOwn(net'[j].price, net'[j].model)
        BY <1>2, <1>3 DEF MQuiet
    <2>2. \A j, k \in Slots : MMeta(j)' /\ MMeta(k)' => j = k
        BY <1>2, <1>3 DEF MQuiet, MMeta
    <2>3. ui'.edit # "none" =>
              \/ \E j \in Slots : MMeta(j)' /\ net'[j].model = ui'.edit
              \/ (\A j \in Slots : ~MMeta(j)') /\ MOwn(ui'.form, ui'.edit)
        BY <1>2, <1>3 DEF MQuiet, MMeta
    <2> QED BY <1>3, <2>1, <2>2, <2>3 DEF MQuiet
<1> QED BY <1>1, <1>3 DEF MInv

\* The page's own check for prices on their way looks at every slot.
LEMMA MPending == ASSUME MInv PROVE M!Pending <=> \E i \in Slots : MMeta(i)
BY DEF M!Pending, M!Flying, MMeta, MInv, M!TypeOK

\* Every action of the page keeps the invariant.
LEMMA MStep == ASSUME MInv, M!Next PROVE MInv'
<1> USE MTypes
<1> DEFINE Owned == ~ui.hasty => \A m \in ModelNames : MOwn(db[m], m)
<1>a. Owned BY DEF MInv, MQuiet
<1> HIDE DEF Owned
<1>1. ASSUME M!Refresh PROVE MInv'
    <2>1. PICK i \in Slots : net[i].op = "none" /\ net' = [net EXCEPT ![i] = M!ListCall]
        BY <1>1, MSend DEF MInv, M!Refresh
    <2>2. ui' \in M!PageType /\ ui'.hasty = ui.hasty /\ ui'.edit = ui.edit /\ ui'.form = ui.form
        BY <1>1 DEF M!Refresh, M!PageType
    <2> QED BY <1>1, <1>a, <2>1, <2>2, MCalls, MCall DEF M!Refresh, MMeta, Owned
<1>2. ASSUME NEW m \in ModelNames, M!OpenMeta(m) PROVE MInv'
    <2> DEFINE c == M!MetaCall(m)
    <2>1. PICK i \in Slots : net[i].op = "none" /\ net' = [net EXCEPT ![i] = c]
        BY <1>2, MSend DEF MInv, M!OpenMeta
    <2>2. c \in M!CallType /\ c.op = "meta" /\ c.model = m /\ MOwn(c.price, c.model)
        BY DEF M!MetaCall, M!CallType, M!Stages, M!Origins, MOwn
    <2>3. ui' \in M!PageType /\ ui'.edit = m /\ UNCHANGED db
          /\ ui'.hasty = (ui.hasty \/ M!Pending)
        BY <1>2 DEF M!OpenMeta, M!PageType
    <2>4. ~ui'.hasty => ~ui.hasty /\ \A j \in Slots : ~MMeta(j)
        BY <2>3, MPending
    <2> HIDE DEF c
    <2> QED BY <1>a, <2>1, <2>2, <2>3, <2>4, MCall DEF Owned
<1>3. ASSUME M!CloseMeta PROVE MInv'
    <2>1. ui' \in M!PageType /\ ui'.hasty = ui.hasty /\ ui'.edit = "none"
        BY <1>3 DEF M!CloseMeta, M!PageType
    <2> QED BY <1>3, <2>1 DEF M!CloseMeta, MInv, M!TypeOK, MQuiet, MMeta
<1>4. ASSUME NEW price \in {"none", "typed"}, M!Type(price) PROVE MInv'
    <2>1. ui' \in M!PageType /\ ui'.hasty = ui.hasty /\ ui'.edit = ui.edit /\ MOwn(ui'.form, ui'.edit)
        BY <1>4 DEF M!Type, M!PageType, MOwn, M!Origins
    <2> QED BY <1>4, <2>1 DEF M!Type, MInv, M!TypeOK, MQuiet, MMeta
<1>5. ASSUME M!SaveMeta PROVE MInv'
    <2> DEFINE c == [op |-> "save", at |-> "sent", model |-> ui.edit, price |-> ui.form]
    <2>1. PICK i \in Slots : net[i].op = "none" /\ net' = [net EXCEPT ![i] = c]
        BY <1>5, MSend DEF MInv, M!SaveMeta
    <2>2. c \in M!CallType /\ c.op = "save" /\ c.price = ui.form /\ c.model = ui.edit
        BY <1>5 DEF M!SaveMeta, M!CallType, M!Stages, M!PageType
    <2>3. ui' \in M!PageType /\ ui'.edit = ui.edit /\ ui'.form = ui.form /\ UNCHANGED db
          /\ ui'.hasty = (ui.hasty \/ M!Pending) /\ ui.edit # "none"
        BY <1>5 DEF M!SaveMeta, M!PageType
    <2>4. ~ui'.hasty => ~ui.hasty /\ MOwn(ui.form, ui.edit)
        BY <2>3, MPending DEF MInv, MQuiet
    <2> HIDE DEF c
    <2> QED BY <1>a, <2>1, <2>2, <2>3, <2>4, MCall DEF MMeta, Owned
<1>6. ASSUME NEW i \in Slots, M!ServeList(i) PROVE MInv'
    <2> DEFINE c == [net[i] EXCEPT !.at = "done"]
    <2>1. net[i].op = "list" /\ net' = [net EXCEPT ![i] = c] /\ UNCHANGED <<db, ui>>
        BY <1>6 DEF M!ServeList, M!IsSent
    <2>2. c \in M!CallType /\ c.op = "list"
        BY <2>1, MKinds DEF M!CallType, M!Stages
    <2> HIDE DEF c
    <2> QED BY <1>a, <2>1, <2>2, MCall DEF MMeta, Owned
<1>7. ASSUME NEW i \in Slots, M!ServeMeta(i) PROVE MInv'
    <2> DEFINE c == [net[i] EXCEPT !.at = "done", !.price = db[net[i].model]]
    <2>1. net[i].op = "meta" /\ net' = [net EXCEPT ![i] = c] /\ UNCHANGED <<db, ui>>
        BY <1>7 DEF M!ServeMeta, M!IsSent
    <2>2. net[i] \in [op : {"meta"}, at : M!Stages, model : ModelNames, price : M!Origins]
        BY <2>1, MKinds
    <2>3. c \in M!CallType /\ c.op = "meta" /\ c.model = net[i].model /\ c.price = db[net[i].model]
        BY <2>2 DEF M!CallType, M!Stages
    <2> HIDE DEF c
    <2>4. ~ui.hasty => MOwn(c.price, c.model)
        BY <1>a, <2>2, <2>3 DEF Owned
    <2>5. ~ui.hasty /\ ui.edit # "none" => c.model = ui.edit
        BY <2>1, <2>3 DEF MInv, MQuiet, MMeta
    <2> QED BY <1>a, <2>1, <2>3, <2>4, <2>5, MCall DEF MMeta, Owned
<1>8. ASSUME NEW i \in Slots, M!ServeSave(i) PROVE MInv'
    <2> DEFINE c == [net[i] EXCEPT !.at = "done"]
    <2>1. net[i].op = "save" /\ net' = [net EXCEPT ![i] = c] /\ UNCHANGED ui
        BY <1>8 DEF M!ServeSave, M!IsSent
    <2>2. net[i] \in [op : {"save"}, at : M!Stages, model : ModelNames, price : M!Origins]
        BY <2>1, MKinds
    <2>3. c \in M!CallType /\ c.op = "save" /\ c.model = net[i].model /\ c.price = net[i].price
        BY <2>2 DEF M!CallType, M!Stages
    <2> HIDE DEF c
    <2>4. ~ui.hasty => MOwn(net[i].price, net[i].model)
        BY <2>1 DEF MInv, MQuiet
    <2>5. db' \in [ModelNames -> M!Origins]
        BY <1>8, <2>2 DEF M!ServeSave
    <2>6. ~ui.hasty => \A m \in ModelNames : MOwn(db'[m], m)
        BY <1>8, <1>a, <2>2, <2>4 DEF M!ServeSave, Owned
    <2> QED BY <2>1, <2>3, <2>4, <2>5, <2>6, MCall DEF MMeta
<1>9. ASSUME NEW i \in Slots, NEW answered \in BOOLEAN, M!Listed(i, answered) PROVE MInv'
    <2>1. net[i].op = "list" /\ net' = [net EXCEPT ![i] = M!NoCall] /\ UNCHANGED db
        BY <1>9 DEF M!Listed, M!IsDone, M!MayFail, M!Ended
    <2>2. ui' \in M!PageType /\ ui'.hasty = ui.hasty /\ ui'.edit = ui.edit /\ ui'.form = ui.form
        BY <1>9 DEF M!Listed, M!PageType
    <2> QED BY <1>a, <2>1, <2>2, MCalls, MCall DEF MMeta, Owned
<1>10. ASSUME NEW i \in Slots, NEW answered \in BOOLEAN, M!MetaShown(i, answered) PROVE MInv'
    <2>1. net[i].op = "meta" /\ net' = [net EXCEPT ![i] = M!NoCall] /\ UNCHANGED db
        BY <1>10 DEF M!MetaShown, M!IsDone, M!MayFail, M!Ended
    <2>2. net[i] \in [op : {"meta"}, at : M!Stages, model : ModelNames, price : M!Origins]
        BY <2>1, MKinds
    <2>3. ui' \in M!PageType /\ ui'.hasty = ui.hasty /\ ui'.edit = ui.edit
          /\ ui'.form \in {"none", net[i].price}
        BY <1>10, <2>2 DEF M!MetaShown, M!PageType, M!Origins
    <2>4. ~ui.hasty /\ ui.edit # "none" => MOwn(ui'.form, ui.edit)
        BY <2>1, <2>3 DEF MInv, MQuiet, MMeta, MOwn
    <2> QED BY <1>a, <2>1, <2>3, <2>4, MCalls, MCall DEF MMeta, Owned
<1>11. ASSUME NEW i \in Slots, NEW answered \in BOOLEAN, M!MetaSaved(i, answered) PROVE MInv'
    <2>1. net[i].op = "save" /\ net' = [net EXCEPT ![i] = M!NoCall] /\ UNCHANGED db
        BY <1>11 DEF M!MetaSaved, M!IsDone, M!MayFail, M!Ended
    <2>2. ui' \in M!PageType /\ ui'.hasty = ui.hasty /\ ui'.form = ui.form
          /\ ui'.edit \in {"none", ui.edit}
        BY <1>11 DEF M!MetaSaved, M!PageType
    <2> QED BY <1>a, <2>1, <2>2, MCalls, MCall DEF MMeta, Owned
<1> QED BY <1>1, <1>2, <1>3, <1>4, <1>5, <1>6, <1>7, <1>8, <1>9, <1>10, <1>11 DEF M!Next

\* The invariant holds whenever the page is shown.
LEMMA MAlways == Spec => [](page = "models" => MInv)
<1>1. Init => (page = "models" => MInv) BY MInit DEF Init
<1>2. (page = "models" => MInv) /\ [Next]_vars => (page = "models" => MInv)'
    <2> SUFFICES ASSUME page = "models" => MInv, [Next]_vars, page' = "models" PROVE MInv'
        OBVIOUS
    <2>1. CASE UNCHANGED vars
        BY <2>1 DEF vars, MInv, M!TypeOK, MQuiet, MMeta
    <2> QED BY <2>1, MStep DEF Next
<1> QED BY <1>1, <1>2, PTL DEF Spec

\* pages/Models.tsx: unless the form was sent before its prices came, no model is
\* stored with the price that was fetched for another one.
THEOREM PricesStayOwn == Spec => []PricesNotBorrowed
<1>1. (page = "models" => MInv) => PricesNotBorrowed
    BY DEF PricesNotBorrowed, M!PricesNotBorrowed, MInv, MQuiet, MOwn
<1> QED BY <1>1, MAlways, PTL

-----------------------------------------------------------------------------
(* pages/Subscriptions.tsx                                                 *)

\* Confirm is busy while a call of a dialog, or the load that ends it, is in
\* flight, and there is one of them at most.  A creation sends the form as it
\* still stands, and while the form stands, a plan was made of it only if the
\* answer is to come or was lost.
PBusy(c) == c.op \in {"create", "grant"} \/ (c.op = "load" /\ c.busy)
PMaking(c) == c.op = "create" /\ c.at = "done"
PDialogs ==
    /\ \A i \in Slots : PBusy(net[i]) => ui.busy
    /\ \A i, j \in Slots : PBusy(net[i]) /\ PBusy(net[j]) => i = j
PForms == \A i \in Slots : net[i].op = "create" => net[i].form = ui.form
PUsed == ui.form <= ui.used /\ \A p \in PlanIds : db.made[p] <= ui.used
POnce ==
    \A p \in PlanIds : ui.form # 0 /\ db.made[p] = ui.form =>
        ui.form \in ui.lost \/ \E i \in Slots : PMaking(net[i])
PInv == P!TypeOK /\ PDialogs /\ PForms /\ PUsed /\ POnce /\ P!OnePlanPerForm

\* The types of the three variables.
LEMMA PTypes ==
    ASSUME PInv
    PROVE  db \in P!ServerType /\ ui \in P!PageType /\ net \in [Slots -> P!CallType]
BY DEF PInv, P!TypeOK

\* A call sent takes one of the free slots.
LEMMA PSend ==
    ASSUME NEW c, P!HasRoom(net), P!TypeOK
    PROVE  \E i \in Slots : net[i].op = "none" /\ P!Sent(net, c) = [net EXCEPT ![i] = c]
BY DEF P!HasRoom, P!FreeSlots, P!Sent, P!TypeOK

\* A page opened sends one call and no other.
LEMMA PFirst ==
    ASSUME NEW c
    PROVE  P!Sent(P!Silent(Slots), c) \in [Slots -> {P!NoCall, c}]
BY DEF P!Sent, P!Silent

\* The calls the page makes are of their types.
LEMMA PCalls ==
    /\ P!NoCall \in P!CallType /\ ~PBusy(P!NoCall) /\ P!NoCall.op = "none"
    /\ \A busy \in BOOLEAN : /\ P!Load(busy) \in P!CallType /\ P!Load(busy).op = "load"
                             /\ P!Load(busy).busy = busy
BY DEF P!Load, P!CallType, P!NoCall, P!Stages, PBusy

\* The fields a call of each kind has.
LEMMA PKinds ==
    ASSUME NEW c \in P!CallType
    PROVE  /\ c.op = "load" =>
                c \in [op : {"load"}, at : P!Stages, busy : BOOLEAN, plans : SUBSET PlanIds]
           /\ c.op = "create" => c \in [op : {"create"}, at : P!Stages, form : Fillings]
           /\ c.op \in {"grant", "delete"} =>
                c \in [op : {"grant", "delete"}, at : P!Stages, plan : PlanIds]
BY DEF P!CallType, P!NoCall

\* Fillings of the form are numbered.
LEMMA PNumbers ==
    ASSUME PInv
    PROVE  /\ ui.form \in Nat /\ ui.used \in Nat
           /\ \A p \in PlanIds : db.made[p] \in Nat
<1>1. Fillings \cup {0} \subseteq Nat BY ListsAssumption
<1>2. ui.form \in Fillings \cup {0} /\ ui.used \in Fillings \cup {0} BY PTypes DEF P!PageType
<1>3. \A p \in PlanIds : db.made[p] \in Fillings \cup {0} BY PTypes DEF P!ServerType
<1> QED BY <1>1, <1>2, <1>3

\* The invariant holds when the page opens.
LEMMA PInit == ASSUME P!Init PROVE PInv
<1>1. db \in P!ServerType /\ \A p \in PlanIds : db.made[p] = 0
    BY ListsAssumption DEF P!Init, P!ServerType
<1>2. ui \in P!PageType /\ ui.form = 0 /\ ui.used = 0
    BY DEF P!Init, P!PageType
<1>3. net \in [Slots -> {P!NoCall, P!Load(FALSE)}]
    BY PFirst DEF P!Init
<1>4. net \in [Slots -> P!CallType] /\ \A i \in Slots : ~PBusy(net[i])
    BY <1>3, PCalls DEF PBusy
<1>5. \A i \in Slots : net[i].op # "create" BY <1>4 DEF PBusy
<1> QED BY <1>1, <1>2, <1>4, <1>5
        DEF PInv, P!TypeOK, PDialogs, PForms, PUsed, POnce, P!OnePlanPerForm

\* The call in slot i becomes c.
LEMMA PCall ==
    ASSUME PInv, NEW i \in Slots, NEW c \in P!CallType, net' = [net EXCEPT ![i] = c],
           db' \in P!ServerType, ui' \in P!PageType,
           ui.busy => ui'.busy \/ PBusy(net[i]),
           PBusy(c) => ui'.busy /\ (PBusy(net[i]) \/ ~ui.busy),
           c.op = "create" => c.form = ui'.form,
           ui'.form = ui.form \/ net[i].op = "create",
           PUsed', P!OnePlanPerForm', ui.lost \subseteq ui'.lost,
           \A p \in PlanIds : ui'.form # 0 /\ db'.made[p] = ui'.form =>
              \/ ui'.form \in ui'.lost
              \/ PMaking(c)
              \/ ui'.form = ui.form /\ db.made[p] = ui.form /\ ~PMaking(net[i])
    PROVE  PInv'
<1> USE PTypes
<1>1. P!TypeOK' BY DEF P!TypeOK
<1>2. net'[i] = c /\ \A j \in Slots \ {i} : net'[j] = net[j]
    OBVIOUS
<1>3. PDialogs' BY <1>2 DEF PInv, PDialogs
<1>4. PForms'
    <2>1. ASSUME NEW j \in Slots \ {i}, net[j].op = "create" PROVE net[j].form = ui'.form
        BY <2>1 DEF PInv, PForms, PDialogs, PBusy
    <2> QED BY <1>2, <2>1 DEF PForms
<1>5. ASSUME NEW p \in PlanIds, ui'.form # 0, db'.made[p] = ui'.form
      PROVE  ui'.form \in ui'.lost \/ \E j \in Slots : PMaking(net'[j])
    <2>1. CASE PMaking(c) BY <1>2, <2>1
    <2>2. CASE ui'.form = ui.form /\ db.made[p] = ui.form /\ ~PMaking(net[i])
        BY <1>2, <1>5, <2>2 DEF PInv, POnce
    <2> QED BY <1>5, <2>1, <2>2
<1>6. POnce' BY <1>5 DEF POnce
<1> QED BY <1>1, <1>3, <1>4, <1>6 DEF PInv

\* The server did what the call in slot i asked; no plan was created.
LEMMA PServe ==
    ASSUME PInv, NEW i \in Slots, NEW c \in P!CallType, net' = [net EXCEPT ![i] = c],
           c.op = net[i].op, c.op # "create", PBusy(c) <=> PBusy(net[i]),
           db' \in P!ServerType, db'.made = db.made, UNCHANGED ui
    PROVE  PInv'
<1>1. PUsed' /\ P!OnePlanPerForm' BY DEF PInv, PUsed, P!OnePlanPerForm
<1>2. PBusy(net[i]) => ui.busy BY DEF PInv, PDialogs
<1> QED BY <1>1, <1>2, PTypes, PCall DEF PMaking

\* Press, and the delete button.
LEMMA PSends ==
    ASSUME PInv, P!HasRoom(net), NEW c \in P!CallType, net' = P!Sent(net, c), UNCHANGED db,
           ui' \in P!PageType, ui'.form = ui.form, ui'.used = ui.used, ui'.lost = ui.lost,
           ui.busy => ui'.busy, PBusy(c) => ui'.busy /\ ~ui.busy,
           c.op = "create" => c.form = ui.form
    PROVE  PInv'
<1>1. PICK i \in Slots : net[i].op = "none" /\ net' = [net EXCEPT ![i] = c]
    BY PSend DEF PInv
<1>2. PUsed' /\ P!OnePlanPerForm' BY DEF PInv, PUsed, P!OnePlanPerForm
<1>3. ~PMaking(net[i]) BY <1>1 DEF PMaking
<1>4. db' \in P!ServerType BY PTypes
<1>5. \A p \in PlanIds : ui'.form # 0 /\ db'.made[p] = ui'.form =>
          ui'.form = ui.form /\ db.made[p] = ui.form /\ ~PMaking(net[i])
    BY <1>3
<1>6. PBusy(c) => ui'.busy /\ (PBusy(net[i]) \/ ~ui.busy)
    OBVIOUS
<1>7. /\ ui.busy => ui'.busy \/ PBusy(net[i])
      /\ c.op = "create" => c.form = ui'.form
      /\ ui'.form = ui.form \/ net[i].op = "create"
      /\ ui.lost \subseteq ui'.lost
    OBVIOUS
<1> QED BY <1>1, <1>2, <1>4, <1>5, <1>6, <1>7, PCall

\* The page changes and no call does, nor the plan form.
LEMMA PPage ==
    ASSUME PInv, UNCHANGED <<db, net>>, ui' \in P!PageType, ui'.busy = ui.busy,
           ui'.form = ui.form, ui'.used = ui.used, ui'.lost = ui.lost
    PROVE  PInv'
BY DEF PInv, P!TypeOK, PDialogs, PForms, PUsed, POnce, P!OnePlanPerForm

\* Every action of the page keeps the invariant.
LEMMA PStep == ASSUME PInv, P!Next PROVE PInv'
<1> USE PTypes, PNumbers
<1>1. ASSUME P!CloseDialog \/ (\E kind \in {"plan", "grant"} : P!OpenDialog(kind))
             \/ \E p \in PlanIds : P!Choose(p)
      PROVE  PInv'
    <2>1. ui' \in P!PageType /\ ui'.busy = ui.busy /\ ui'.form = ui.form /\ ui'.used = ui.used
          /\ ui'.lost = ui.lost
        BY <1>1 DEF P!CloseDialog, P!OpenDialog, P!Choose, P!PageType
    <2> QED BY <1>1, <2>1, PPage DEF P!CloseDialog, P!OpenDialog, P!Choose
<1>2. ASSUME P!Fill PROVE PInv'
    <2>1. ui' \in P!PageType /\ ui'.busy = ui.busy /\ ui'.form = ui.used + 1
          /\ ui'.used = ui.used + 1 /\ ui'.lost = ui.lost /\ UNCHANGED <<db, net>>
        BY <1>2 DEF P!Fill, P!PageType
    <2>2. PUsed' BY <2>1 DEF PInv, PUsed
    <2>3. \A i \in Slots : net[i].op # "create"
        BY <1>2, PKinds, ListsAssumption DEF P!Fill, PInv, PForms
    <2>4. POnce' /\ PForms'
        BY <2>1, <2>3 DEF PInv, PUsed, POnce, PForms
    <2> QED BY <2>1, <2>2, <2>4 DEF PInv, P!TypeOK, PDialogs, P!OnePlanPerForm
<1>3. ASSUME P!CreatePlan PROVE PInv'
    <2> DEFINE c == [op |-> "create", at |-> "sent", form |-> ui.form]
    <2>1. c \in P!CallType /\ c.op = "create" /\ c.form = ui.form
        BY <1>3 DEF P!CreatePlan, P!CallType, P!Stages, P!PageType
    <2>2. ui' \in P!PageType /\ ui'.busy /\ ~ui.busy /\ ui'.form = ui.form
          /\ ui'.used = ui.used /\ ui'.lost = ui.lost
        BY <1>3 DEF P!CreatePlan, P!Press, P!PageType
    <2>3. P!HasRoom(net) /\ net' = P!Sent(net, c) /\ UNCHANGED db
        BY <1>3 DEF P!CreatePlan, P!Press
    <2> HIDE DEF c
    <2> QED BY <2>1, <2>2, <2>3, PSends
<1>4. ASSUME P!Grant PROVE PInv'
    <2> DEFINE c == [op |-> "grant", at |-> "sent", plan |-> ui.planId]
    <2>1. c \in P!CallType /\ c.op = "grant"
        BY <1>4 DEF P!Grant, P!CallType, P!Stages, P!PageType
    <2>2. ui' \in P!PageType /\ ui'.busy /\ ~ui.busy /\ ui'.form = ui.form
          /\ ui'.used = ui.used /\ ui'.lost = ui.lost
        BY <1>4 DEF P!Grant, P!Press, P!PageType
    <2>3. P!HasRoom(net) /\ net' = P!Sent(net, c) /\ UNCHANGED db
        BY <1>4 DEF P!Grant, P!Press
    <2> HIDE DEF c
    <2> QED BY <2>1, <2>2, <2>3, PSends
<1>5. ASSUME NEW p \in PlanIds, P!DelPlan(p) PROVE PInv'
    <2> DEFINE c == [op |-> "delete", at |-> "sent", plan |-> p]
    <2>1. c \in P!CallType /\ c.op = "delete" /\ ~PBusy(c)
        BY DEF P!CallType, P!Stages, PBusy
    <2>3. P!HasRoom(net) /\ net' = P!Sent(net, c) /\ UNCHANGED <<db, ui>>
        BY <1>5 DEF P!DelPlan
    <2> HIDE DEF c
    <2> QED BY <2>1, <2>3, PSends
<1>6. ASSUME NEW i \in Slots, P!ServeLoad(i) PROVE PInv'
    <2> DEFINE c == [net[i] EXCEPT !.at = "done", !.plans = db.live]
    <2>1. net[i].op = "load" /\ net' = [net EXCEPT ![i] = c] /\ UNCHANGED <<db, ui>>
        BY <1>6 DEF P!ServeLoad, P!IsSent
    <2>2. net[i] \in [op : {"load"}, at : P!Stages, busy : BOOLEAN, plans : SUBSET PlanIds]
        BY <2>1, PKinds
    <2>3. db.live \in SUBSET PlanIds BY DEF P!ServerType
    <2>4. c \in P!CallType /\ c.op = "load" /\ c.busy = net[i].busy
        BY <2>2, <2>3 DEF P!CallType, P!Stages
    <2> HIDE DEF c
    <2> QED BY <2>1, <2>4, PServe DEF PBusy
<1>7. ASSUME NEW i \in Slots, P!ServeCreate(i) PROVE PInv'
    <2> DEFINE c == [net[i] EXCEPT !.at = "done"]
    <2>1. net[i].op = "create" /\ net[i].at = "sent" /\ net' = [net EXCEPT ![i] = c] /\ UNCHANGED ui
        BY <1>7 DEF P!ServeCreate, P!IsSent, P!Serve
    <2>2. net[i] \in [op : {"create"}, at : P!Stages, form : Fillings]
        BY <2>1, PKinds
    <2>3. c \in P!CallType /\ PMaking(c) /\ c.op = "create" /\ c.form = net[i].form
        BY <2>2 DEF P!CallType, P!Stages, PMaking
    <2>4. net[i].form = ui.form BY <2>1 DEF PInv, PForms
    <2>5. PICK p \in PlanIds :
             db' = [db EXCEPT !.made = [@ EXCEPT ![p] = ui.form], !.live = @ \cup {p}]
        BY <1>7, <2>4 DEF P!ServeCreate, P!Serve
    <2>6. db' \in P!ServerType /\ db'.made = [db.made EXCEPT ![p] = ui.form]
        BY <2>2, <2>4, <2>5 DEF P!ServerType
    <2>7. \A j \in Slots : ~PMaking(net[j])
        BY <2>1 DEF PInv, PDialogs, PBusy, PMaking
    <2>8. \A q \in PlanIds : ui.form # 0 /\ db.made[q] = ui.form => ui.form \in ui.lost
        BY <2>7 DEF PInv, POnce
    <2>9. PUsed'
        BY <2>1, <2>6 DEF PInv, PUsed, P!ServerType
    <2>10. db.made \in [PlanIds -> Fillings \cup {0}] BY DEF P!ServerType
    <2>11. P!OnePlanPerForm'
        BY <2>1, <2>6, <2>8, <2>10 DEF PInv, P!OnePlanPerForm
    <2>12. PBusy(net[i]) /\ PBusy(c) /\ ui.busy BY <2>1, <2>3 DEF PBusy, PInv, PDialogs
    <2> HIDE DEF c
    <2> QED BY <2>1, <2>3, <2>4, <2>6, <2>9, <2>11, <2>12, PCall
<1>8. ASSUME NEW i \in Slots, P!ServeGrant(i) \/ P!ServeDelete(i) PROVE PInv'
    <2> DEFINE c == [net[i] EXCEPT !.at = "done"]
    <2>1. net[i].op \in {"grant", "delete"} /\ net' = [net EXCEPT ![i] = c] /\ UNCHANGED ui
        BY <1>8 DEF P!ServeGrant, P!ServeDelete, P!IsSent, P!Serve
    <2>2. net[i] \in [op : {"grant", "delete"}, at : P!Stages, plan : PlanIds]
        BY <2>1, PKinds
    <2>3. c \in P!CallType /\ c.op = net[i].op
        BY <2>2 DEF P!CallType, P!Stages
    <2>4. db' \in P!ServerType /\ db'.made = db.made
        BY <1>8, <2>2 DEF P!ServeGrant, P!ServeDelete, P!Serve, P!ServerType
    <2> HIDE DEF c
    <2> QED BY <2>1, <2>3, <2>4, PServe DEF PBusy
<1>9. ASSUME NEW i \in Slots, NEW answered \in BOOLEAN, P!Loaded(i, answered) PROVE PInv'
    <2>1. net[i].op = "load" /\ net' = [net EXCEPT ![i] = P!NoCall] /\ UNCHANGED db
        BY <1>9 DEF P!Loaded, P!IsDone, P!MayFail, P!Ended
    <2>2. net[i] \in [op : {"load"}, at : P!Stages, busy : BOOLEAN, plans : SUBSET PlanIds]
        BY <2>1, PKinds
    <2>3. ui' = [ui EXCEPT !.plans = IF answered THEN net[i].plans ELSE @,
                           !.busy = @ /\ ~net[i].busy]
        BY <1>9 DEF P!Loaded
    <2>6. (ui.busy /\ ~net[i].busy) \in BOOLEAN /\ (IF answered THEN net[i].plans ELSE ui.plans) \in SUBSET PlanIds
        BY <2>2 DEF P!PageType
    <2>7. ui' \in P!PageType /\ ui'.busy = (ui.busy /\ ~net[i].busy)
        BY <2>3, <2>6 DEF P!PageType
    <2>8. ui'.form = ui.form /\ ui'.used = ui.used /\ ui'.lost = ui.lost
        BY <2>3 DEF P!PageType
    <2>4. ui.busy => ui'.busy \/ PBusy(net[i])
        BY <2>1, <2>7 DEF PBusy
    <2>5. PUsed' /\ P!OnePlanPerForm' BY <2>1, <2>8 DEF PInv, PUsed, P!OnePlanPerForm
    <2> QED BY <2>1, <2>7, <2>8, <2>4, <2>5, PCalls, PCall DEF PMaking
<1>10. ASSUME NEW i \in Slots, P!Created(i) PROVE PInv'
    <2>1. net[i].op = "create" /\ net' = [net EXCEPT ![i] = P!Load(TRUE)] /\ UNCHANGED db
        BY <1>10 DEF P!Created, P!Reloads, P!IsDone
    <2>2. ui' \in P!PageType /\ ui'.busy = ui.busy /\ ui'.form = 0 /\ ui'.used = ui.used
          /\ ui'.lost = ui.lost
        BY <1>10 DEF P!Created, P!Reloads, P!PageType
    <2>3. PBusy(net[i]) /\ ui.busy BY <2>1 DEF PBusy, PInv, PDialogs
    <2>4. PUsed' /\ P!OnePlanPerForm' BY <2>1, <2>2 DEF PInv, PUsed, P!OnePlanPerForm
    <2> QED BY <2>1, <2>2, <2>3, <2>4, PCalls, PCall DEF PMaking
<1>11. ASSUME NEW i \in Slots, P!Granted(i) PROVE PInv'
    <2>1. net[i].op = "grant" /\ net' = [net EXCEPT ![i] = P!Load(TRUE)] /\ UNCHANGED db
        BY <1>11 DEF P!Granted, P!Reloads, P!IsDone
    <2>2. ui' \in P!PageType /\ ui'.busy = ui.busy /\ ui'.form = ui.form /\ ui'.used = ui.used
          /\ ui'.lost = ui.lost
        BY <1>11 DEF P!Granted, P!Reloads, P!PageType
    <2>3. PBusy(net[i]) /\ ui.busy BY <2>1 DEF PBusy, PInv, PDialogs
    <2>4. PUsed' /\ P!OnePlanPerForm' BY <2>1, <2>2 DEF PInv, PUsed, P!OnePlanPerForm
    <2> QED BY <2>1, <2>2, <2>3, <2>4, PCalls, PCall DEF PMaking
<1>12. ASSUME NEW i \in Slots, P!Deleted(i) PROVE PInv'
    <2>1. net[i].op = "delete" /\ net' = [net EXCEPT ![i] = P!Load(FALSE)] /\ UNCHANGED <<db, ui>>
        BY <1>12 DEF P!Deleted, P!Reloads, P!IsDone
    <2>2. ~PBusy(P!Load(FALSE)) /\ P!Load(FALSE).op = "load" /\ P!Load(FALSE) \in P!CallType
        BY PCalls DEF PBusy
    <2>4. PUsed' /\ P!OnePlanPerForm' BY <2>1 DEF PInv, PUsed, P!OnePlanPerForm
    <2> QED BY <2>1, <2>2, <2>4, PCall DEF PMaking
<1>13. ASSUME NEW i \in Slots, NEW op \in {"create", "grant", "delete"}, P!Failed(i, op)
       PROVE  PInv'
    <2>1. net[i].op = op /\ net' = [net EXCEPT ![i] = P!NoCall] /\ UNCHANGED db
        BY <1>13 DEF P!Failed, P!MayFail, P!Ended
    <2> DEFINE lost == IF P!IsDone(net, i, "create") THEN ui.lost \cup {net[i].form} ELSE ui.lost
    <2>2. op = "create" => net[i].form \in Fillings /\ net[i].form = ui.form
        BY <2>1, PKinds DEF PInv, PForms
    <2>3. lost \in SUBSET Fillings /\ ui.lost \subseteq lost
        BY <2>1, <2>2 DEF P!IsDone, P!PageType
    <2>4. PMaking(net[i]) => ui.form \in lost
        BY <2>1, <2>2 DEF P!IsDone, PMaking
    <2>5. ui' = [ui EXCEPT !.busy = @ /\ op = "delete", !.lost = lost]
        BY <1>13 DEF P!Failed
    <2> HIDE DEF lost
    <2>6. ui' \in P!PageType /\ ui'.busy = (ui.busy /\ op = "delete") /\ ui'.lost = lost
        BY <2>3, <2>5 DEF P!PageType
    <2>10. ui'.form = ui.form /\ ui'.used = ui.used BY <2>5 DEF P!PageType
    <2>7. ui.busy => ui'.busy \/ PBusy(net[i])
        BY <2>1, <2>6 DEF PBusy
    <2>8. PUsed' /\ P!OnePlanPerForm'
        BY <2>1, <2>3, <2>6, <2>10 DEF PInv, PUsed, P!OnePlanPerForm
    <2> QED BY <2>1, <2>3, <2>4, <2>6, <2>7, <2>8, <2>10, PCalls, PCall
<1> QED BY <1>1, <1>2, <1>3, <1>4, <1>5, <1>6, <1>7, <1>8, <1>9, <1>10, <1>11, <1>12, <1>13
        DEF P!Next

\* The invariant holds whenever the page is shown.
LEMMA PAlways == Spec => [](page = "plans" => PInv)
<1>1. Init => (page = "plans" => PInv) BY PInit DEF Init
<1>2. (page = "plans" => PInv) /\ [Next]_vars => (page = "plans" => PInv)'
    <2> SUFFICES ASSUME page = "plans" => PInv, [Next]_vars, page' = "plans" PROVE PInv'
        OBVIOUS
    <2>1. CASE UNCHANGED vars
        BY <2>1, PPage, PTypes DEF vars
    <2> QED BY <2>1, PStep DEF Next
<1> QED BY <1>1, <1>2, PTL DEF Spec

\* pages/Subscriptions.tsx: one filling of the form makes one plan, unless the
\* answer of a creation was lost and the user confirmed again.
THEOREM FormsMakeOnePlan == Spec => []OnePlanPerForm
<1>1. (page = "plans" => PInv) => OnePlanPerForm
    BY DEF OnePlanPerForm, PInv
<1> QED BY <1>1, PAlways, PTL

-----------------------------------------------------------------------------
(* pages/Settings.tsx                                                      *)

\* A save is a put and the get that follows it; the form is there once it was
\* loaded.  While nothing was typed and nobody else saved, what is to be shown
\* and what is stored agree at each stage of the save.
SSave(c) == c.op = "put" \/ (c.op = "get" /\ c.by = "save")
SStages ==
    /\ ui.saving <=> SSave(net[1])
    /\ net[1].op = "get" /\ net[1].by = "load" => ui.form = S!NoForm
    /\ net[1].op = "get" /\ net[1].at = "done" => net[1].form \in S!Forms
    /\ ui.form = S!NoForm => ~ui.saved /\ ~ui.saving
SPassword == ui.asked # "" => db.password = ui.asked
SSent(c) == c.form = ui.form /\ ui.asked = IF c.form.host = "" THEN "" ELSE c.password
SAgrees ==
    /\ net[1].op = "put" /\ net[1].at = "sent" => SSent(net[1])
    /\ net[1].op = "put" /\ net[1].at = "done" => SPassword
    /\ net[1].op = "get" /\ net[1].by = "save" => SPassword
    /\ net[1].op = "get" /\ net[1].by = "save" /\ net[1].at = "done" =>
          net[1].form = S!Public(db)
    /\ ui.saved /\ ~ui.saving => ui.form = S!Public(db) /\ SPassword
SInv == S!TypeOK /\ SStages /\ (~ui.edited /\ ~ui.raced => SAgrees)

\* The types of the three variables.
LEMMA STypes ==
    ASSUME SInv
    PROVE  db \in S!ServerType /\ ui \in S!PageType /\ net \in [{1} -> S!CallType]
BY DEF SInv, S!TypeOK

\* The only slot is free and takes the call.
LEMMA SSends ==
    ASSUME NEW c, S!HasRoom(net), net \in [{1} -> S!CallType]
    PROVE  net[1].op = "none" /\ S!Sent(net, c) = [net EXCEPT ![1] = c]
<1>1. S!FreeSlots(net) = {1} /\ net[1].op = "none"
    BY DEF S!HasRoom, S!FreeSlots
<1> QED BY <1>1 DEF S!Sent

\* The fields a call of each kind has.
LEMMA SKinds ==
    ASSUME NEW c \in S!CallType
    PROVE  /\ c.op = "get" =>
                c \in [op : {"get"}, at : S!Stages, by : {"load", "save"},
                       form : S!Forms \cup {S!NoForm}]
           /\ c.op = "put" =>
                c \in [op : {"put"}, at : S!Stages \cup {"refused"}, form : S!Forms,
                       password : S!Passwords]
BY DEF S!CallType, S!NoCall

\* The calls the page makes are of their types.
LEMMA SCalls ==
    /\ S!NoCall \in S!CallType /\ S!NoCall.op = "none"
    /\ \A by \in {"load", "save"} :
          /\ S!Fetch(by) \in S!CallType /\ S!Fetch(by).op = "get"
          /\ S!Fetch(by).by = by /\ S!Fetch(by).at = "sent"
BY DEF S!Fetch, S!CallType, S!NoCall, S!Stages

\* What the server shows of the settings is a form.
LEMMA SPublic ==
    /\ \A stored \in S!ServerType : S!Public(stored) \in S!Forms
    /\ S!NoForm \notin S!Forms
BY DEF S!Public, S!ServerType, S!Forms, S!NoForm

\* The invariant holds when the page opens.
LEMMA SInit == ASSUME S!Init PROVE SInv
<1>1. db \in S!ServerType BY DEF S!Init, S!ServerType
<1>2. /\ ui \in S!PageType /\ ui.form = S!NoForm /\ ~ui.saved /\ ~ui.saving
    BY DEF S!Init, S!PageType, S!Passwords
<1>3. net = [S!Silent({1}) EXCEPT ![1] = S!Fetch("load")]
    <2>1. S!HasRoom(S!Silent({1})) /\ S!Silent({1}) \in [{1} -> S!CallType]
        BY SCalls DEF S!Silent, S!HasRoom, S!FreeSlots
    <2>2. \A c : S!Sent(S!Silent({1}), c) = [S!Silent({1}) EXCEPT ![1] = c]
        <3>1. S!FreeSlots(S!Silent({1})) = {1} BY SCalls DEF S!Silent, S!FreeSlots
        <3> QED BY <3>1 DEF S!Sent
    <2> QED BY <2>2 DEF S!Init
<1>4. net \in [{1} -> S!CallType] /\ net[1] = S!Fetch("load")
    BY <1>3, SCalls DEF S!Silent
<1> QED BY <1>1, <1>2, <1>4, SCalls DEF SInv, S!TypeOK, SStages, SAgrees, SSave

\* Every action of the page keeps the invariant.
LEMMA SStep == ASSUME SInv, S!Next PROVE SInv'
<1> USE STypes
<1> DEFINE c == net[1]
<1>c. c \in S!CallType OBVIOUS
<1> SStages BY DEF SInv
<1>1. ASSUME S!Reload PROVE SInv'
    <2>1. c.op = "none" /\ net' = [net EXCEPT ![1] = S!Fetch("load")] /\ UNCHANGED db
        BY <1>1, SSends DEF S!Reload
    <2>2. ui' \in S!PageType /\ ui'.form = S!NoForm /\ ui'.saved = ui.saved
          /\ ui'.saving = ui.saving /\ ui.form = S!NoForm
        BY <1>1 DEF S!Reload, S!Ready, S!PageType
    <2>3. S!TypeOK' BY <2>1, <2>2, SCalls DEF S!TypeOK
    <2>4. net'[1] = S!Fetch("load") BY <2>1
    <2> QED BY <2>1, <2>2, <2>3, <2>4, SCalls DEF SInv, SStages, SAgrees, SSave
<1>2. ASSUME NEW form \in S!Forms, NEW password \in S!Passwords, S!Edit(form, password)
      PROVE  SInv'
    <2>1. ui' \in S!PageType /\ ui'.form = form /\ ui'.edited
          /\ ui'.saved = ui.saved /\ ui'.saving = ui.saving /\ ui.form # S!NoForm
        BY <1>2 DEF S!Edit, S!Ready, S!PageType
    <2>2. UNCHANGED <<db, net>> BY <1>2 DEF S!Edit
    <2> QED BY <2>1, <2>2, SPublic DEF SInv, S!TypeOK, SStages, SSave
<1>3. ASSUME S!Save PROVE SInv'
    <2> DEFINE put == [op |-> "put", at |-> "sent", form |-> ui.form, password |-> ui.password]
    <2>1. c.op = "none" /\ net' = [net EXCEPT ![1] = put] /\ UNCHANGED db
        BY <1>3, SSends DEF S!Save
    <2>2. put \in S!CallType /\ put.op = "put" /\ put.at = "sent" /\ put.form = ui.form
          /\ put.password = ui.password
        BY <1>3 DEF S!Save, S!Ready, S!CallType, S!Stages, S!PageType
    <2> DEFINE asked == IF ui.form.host = "" THEN "" ELSE ui.password
    <2>3. asked \in S!Passwords BY DEF S!PageType, S!Passwords
    <2>4. ui' = [ui EXCEPT !.saving = TRUE, !.saved = FALSE, !.edited = FALSE, !.raced = FALSE,
                           !.asked = asked]
          /\ ui.form # S!NoForm
        BY <1>3 DEF S!Save, S!Ready
    <2>5. ui' \in S!PageType /\ ui'.saving /\ ~ui'.saved /\ ui'.form = ui.form
          /\ ui'.asked = asked
        BY <2>3, <2>4 DEF S!PageType
    <2> HIDE DEF put
    <2>6. net'[1] = put BY <2>1
    <2>7. S!TypeOK' BY <2>1, <2>2, <2>5 DEF S!TypeOK
    <2>8. SStages' BY <2>2, <2>4, <2>5, <2>6 DEF SStages, SSave
    <2>9. SAgrees' BY <2>2, <2>5, <2>6 DEF SAgrees, SSent
    <2> QED BY <2>7, <2>8, <2>9 DEF SInv
<1>4. ASSUME S!ServeGet PROVE SInv'
    <2> DEFINE d == [c EXCEPT !.at = "done", !.form = S!Public(db)]
    <2>1. c.op = "get" /\ net' = [net EXCEPT ![1] = d] /\ UNCHANGED <<db, ui>>
        BY <1>4 DEF S!ServeGet, S!IsSent
    <2>2. d \in S!CallType /\ d.op = "get" /\ d.by = c.by /\ d.at = "done" /\ d.form = S!Public(db)
        <3>1. c \in [op : {"get"}, at : S!Stages, by : {"load", "save"},
                     form : S!Forms \cup {S!NoForm}]
            BY <2>1, SKinds
        <3> QED BY <3>1, SPublic DEF S!CallType, S!Stages
    <2>3. S!TypeOK' BY <2>1, <2>2 DEF S!TypeOK
    <2>4. net'[1] = d BY <2>1
    <2> HIDE DEF d
    <2>5. SStages' BY <2>1, <2>2, <2>4, SPublic DEF SStages, SSave
    <2>6. ~ui.edited /\ ~ui.raced => SAgrees'
        BY <2>1, <2>2, <2>4 DEF SInv, SAgrees, SPassword
    <2> QED BY <2>1, <2>3, <2>5, <2>6 DEF SInv
<1>5. ASSUME S!ServePut PROVE SInv'
    <2> DEFINE d == [c EXCEPT !.at = "done"]
    <2>1. c.op = "put" /\ c.at = "sent" /\ net' = [net EXCEPT ![1] = d] /\ UNCHANGED ui
        BY <1>5 DEF S!ServePut, S!IsSent
    <2>2. c \in [op : {"put"}, at : S!Stages \cup {"refused"}, form : S!Forms,
                 password : S!Passwords]
        BY <2>1, SKinds
    <2>3. d \in S!CallType /\ d.op = "put" /\ d.at = "done"
        BY <2>2 DEF S!CallType, S!Stages
    <2>4. c.form.rp = "site" /\ c.form \in S!Forms
        BY <1>5, <2>2 DEF S!ServePut, S!Forms
    <2>5. S!MailFrom(c, db) \in S!ServerType
        BY <2>2, <2>4 DEF S!MailFrom, S!ServerType, S!Forms, S!Passwords
    <2>6. db' = [S!MailFrom(c, db) EXCEPT !.rp = "site", !.plaza = c.form.plaza]
        BY <1>5, <2>4 DEF S!ServePut
    <2>7. db' \in S!ServerType /\ db'.password = S!MailFrom(c, db).password
        BY <2>4, <2>5, <2>6 DEF S!ServerType, S!Forms
    <2>8. c.form.host # "" /\ c.password # "" => S!MailFrom(c, db).password = c.password
        BY DEF S!MailFrom, S!ServerType
    <2>9. S!TypeOK' BY <2>1, <2>3, <2>7 DEF S!TypeOK
    <2>10. net'[1] = d BY <2>1
    <2> HIDE DEF d
    <2>11. SStages' BY <2>1, <2>3, <2>10 DEF SStages, SSave
    <2>12. ~ui.edited /\ ~ui.raced => SPassword'
        BY <2>1, <2>7, <2>8 DEF SInv, SAgrees, SSent, SPassword
    <2>13. ~ui.edited /\ ~ui.raced => SAgrees'
        BY <2>1, <2>3, <2>10, <2>11, <2>12 DEF SAgrees, SStages, SSave
    <2> QED BY <2>1, <2>9, <2>11, <2>13 DEF SInv
<1>6. ASSUME S!RefusePut PROVE SInv'
    <2> DEFINE d == [c EXCEPT !.at = "refused"]
    <2>1. c.op = "put" /\ c.at = "sent" /\ net' = [net EXCEPT ![1] = d] /\ UNCHANGED ui
        BY <1>6 DEF S!RefusePut, S!IsSent
    <2>2. c \in [op : {"put"}, at : S!Stages \cup {"refused"}, form : S!Forms,
                 password : S!Passwords]
        BY <2>1, SKinds
    <2>3. d \in S!CallType /\ d.op = "put" /\ d.at = "refused"
        BY <2>2 DEF S!CallType, S!Stages
    <2>4. db' \in S!ServerType
        BY <1>6, <2>2 DEF S!RefusePut, S!MailFrom, S!ServerType, S!Forms, S!Passwords
    <2>5. S!TypeOK' BY <2>1, <2>3, <2>4 DEF S!TypeOK
    <2>6. net'[1] = d BY <2>1
    <2> HIDE DEF d
    <2>7. SStages' BY <2>1, <2>3, <2>6 DEF SStages, SSave
    <2>8. SAgrees' BY <2>1, <2>3, <2>6, <2>7 DEF SAgrees, SStages, SSave
    <2> QED BY <2>5, <2>7, <2>8 DEF SInv
<1>7. ASSUME NEW plaza \in BOOLEAN, S!Outside(plaza) PROVE SInv'
    <2>1. ui' \in S!PageType /\ ui'.raced /\ ui'.form = ui.form
          /\ ui'.saved = ui.saved /\ ui'.saving = ui.saving
        BY <1>7 DEF S!Outside, S!PageType
    <2>2. db' \in S!ServerType /\ UNCHANGED net BY <1>7 DEF S!Outside, S!ServerType
    <2> QED BY <2>1, <2>2 DEF SInv, S!TypeOK, SStages, SSave
<1>8. ASSUME NEW answered \in BOOLEAN, S!Loaded(answered) PROVE SInv'
    <2>1. c.op = "get" /\ c.by = "load" /\ net' = [net EXCEPT ![1] = S!NoCall] /\ UNCHANGED db
        BY <1>8 DEF S!Loaded, S!Ended
    <2>2. c \in [op : {"get"}, at : S!Stages, by : {"load", "save"},
                 form : S!Forms \cup {S!NoForm}]
        BY <2>1, SKinds
    <2>3. ui' \in S!PageType /\ ui'.saved = ui.saved /\ ui'.saving = ui.saving
        BY <1>8, <2>2 DEF S!Loaded, S!PageType
    <2>4. ~ui.saved /\ ~ui.saving BY <2>1 DEF SStages
    <2>5. S!TypeOK' BY <2>1, <2>3, SCalls DEF S!TypeOK
    <2>6. net'[1].op = "none" BY <2>1, SCalls
    <2> QED BY <2>3, <2>4, <2>5, <2>6 DEF SInv, SStages, SAgrees, SSave
<1>9. ASSUME S!PutDone PROVE SInv'
    <2>1. c.op = "put" /\ c.at = "done" /\ net' = [net EXCEPT ![1] = S!Fetch("save")]
          /\ UNCHANGED db
        BY <1>9 DEF S!PutDone, S!IsDone
    <2>2. ui' \in S!PageType /\ ui'.saving = ui.saving /\ ui'.form = ui.form
          /\ ui'.asked = ui.asked /\ ui'.edited = ui.edited /\ ui'.raced = ui.raced
        BY <1>9 DEF S!PutDone, S!PageType, S!Passwords
    <2>3. S!TypeOK' BY <2>1, <2>2, SCalls DEF S!TypeOK
    <2>4. net'[1] = S!Fetch("save") BY <2>1
    <2>5. ui.saving BY <2>1 DEF SStages, SSave
    <2>6. SStages' BY <2>2, <2>4, <2>5, SCalls DEF SStages, SSave
    <2>7. ~ui.edited /\ ~ui.raced => SAgrees'
        BY <2>1, <2>2, <2>4, <2>5, SCalls DEF SInv, SAgrees, SPassword
    <2> QED BY <2>2, <2>3, <2>6, <2>7 DEF SInv
<1>10. ASSUME S!Refreshed PROVE SInv'
    <2>1. c.op = "get" /\ c.by = "save" /\ c.at = "done" /\ net' = [net EXCEPT ![1] = S!NoCall]
          /\ UNCHANGED db
        BY <1>10 DEF S!Refreshed, S!IsDone, S!Ended
    <2>2. c.form \in S!Forms BY <2>1 DEF SStages
    <2>3. ui' \in S!PageType /\ ~ui'.saving /\ ui'.form = c.form /\ ui'.saved = ui.saved
          /\ ui'.asked = ui.asked /\ ui'.edited = ui.edited /\ ui'.raced = ui.raced
        BY <1>10, <2>2 DEF S!Refreshed, S!PageType
    <2>4. S!TypeOK' BY <2>1, <2>3, SCalls DEF S!TypeOK
    <2>5. net'[1].op = "none" BY <2>1, SCalls
    <2>6. SStages' BY <2>2, <2>3, <2>5, SPublic DEF SStages, SSave
    <2>7. ~ui.edited /\ ~ui.raced => SAgrees'
        BY <2>1, <2>3, <2>5 DEF SInv, SAgrees, SPassword
    <2> QED BY <2>3, <2>4, <2>6, <2>7 DEF SInv
<1>11. ASSUME S!SaveFailed PROVE SInv'
    <2>1. SSave(c) /\ net' = [net EXCEPT ![1] = S!NoCall] /\ UNCHANGED db
        BY <1>11 DEF S!SaveFailed, S!Ended, SSave
    <2>2. ui' \in S!PageType /\ ~ui'.saving /\ ui'.form = ui.form /\ ui'.saved = ui.saved
          /\ ui'.edited
        BY <1>11 DEF S!SaveFailed, S!PageType
    <2>3. S!TypeOK' BY <2>1, <2>2, SCalls DEF S!TypeOK
    <2>4. net'[1].op = "none" BY <2>1, SCalls
    <2> QED BY <2>2, <2>3, <2>4 DEF SInv, SStages, SSave
<1> QED BY <1>1, <1>2, <1>3, <1>4, <1>5, <1>6, <1>7, <1>8, <1>9, <1>10, <1>11 DEF S!Next

\* The invariant holds whenever the page is shown.
LEMMA SAlways == Spec => [](page = "settings" => SInv)
<1>1. Init => (page = "settings" => SInv) BY SInit DEF Init
<1>2. (page = "settings" => SInv) /\ [Next]_vars => (page = "settings" => SInv)'
    <2> SUFFICES ASSUME page = "settings" => SInv, [Next]_vars, page' = "settings" PROVE SInv'
        OBVIOUS
    <2>1. CASE UNCHANGED vars
        BY <2>1 DEF vars, SInv, S!TypeOK, SStages, SAgrees, SSave, SSent, SPassword
    <2> QED BY <2>1, SStep DEF Next
<1> QED BY <1>1, <1>2, PTL DEF Spec

\* pages/Settings.tsx: after a save, what the page shows and the password it was
\* given are what the server stores, unless edited or saved elsewhere since.
THEOREM SavedFormsAreStored == Spec => []SavedIsStored
<1>1. (page = "settings" => SInv) => SavedIsStored
    BY DEF SavedIsStored, S!SavedIsStored, SInv, SAgrees, SPassword
<1> QED BY <1>1, SAlways, PTL
=============================================================================
