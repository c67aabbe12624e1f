------------------------------ MODULE KeysPage ------------------------------
(***************************************************************************)
(* A user's API keys (pages/keys): a list that is loaded as a whole and    *)
(* filtered in the browser, buttons that write at once, and the card that  *)
(* creates a key and reveals its secret, which the server hands out once.  *)
(***************************************************************************)
EXTENDS Calls

CONSTANTS
    TokenIds,      \* the keys that may be minted
    KeySlots       \* bound: calls in flight

VARIABLES db, ui, net

States == {"none", "active", "disabled", "deleted"}
Filters == {"all", "active", "disabled"}
NoTokens == [k \in TokenIds |-> "none"]

Exists(list) == {k \in TokenIds : list[k] \in {"active", "disabled"}}
Other(status) == IF status = "active" THEN "disabled" ELSE "active"

\* load(''), awaited by the creation of key `by`, or by none.
Load(by) == [op |-> "load", at |-> "sent", by |-> by, list |-> NoTokens]

\* seen and lost are ghosts: the secrets the user has seen or owned before,
\* and those whose answer never reached the browser.
Init ==
    /\ db \in [TokenIds -> {"none", "active"}] /\ Exists(db) \subseteq {1}
    /\ ui = [list |-> NoTokens, filter |-> "all", secret |-> 0, seen |-> Exists(db), lost |-> {}]
    /\ net = Sent(Silent(KeySlots), Load(0))

\* The sidebar's filter; a search resets it.
Filter(f) ==
    /\ ui.filter # f
    /\ ui' = [ui EXCEPT !.filter = f]
    /\ UNCHANGED <<db, net>>

Shown == {k \in Exists(ui.list) : ui.filter \in {"all", ui.list[k]}}

\* submit() of the card.  Its button waits for the answer, but Enter sends
\* the form again at once: the busy flag stops nothing.
Create ==
    /\ HasRoom(net)
    /\ net' = Sent(net, [op |-> "create", at |-> "sent", key |-> 0])
    /\ ui' = [ui EXCEPT !.secret = 0]
    /\ UNCHANGED db

Toggle(k) ==
    /\ k \in Shown
    /\ HasRoom(net)
    /\ net' = Sent(net, [op |-> "toggle", at |-> "sent", key |-> k, status |-> Other(ui.list[k])])
    /\ UNCHANGED <<db, ui>>

Remove(k) ==
    /\ k \in Shown
    /\ HasRoom(net)
    /\ net' = Sent(net, [op |-> "remove", at |-> "sent", key |-> k])
    /\ UNCHANGED <<db, ui>>

-----------------------------------------------------------------------------
ServeLoad(i) ==
    /\ IsSent(net, i, "load")
    /\ net' = [net EXCEPT ![i] = [@ EXCEPT !.at = "done", !.list = db]]
    /\ UNCHANGED <<db, ui>>

\* TokenHandler.Create: the only answer that holds the secret.
ServeCreate(i) ==
    /\ IsSent(net, i, "create")
    /\ \E k \in TokenIds :
          /\ db[k] = "none" /\ \A j \in 1..(k - 1) : db[j] # "none"
          /\ db' = [db EXCEPT ![k] = "active"]
          /\ net' = [net EXCEPT ![i] = [@ EXCEPT !.at = "done", !.key = k]]
    /\ UNCHANGED ui

ServeWrite(i) ==
    LET c == net[i] IN
    /\ IsSent(net, i, "toggle") \/ IsSent(net, i, "remove")
    /\ c.key \in Exists(db)
    /\ db' = [db EXCEPT ![c.key] = IF c.op = "toggle" THEN c.status ELSE "deleted"]
    /\ net' = [net EXCEPT ![i].at = "done"]
    /\ UNCHANGED ui

\* Mutant: a list that cannot be loaded counts as a failed creation.
LoadedOrNothing(i, answered) ==
    /\ IF answered THEN IsDone(net, i, "load") ELSE MayFail(net, i, "load")
    /\ ui' = IF answered /\ net[i].by # 0
             THEN [ui EXCEPT !.list = net[i].list, !.secret = net[i].by, !.seen = @ \cup {net[i].by}]
             ELSE [ui EXCEPT !.list = IF answered THEN net[i].list ELSE NoTokens]
    /\ net' = Ended(net, i)
    /\ UNCHANGED db

\* load() ends, never throwing; a creation that waited for it goes on and
\* reveals the secret.
Loaded(i, answered) ==
    LET k == net[i].by
        listed == [ui EXCEPT !.list = IF answered THEN net[i].list ELSE NoTokens]
    IN
    /\ IF answered THEN IsDone(net, i, "load") ELSE MayFail(net, i, "load")
    /\ ui' = IF k = 0 THEN listed
             ELSE [listed EXCEPT !.secret = k, !.seen = @ \cup {k}]
    /\ net' = Ended(net, i)
    /\ UNCHANGED db

Created(i) ==
    /\ IsDone(net, i, "create")
    /\ net' = [net EXCEPT ![i] = Load(net[i].key)]
    /\ UNCHANGED <<db, ui>>

Written(i) ==
    /\ IsDone(net, i, "toggle") \/ IsDone(net, i, "remove")
    /\ net' = [net EXCEPT ![i] = Load(0)]
    /\ UNCHANGED <<db, ui>>

CreateFailed(i) ==
    /\ MayFail(net, i, "create")
    /\ ui' = [ui EXCEPT !.lost = @ \cup ({net[i].key} \ {0})]
    /\ net' = Ended(net, i)
    /\ UNCHANGED db

WriteFailed(i) ==
    /\ MayFail(net, i, "toggle") \/ MayFail(net, i, "remove")
    /\ net' = Ended(net, i)
    /\ UNCHANGED <<db, ui>>

Next ==
    \/ Create \/ \E f \in Filters : Filter(f)
    \/ \E k \in TokenIds : Toggle(k) \/ Remove(k)
    \/ \E i \in KeySlots :
          \/ ServeLoad(i) \/ ServeCreate(i) \/ ServeWrite(i)
          \/ Loaded(i, TRUE) \/ Loaded(i, FALSE)
          \/ Created(i) \/ Written(i) \/ CreateFailed(i) \/ WriteFailed(i)

-----------------------------------------------------------------------------
PageType ==
    [list : [TokenIds -> States], filter : Filters, secret : TokenIds \cup {0},
     seen : SUBSET TokenIds, lost : SUBSET TokenIds]
CallType ==
    {NoCall}
    \cup [op : {"load"}, at : Stages, by : TokenIds \cup {0}, list : [TokenIds -> States]]
    \cup [op : {"create"}, at : Stages, key : TokenIds \cup {0}]
    \cup [op : {"toggle"}, at : Stages, key : TokenIds, status : States]
    \cup [op : {"remove"}, at : Stages, key : TokenIds]

TypeOK == db \in [TokenIds -> States] /\ ui \in PageType /\ net \in [KeySlots -> CallType]

\* "The freshly minted secret is shown once, it is never retrievable again"
\* (create-card.tsx): at rest the secret of every key that exists has been on
\* the screen, but for answers lost on the network: creations that overlap, a
\* list that fails to load or a write in between keep none from the user.
SecretsShown ==
    Settled(net) => \A k \in TokenIds : db[k] = "none" \/ k \in ui.seen \cup ui.lost
=============================================================================
