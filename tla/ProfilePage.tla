---------------------------- MODULE ProfilePage -----------------------------
(***************************************************************************)
(* A user's passkeys (pages/Profile.tsx, lib/webauthn.ts): registering one *)
(* takes a challenge from the server, a credential the authenticator       *)
(* makes, and a second call that stores it.  The challenges are kept in    *)
(* the server's memory for two minutes, at most a fixed number of them.    *)
(***************************************************************************)
EXTENDS Calls

CONSTANTS
    Credentials,   \* bound: the credentials the authenticator makes, numbers
    ProfileSlots   \* bound: calls in flight

VARIABLES
    db,   \* server: the passkeys stored, and whether the challenge is pending
    ui,   \* the page, and the ghosts device, removed and told: credentials the
          \* authenticator holds, those removed, and those an error was shown for
    net

Load(by) == [op |-> "load", at |-> "sent", by |-> by, keys |-> {}]

Init ==
    /\ db \in [stored : {{}, {1}}, pending : {FALSE}]
    /\ ui = [keys |-> {}, registering |-> FALSE, device |-> db.stored, removed |-> {}, told |-> {}]
    /\ net = Sent(Silent(ProfileSlots), Load("none"))

\* register(): asks for a challenge.  The button is off when the site has
\* passkeys turned off, the browser has none, or a registration is under way.
Register ==
    /\ ~ui.registering /\ HasRoom(net)
    /\ net' = Sent(net, [op |-> "begin", at |-> "sent"])
    /\ ui' = [ui EXCEPT !.registering = TRUE]
    /\ UNCHANGED db

\* Nothing disables the button of a row.
Remove(k) ==
    /\ k \in ui.keys /\ HasRoom(net)
    /\ net' = Sent(net, [op |-> "remove", at |-> "sent", key |-> k])
    /\ UNCHANGED <<db, ui>>

-----------------------------------------------------------------------------
ServeLoad(i) ==
    /\ IsSent(net, i, "load")
    /\ net' = [net EXCEPT ![i] = [@ EXCEPT !.at = "done", !.keys = db.stored]]
    /\ UNCHANGED <<db, ui>>

\* PasskeyHandler.RegisterBegin
ServeBegin(i) ==
    /\ IsSent(net, i, "begin")
    /\ db' = [db EXCEPT !.pending = TRUE]
    /\ net' = [net EXCEPT ![i].at = "done"]
    /\ UNCHANGED ui

\* Two minutes, a restart of the server, or the eviction of an entry.
Lapse ==
    /\ db.pending
    /\ db' = [db EXCEPT !.pending = FALSE]
    /\ UNCHANGED <<ui, net>>

\* The user confirms: the authenticator has a new credential.
Confirm(i, k) ==
    /\ IsDone(net, i, "begin")
    /\ k = Cardinality(ui.device) + 1
    /\ ui' = [ui EXCEPT !.device = @ \cup {k}]
    /\ net' = [net EXCEPT ![i] = [op |-> "finish", at |-> "sent", key |-> k]]
    /\ UNCHANGED db

\* PasskeyHandler.RegisterFinish: the challenge is good for one call.
ServeFinish(i) ==
    /\ IsSent(net, i, "finish")
    /\ db' = [stored |-> db.stored \cup (IF db.pending THEN {net[i].key} ELSE {}), pending |-> FALSE]
    /\ net' = [net EXCEPT ![i].at = IF db.pending THEN "done" ELSE "refused"]
    /\ UNCHANGED ui

ServeRemove(i) ==
    /\ IsSent(net, i, "remove") /\ net[i].key \in db.stored
    /\ db' = [db EXCEPT !.stored = @ \ {net[i].key}]
    /\ ui' = [ui EXCEPT !.removed = @ \cup {net[i].key}]
    /\ net' = [net EXCEPT ![i].at = "done"]

Loaded(i, answered) ==
    /\ IF answered THEN IsDone(net, i, "load") ELSE MayFail(net, i, "load")
    /\ ui' = [ui EXCEPT !.keys = IF answered THEN net[i].keys ELSE {},
                        !.registering = @ /\ net[i].by # "register"]
    /\ net' = Ended(net, i)
    /\ UNCHANGED db

\* Mutant: the status of the second call's answer is not looked at.
RegisteredAnyhow(i) ==
    /\ net[i].op = "finish" /\ net[i].at # "sent"
    /\ net' = [net EXCEPT ![i] = Load("register")]
    /\ UNCHANGED <<db, ui>>

\* registerPasskey() returned: the page says so and loads the list.
Registered(i) ==
    /\ IsDone(net, i, "finish")
    /\ net' = [net EXCEPT ![i] = Load("register")]
    /\ UNCHANGED <<db, ui>>

\* It threw: a call failed or was refused, or the user cancelled the prompt.
NotRegistered(i) ==
    /\ MayFail(net, i, "begin") \/ MayFail(net, i, "finish")
    /\ ui' = [ui EXCEPT !.registering = FALSE,
                        !.told = @ \cup (IF net[i].op = "finish" THEN {net[i].key} ELSE {})]
    /\ net' = Ended(net, i)
    /\ UNCHANGED db

Removed(i) ==
    /\ IsDone(net, i, "remove")
    /\ net' = [net EXCEPT ![i] = Load("none")]
    /\ UNCHANGED <<db, ui>>

RemoveFailed(i) ==
    /\ MayFail(net, i, "remove")
    /\ net' = Ended(net, i)
    /\ UNCHANGED <<db, ui>>

Next ==
    \/ Register \/ Lapse \/ \E k \in Credentials : Remove(k)
    \/ \E i \in ProfileSlots :
          \/ ServeLoad(i) \/ ServeBegin(i) \/ ServeFinish(i) \/ ServeRemove(i)
          \/ \E k \in Credentials : Confirm(i, k)
          \/ Loaded(i, TRUE) \/ Loaded(i, FALSE)
          \/ Registered(i) \/ NotRegistered(i) \/ Removed(i) \/ RemoveFailed(i)

-----------------------------------------------------------------------------
PageType ==
    [keys : SUBSET Credentials, registering : BOOLEAN, device : SUBSET Credentials,
     removed : SUBSET Credentials, told : SUBSET Credentials]
CallType ==
    {NoCall}
    \cup [op : {"load"}, at : Stages, by : {"none", "register"}, keys : SUBSET Credentials]
    \cup [op : {"begin"}, at : Stages]
    \cup [op : {"finish"}, at : Stages \cup {"refused"}, key : Credentials]
    \cup [op : {"remove"}, at : Stages, key : Credentials]

TypeOK ==
    /\ db \in [stored : SUBSET Credentials, pending : BOOLEAN]
    /\ ui \in PageType /\ net \in [ProfileSlots -> CallType]
    /\ db.stored \cup ui.keys \subseteq ui.device

\* No passkey is stranded in silence: a credential the authenticator made and
\* the server does not keep was removed, or its registration ended in an
\* error on the page, wherever the challenge lapsed or a call was lost.
NoneStranded ==
    Settled(net) => ui.device \subseteq db.stored \cup ui.removed \cup ui.told
=============================================================================
