------------------------------- MODULE Calls --------------------------------
(***************************************************************************)
(* The calls a page of the console has in flight (lib/api.ts): `net` maps  *)
(* each of a bounded number of slots to a call, a record with the fields   *)
(*   op  what was asked, "none" for a free slot,                           *)
(*   at  "sent" until the server has done what was asked, then "done",     *)
(* and what the page remembers in its closure until the answer comes.      *)
(* Slots are independent: calls are handled and answered in any order.  A  *)
(* call succeeds once it is done.  It may fail at any time: the server     *)
(* refused it or could not be reached, or, when it was done, the answer    *)
(* was lost.                                                               *)
(***************************************************************************)
EXTENDS Naturals, FiniteSets

NoCall == [op |-> "none"]
Stages == {"sent", "done"}

Silent(slots) == [i \in slots |-> NoCall]

FreeSlots(net) == {i \in DOMAIN net : net[i].op = "none"}
HasRoom(net) == FreeSlots(net) # {}
Settled(net) == \A i \in DOMAIN net : net[i].op = "none"

\* The slots with a call of these kinds in flight.
Flying(net, kinds) == {i \in DOMAIN net : net[i].op \in kinds}

\* request(): the call c leaves in a free slot; slots only tell calls apart.
Sent(net, c) ==
    LET i == CHOOSE i \in FreeSlots(net) : TRUE
    IN [net EXCEPT ![i] = c]

\* The server may handle the call in slot i; it has done so; request() of
\* this kind of call may throw.
IsSent(net, i, op) == net[i].op = op /\ net[i].at = "sent"
IsDone(net, i, op) == net[i].op = op /\ net[i].at = "done"
MayFail(net, i, op) == net[i].op = op

Ended(net, i) == [net EXCEPT ![i] = NoCall]
=============================================================================
