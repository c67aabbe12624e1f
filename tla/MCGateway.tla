----------------------------- MODULE MCGateway -----------------------------
(* Instances of Gateway small enough for TLC. *)
EXTENDS Gateway, TLC

CONSTANTS c1, c2, key1, key2, key3, m1

Chat == [model |-> m1, group |-> ""]
VipChat == [model |-> m1, group |-> "vip"]
ListingQuery == [model |-> "", group |-> "list"]
ChatQueries == {Chat, VipChat}
OneQuery == {Chat}

RowOf(status, priority, groups, key) ==
    [status |-> status, priority |-> priority, models |-> {m1}, groups |-> groups, key |-> key]

\* c1 changes its key or its priority, or is disabled; c2 stays as it is.
Steady == RowOf("active", 1, {"", "vip"}, key3)
First == RowOf("active", 2, {"default"}, key1)
Rekeyed == RowOf("active", 2, {"default"}, key2)
Demoted == RowOf("active", 0, {"vip"}, key1)
Disabled == RowOf("disabled", 2, {"default"}, key1)

TwoRows == (c1 :> {First, Rekeyed, Demoted, Disabled}) @@ (c2 :> {Steady})
TwoStart == (c1 :> First) @@ (c2 :> NoRow)

OneRow == (c1 :> {First, Rekeyed})
OneStart == (c1 :> First)
=============================================================================
