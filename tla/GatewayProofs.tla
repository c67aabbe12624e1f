--------------------------- MODULE GatewayProofs ---------------------------
(***************************************************************************)
(* What Gateway promises for every number of instances, channels, requests *)
(* and admins: the types of its state, the priority order of every         *)
(* failover, and that a lone instance routes by the current table.         *)
(***************************************************************************)
EXTENDS Gateway, FiniteSetTheorems, TLAPS

----------------------------------------------------------------------------
(* Snapshots.                                                              *)

Active(table) == {c \in Channels : table[c].status = "active"}
EntryOf(table) == [c \in Active(table) |-> [id |-> c, row |-> table[c]]]
Entries(table) == {[id |-> c, row |-> table[c]] : c \in Active(table)}

\* A permutation of a set no larger than the channels table is a snapshot.
LEMMA PermutationsAreSnapshots ==
    ASSUME NEW S, S \subseteq Entry, IsFiniteSet(S), Cardinality(S) <= Cardinality(Channels),
           NEW s \in SetToSeqs(S)
    PROVE  s \in Snapshot
<1>1. Cardinality(S) \in Nat
  BY FS_CardinalityType
<1>2. s \in [1..Cardinality(S) -> S]
  BY DEF SetToSeqs
<1>3. s \in Seq(S) /\ Len(s) = Cardinality(S)
  BY <1>1, <1>2
<1>4. s \in Seq(Entry)
  BY <1>3
<1> QED BY <1>3, <1>4 DEF Snapshot

\* The table has no more active rows than channels.
LEMMA EntriesBounded ==
    ASSUME NEW table \in [Channels -> Row]
    PROVE  /\ Entries(table) \subseteq Entry /\ IsFiniteSet(Entries(table))
           /\ Cardinality(Entries(table)) <= Cardinality(Channels)
<1>1. Entries(table) \subseteq Entry
  BY DEF Entries, Active, Entry
<1>2. IsFiniteSet(Channels)
  BY GatewayAssumption
<1>3. /\ IsFiniteSet(Active(table))
      /\ Cardinality(Active(table)) <= Cardinality(Channels)
  BY <1>2, FS_Subset DEF Active
<1>4. EntryOf(table) \in Surjection(Active(table), Entries(table))
  BY DEF EntryOf, Entries, Surjection
<1>5. /\ IsFiniteSet(Entries(table))
      /\ Cardinality(Entries(table)) <= Cardinality(Active(table))
  BY <1>3, <1>4, FS_Surjection
<1>6. /\ Cardinality(Entries(table)) \in Nat /\ Cardinality(Active(table)) \in Nat
      /\ Cardinality(Channels) \in Nat
  BY <1>2, <1>3, <1>5, FS_CardinalityType
<1> QED BY <1>1, <1>3, <1>5, <1>6

\* What a reload builds: a snapshot of current rows, in priority order.
Sorted(s) == \A i, j \in DOMAIN s : i < j => s[i].row.priority >= s[j].row.priority

LEMMA OrderingsSound ==
    ASSUME NEW table \in [Channels -> Row], NEW s \in Orderings(table)
    PROVE  /\ s \in Snapshot /\ Sorted(s)
           /\ \A i \in DOMAIN s : s[i].row = table[s[i].id]
<1>1. s \in SetToSeqs(Entries(table)) /\ Sorted(s)
  BY DEF Orderings, Entries, Active, Sorted
<1>2. s \in Snapshot
  BY <1>1, EntriesBounded, PermutationsAreSnapshots
<1>3. \A i \in DOMAIN s : s[i] \in Entries(table)
  BY <1>1 DEF SetToSeqs
<1>4. \A i \in DOMAIN s : s[i].row = table[s[i].id]
  BY <1>3 DEF Entries
<1> QED BY <1>1, <1>2, <1>4

\* What Chat selects: entries of the snapshot that serve the query, in order.
LEMMA MatchingSound ==
    ASSUME NEW snap \in Snapshot, NEW q, NEW s \in Matching(snap, q)
    PROVE  /\ s \in Snapshot
           /\ \A i \in DOMAIN s : Serves(s[i], q) /\ \E k \in DOMAIN snap : s[i] = snap[k]
           /\ Sorted(snap) => Sorted(s)
<1> DEFINE S == {e \in Range(snap) : Serves(e, q)}
<1>1. snap \in Seq(Entry) /\ Len(snap) <= Cardinality(Channels) /\ Len(snap) \in Nat
  BY DEF Snapshot
<1>2. DOMAIN snap = 1..Len(snap) /\ Range(snap) \subseteq Entry
  BY <1>1 DEF Range
<1>3. snap \in Surjection(1..Len(snap), Range(snap))
  BY <1>1, <1>2 DEF Range, Surjection
<1>4. IsFiniteSet(1..Len(snap)) /\ Cardinality(1..Len(snap)) = Len(snap)
  BY <1>1, FS_Interval
<1>5. IsFiniteSet(Range(snap)) /\ Cardinality(Range(snap)) <= Len(snap)
  BY <1>3, <1>4, FS_Surjection
<1>6. IsFiniteSet(S) /\ Cardinality(S) <= Cardinality(Range(snap))
  BY <1>5, FS_Subset
<1>7. /\ Cardinality(S) \in Nat /\ Cardinality(Range(snap)) \in Nat
      /\ Cardinality(Channels) \in Nat
  BY <1>5, <1>6, FS_CardinalityType, GatewayAssumption
<1>8. Cardinality(S) <= Cardinality(Channels)
  BY <1>1, <1>5, <1>6, <1>7
<1>9. s \in SetToSeqs(S)
  BY DEF Matching
<1>10. S \subseteq Entry
  BY <1>2
<1>11. s \in Snapshot
  BY <1>6, <1>8, <1>9, <1>10, PermutationsAreSnapshots
<1>12. \A i \in DOMAIN s : s[i] \in S
  BY <1>9 DEF SetToSeqs
<1>13. \A i \in DOMAIN s : Serves(s[i], q) /\ \E k \in DOMAIN snap : s[i] = snap[k]
  BY <1>12 DEF Range
<1>14. Sorted(snap) => Sorted(s)
  BY DEF Matching, Sorted
<1> QED BY <1>11, <1>13, <1>14

\* The channels left after one was tried, and the one a listing tries.
LEMMA TailSound ==
    ASSUME NEW s \in Snapshot, s # <<>>
    PROVE  /\ Tail(s) \in Snapshot
           /\ Sorted(s) => Sorted(Tail(s))
           /\ \A i \in DOMAIN Tail(s) : i + 1 \in DOMAIN s /\ Tail(s)[i] = s[i + 1]
<1>1. s \in Seq(Entry) /\ Len(s) \in Nat /\ Len(s) <= Cardinality(Channels)
  BY DEF Snapshot
<1>2. Cardinality(Channels) \in Nat
  BY FS_CardinalityType, GatewayAssumption
<1>3. Tail(s) \in Seq(Entry) /\ Len(Tail(s)) = Len(s) - 1
  BY <1>1
<1>4. \A i \in DOMAIN Tail(s) : i \in Nat /\ i + 1 \in DOMAIN s /\ Tail(s)[i] = s[i + 1]
  BY <1>1, <1>3
<1>5. Tail(s) \in Snapshot
  BY <1>1, <1>2, <1>3 DEF Snapshot
<1>6. Sorted(s) => Sorted(Tail(s))
  BY <1>4 DEF Sorted
<1> QED BY <1>4, <1>5, <1>6

LEMMA OneSound ==
    ASSUME NEW s \in Snapshot, NEW i \in DOMAIN s
    PROVE  <<s[i]>> \in Snapshot /\ Sorted(<<s[i]>>)
<1>1. s \in Seq(Entry) /\ Len(s) \in Nat /\ Len(s) <= Cardinality(Channels) /\ i \in 1..Len(s)
  BY DEF Snapshot
<1>2. Cardinality(Channels) \in Nat
  BY FS_CardinalityType, GatewayAssumption
<1>3. s[i] \in Entry /\ 1 <= Cardinality(Channels)
  BY <1>1, <1>2
<1>4. <<s[i]>> \in Seq(Entry) /\ Len(<<s[i]>>) = 1
  BY <1>3
<1>5. Sorted(<<s[i]>>)
  BY DEF Sorted
<1> QED BY <1>3, <1>4, <1>5 DEF Snapshot

LEMMA NoneSound == <<>> \in Snapshot /\ Sorted(<<>>)
<1>1. Cardinality(Channels) \in Nat
  BY FS_CardinalityType, GatewayAssumption
<1> QED BY <1>1 DEF Snapshot, Sorted

----------------------------------------------------------------------------
(* Types.                                                                  *)

LEMMA NewNodeTyped == NewNode \in Node /\ Sorted(NewNode.snap) /\ ~NewNode.fresh
BY NoneSound DEF NewNode, Node

LEMMA IdleReqTyped ==
    /\ IdleReq \in Request /\ Sorted(IdleReq.todo)
    /\ IdleReq.pc = "idle" /\ ~IdleReq.clean
<1>1. (CHOOSE n \in Nodes : TRUE) \in Nodes
  BY GatewayAssumption
<1> QED BY <1>1, NoneSound DEF IdleReq, Request

LEMMA RowsTyped ==
    ASSUME NEW c \in Channels
    PROVE  /\ Rows[c] \subseteq Row /\ NoRow \in Row
           /\ [NoRow EXCEPT !.status = "deleted"] \in Row
<1>1. Rows[c] \subseteq Row
  BY GatewayAssumption
<1>2. NoRow \in Row
  BY DEF NoRow, Row
<1>3. [NoRow EXCEPT !.status = "deleted"] \in Row
  BY <1>2 DEF Row
<1> QED BY <1>1, <1>2, <1>3

\* Every request that is trying a channel has one to try.
Supplied == \A r \in Requests : reqs[r].pc \in Trying => reqs[r].todo # <<>>

LEMMA StepTyped ==
    ASSUME TypeOK, NEW r \in Requests, NEW req \in Request,
           req.pc \in Trying => req.todo # <<>>, reqs' = [reqs EXCEPT ![r] = req]
    PROVE  reqs' \in [Requests -> Request] /\ Supplied'
BY DEF TypeOK, Supplied, Trying

LEMMA TryNextTyped ==
    ASSUME TypeOK, NEW r \in Requests, NEW todo \in Snapshot, TryNext(r, todo)
    PROVE  reqs' \in [Requests -> Request] /\ Supplied'
<1> DEFINE next == [reqs[r] EXCEPT !.pc = "resolve", !.todo = todo, !.key = NoKey]
           req == IF todo = <<>> THEN IdleReq ELSE next
<1>1. reqs[r] \in Request
  BY DEF TypeOK
<1>2. next \in Request /\ next.todo = todo
  BY <1>1 DEF Request
<1>3. req \in Request /\ (req.pc \in Trying => req.todo # <<>>)
  BY <1>2, IdleReqTyped DEF Trying
<1>4. reqs' = [reqs EXCEPT ![r] = req]
  BY DEF TryNext
<1> HIDE DEF req
<1> QED BY <1>3, <1>4, StepTyped

\* A request that goes on to a stage before its first channel.
LEMMA MoveTyped ==
    ASSUME TypeOK, NEW r \in Requests, NEW pc \in {"get", "read", "publish", "select"},
           reqs' = [reqs EXCEPT ![r].pc = pc]
    PROVE  reqs' \in [Requests -> Request] /\ Supplied'
<1> DEFINE req == [reqs[r] EXCEPT !.pc = pc]
<1>1. reqs[r] \in Request
  BY DEF TypeOK
<1>2. req \in Request /\ req.pc \notin Trying
  BY <1>1 DEF Request, Trying
<1>3. reqs' = [reqs EXCEPT ![r] = req]
  OBVIOUS
<1> HIDE DEF req
<1> QED BY <1>2, <1>3, StepTyped

LEMMA InitTyped == Init => TypeOK
<1> SUFFICES ASSUME Init PROVE TypeOK
  OBVIOUS
<1>1. db \in [Channels -> Row]
  BY GatewayAssumption DEF Init
<1>2. shared \subseteq Snapshot /\ Cardinality(shared) <= 1
  BY FS_EmptySet DEF Init
<1>3. nodes \in [Nodes -> Node]
  BY NewNodeTyped DEF Init
<1>4. /\ reqs \in [Requests -> Request]
      /\ \A r \in Requests : reqs[r].pc \in {"resolve", "build", "call"} => reqs[r].todo # <<>>
  BY IdleReqTyped DEF Init
<1>5. admins \in [Admins -> [pc : {"idle", "written", "del"}, node : Nodes]]
  BY DEF Init
<1>6. writes \in 0..MaxWrites /\ faults \in 0..MaxFaults
  BY GatewayAssumption DEF Init
<1> QED BY <1>1, <1>2, <1>3, <1>4, <1>5, <1>6 DEF TypeOK

LEMMA FaultTyped == TypeOK /\ Fault => faults' \in 0..MaxFaults
BY GatewayAssumption DEF TypeOK, Fault

\* The request's own steps.
LEMMA BeginTyped ==
    ASSUME TypeOK, NEW r \in Requests, NEW n \in Nodes, NEW q \in Queries \cup {Listing},
           Begin(r, n, q)
    PROVE  TypeOK'
<1> DEFINE req == [IdleReq EXCEPT !.pc = IF nodes[n].fresh THEN "select" ELSE "wait",
                                  !.node = n, !.query = q, !.clean = Settled]
<1>1. Settled \in BOOLEAN
  BY DEF Settled
<1>2. req \in Request /\ req.pc \notin Trying
  BY <1>1, IdleReqTyped DEF Request, Trying
<1>3. reqs' = [reqs EXCEPT ![r] = req]
  BY DEF Begin
<1> HIDE DEF req
<1>4. reqs' \in [Requests -> Request] /\ Supplied'
  BY <1>2, <1>3, StepTyped
<1> QED BY <1>4 DEF TypeOK, Begin, Supplied, Trying

LEMMA ReloadTyped ==
    ASSUME TypeOK, NEW r \in Requests,
           Acquire(r) \/ GetShared(r) \/ ReadTable(r) \/ ReadFails(r) \/ Publish(r)
    PROVE  TypeOK'
<1> DEFINE n == reqs[r].node
<1>1. /\ reqs[r] \in Request /\ nodes \in [Nodes -> Node]
      /\ n \in Nodes /\ nodes[n] \in Node
  BY DEF TypeOK, Request
<1> HIDE DEF n
<1>2. CASE Acquire(r)
  <2>1. nodes' \in [Nodes -> Node]
    <3>1. UNCHANGED nodes \/ nodes' = [nodes EXCEPT ![n].lock = r]
      BY <1>2 DEF Acquire, n
    <3>2. [nodes EXCEPT ![n].lock = r] \in [Nodes -> Node]
      BY <1>1 DEF Node
    <3> QED BY <1>1, <3>1, <3>2
  <2>2. reqs' \in [Requests -> Request] /\ Supplied'
    BY <1>2, MoveTyped DEF Acquire
  <2> QED BY <1>2, <2>1, <2>2 DEF Acquire, TypeOK, Supplied, Trying
<1>3. CASE GetShared(r)
  <2>1. nodes' \in [Nodes -> Node]
    <3>1. CASE \E s \in shared :
                 nodes' = [nodes EXCEPT ![n] =
                             [@ EXCEPT !.snap = s, !.fresh = TRUE, !.lock = NoOne]]
      <4>1. PICK s \in shared :
                   nodes' = [nodes EXCEPT ![n] =
                               [@ EXCEPT !.snap = s, !.fresh = TRUE, !.lock = NoOne]]
        BY <3>1
      <4>2. s \in Snapshot
        BY DEF TypeOK
      <4> DEFINE node == [nodes[n] EXCEPT !.snap = s, !.fresh = TRUE, !.lock = NoOne]
      <4>3. node \in Node
        BY <1>1, <4>2 DEF Node
      <4> QED BY <1>1, <4>1, <4>3
    <3>2. CASE UNCHANGED nodes
      BY <1>1, <3>2
    <3> QED BY <1>3, <3>1, <3>2 DEF GetShared, n
  <2>2. reqs' \in [Requests -> Request] /\ Supplied'
    BY <1>3, MoveTyped DEF GetShared
  <2>3. faults' \in 0..MaxFaults
    BY <1>3, FaultTyped DEF GetShared, TypeOK
  <2> QED BY <1>3, <2>1, <2>2, <2>3 DEF GetShared, TypeOK, Supplied, Trying
<1>4. CASE ReadTable(r)
  <2> DEFINE lock == IF n \in RedisNodes THEN r ELSE NoOne
  <2>1. PICK s \in Orderings(db) :
          nodes' = [nodes EXCEPT ![n] =
                      [@ EXCEPT !.snap = s, !.fresh = TRUE, !.lock = lock]]
    BY <1>4 DEF ReadTable, n
  <2>2. s \in Snapshot
    BY OrderingsSound DEF TypeOK
  <2> DEFINE node == [nodes[n] EXCEPT !.snap = s, !.fresh = TRUE, !.lock = lock]
  <2>3. node \in Node
    BY <1>1, <2>2 DEF Node
  <2>4. nodes' \in [Nodes -> Node]
    BY <1>1, <2>1, <2>3
  <2>5. reqs' \in [Requests -> Request] /\ Supplied'
    BY <1>4, MoveTyped DEF ReadTable
  <2> QED BY <1>4, <2>4, <2>5 DEF ReadTable, TypeOK, Supplied, Trying
<1>5. CASE ReadFails(r)
  <2>1. nodes' \in [Nodes -> Node]
    BY <1>1, <1>5 DEF ReadFails, Node, n
  <2> DEFINE req == [reqs[r] EXCEPT !.pc = "select", !.clean = FALSE]
  <2>2. req \in Request /\ req.pc \notin Trying
    BY <1>1 DEF Request, Trying
  <2>3. reqs' = [reqs EXCEPT ![r] = req]
    BY <1>5 DEF ReadFails
  <2>4. reqs' \in [Requests -> Request] /\ Supplied'
    <3> HIDE DEF req
    <3> QED BY <2>2, <2>3, StepTyped
  <2> QED BY <1>5, <2>1, <2>4, FaultTyped DEF ReadFails, TypeOK, Supplied, Trying
<1>6. CASE Publish(r)
  <2>1. nodes' \in [Nodes -> Node] /\ nodes[n].snap \in Snapshot
    BY <1>1, <1>6 DEF Publish, Node, n
  <2>2. shared' \subseteq Snapshot /\ Cardinality(shared') <= 1
    <3>1. shared' = {nodes[n].snap} \/ UNCHANGED shared
      BY <1>6 DEF Publish, n
    <3>2. Cardinality({nodes[n].snap}) = 1
      BY FS_Singleton
    <3>3. CASE shared' = {nodes[n].snap}
      <4>1. {nodes[n].snap} \subseteq Snapshot
        BY <2>1
      <4> HIDE DEF n
      <4> QED BY <3>2, <3>3, <4>1
    <3>4. CASE UNCHANGED shared
      BY <3>4 DEF TypeOK
    <3> QED BY <3>1, <3>3, <3>4
  <2>3. faults' \in 0..MaxFaults
    BY <1>6, FaultTyped DEF Publish, TypeOK
  <2>4. reqs' \in [Requests -> Request] /\ Supplied'
    BY <1>6, MoveTyped DEF Publish
  <2> QED BY <1>6, <2>1, <2>2, <2>3, <2>4 DEF Publish, TypeOK, Supplied, Trying
<1> QED BY <1>2, <1>3, <1>4, <1>5, <1>6

LEMMA TryTyped ==
    ASSUME TypeOK, NEW r \in Requests,
           Select(r) \/ SelectListed(r) \/ Resolve(r) \/ Insert(r) \/ Call(r)
    PROVE  TypeOK'
<1> DEFINE n == reqs[r].node  todo == reqs[r].todo
<1>1. /\ reqs[r] \in Request /\ nodes \in [Nodes -> Node] /\ nodes[n] \in Node
      /\ n \in Nodes /\ todo \in Snapshot /\ nodes[n].snap \in Snapshot
      /\ nodes[n].pool \in [Channels -> Keys \cup {NoKey}]
  BY DEF TypeOK, Request, Node
<1>2. ASSUME NEW t \in Snapshot, TryNext(r, t), UNCHANGED <<db, shared, nodes, admins, writes, faults>>
      PROVE  TypeOK'
  BY <1>2, TryNextTyped DEF TypeOK, Supplied, Trying
<1>3. CASE Select(r)
  <2>1. PICK t \in Matching(nodes[n].snap, reqs[r].query) : TryNext(r, t)
    BY <1>3 DEF Select
  <2>2. t \in Snapshot
    BY <1>1, MatchingSound
  <2> QED BY <1>2, <1>3, <2>1, <2>2 DEF Select
<1>4. CASE SelectListed(r)
  <2>1. PICK t \in Snapshot : TryNext(r, t)
    BY <1>1, <1>4, NoneSound, OneSound DEF SelectListed
  <2> QED BY <1>2, <1>4, <2>1 DEF SelectListed
<1>5. ASSUME todo # <<>>
      PROVE  Head(todo) \in Entry
  BY <1>1, <1>5 DEF Snapshot
<1>6. CASE Resolve(r)
  <2> DEFINE key == nodes[n].pool[Head(todo).id]
             req == [reqs[r] EXCEPT !.pc = IF key = NoKey THEN "build" ELSE "call", !.key = key]
  <2>1. todo # <<>>
    BY <1>6 DEF Resolve, TypeOK
  <2>2. key \in Keys \cup {NoKey}
    BY <1>1, <1>5, <2>1 DEF Entry
  <2>3. req \in Request /\ req.todo # <<>>
    <3> HIDE DEF key
    <3> QED BY <1>1, <2>1, <2>2 DEF Request
  <2>4. reqs' = [reqs EXCEPT ![r] = req]
    BY <1>6 DEF Resolve
  <2>5. reqs' \in [Requests -> Request] /\ Supplied'
    <3> HIDE DEF req
    <3> QED BY <2>3, <2>4, StepTyped
  <2> QED BY <1>6, <2>5 DEF Resolve, TypeOK, Supplied, Trying
<1>7. CASE Insert(r)
  <2> DEFINE e == Head(todo)
             req == [reqs[r] EXCEPT !.pc = "call", !.key = e.row.key]
             node == [nodes[n] EXCEPT !.pool[e.id] = e.row.key]
  <2>1. todo # <<>>
    BY <1>7 DEF Insert, TypeOK
  <2>2. e.id \in Channels /\ e.row.key \in Keys \cup {NoKey}
    BY <1>5, <2>1 DEF Entry, Row
  <2>3. nodes' = [nodes EXCEPT ![n] = node] /\ reqs' = [reqs EXCEPT ![r] = req]
    BY <1>7 DEF Insert
  <2>4. node \in Node
    <3> HIDE DEF e
    <3> QED BY <1>1, <2>2 DEF Node
  <2>5. req \in Request /\ req.todo # <<>>
    <3> HIDE DEF e
    <3> QED BY <1>1, <2>1, <2>2 DEF Request
  <2> HIDE DEF req, node
  <2>6. nodes' \in [Nodes -> Node]
    BY <1>1, <2>3, <2>4
  <2>7. reqs' \in [Requests -> Request] /\ Supplied'
    BY <2>3, <2>5, StepTyped
  <2> QED BY <1>7, <2>6, <2>7 DEF Insert, TypeOK, Supplied, Trying
<1>8. CASE Call(r)
  <2>1. todo # <<>>
    BY <1>8 DEF Call, TypeOK
  <2>2. PICK t \in Snapshot : TryNext(r, t)
    BY <1>1, <1>8, <2>1, NoneSound, TailSound DEF Call
  <2> QED BY <1>2, <1>8, <2>2 DEF Call
<1> QED BY <1>3, <1>4, <1>6, <1>7, <1>8

\* The steps of the channel mutations, of time, and the crashes.
LEMMA MutationTyped ==
    ASSUME TypeOK, NEW a \in Admins, Mutate(a) \/ ClearLocal(a) \/ DelShared(a)
    PROVE  TypeOK'
<1> DEFINE Admin == [pc : {"idle", "written", "del"}, node : Nodes]
<1>1. /\ admins \in [Admins -> Admin] /\ nodes \in [Nodes -> Node]
      /\ reqs \in [Requests -> Request] /\ writes \in 0..MaxWrites
  BY DEF TypeOK
<1>2. CASE Mutate(a)
  <2>1. PICK n \in Nodes, c \in Channels, row \in Row : Written(a, n, c, row)
    BY <1>2, RowsTyped DEF Mutate, CreateChannel, UpdateChannel, DeleteChannel
  <2>2. db' \in [Channels -> Row]
    BY <2>1 DEF Written, TypeOK
  <2>3. admins' \in [Admins -> Admin]
    BY <1>1, <2>1 DEF Written
  <2>4. writes' \in 0..MaxWrites
    BY <1>1, <2>1, GatewayAssumption DEF Written
  <2>5. reqs' = [r \in Requests |-> [reqs[r] EXCEPT !.clean = FALSE]]
    BY <2>1 DEF Written
  <2>6. \A r \in Requests : /\ [reqs[r] EXCEPT !.clean = FALSE] \in Request
                            /\ [reqs[r] EXCEPT !.clean = FALSE].pc = reqs[r].pc
                            /\ [reqs[r] EXCEPT !.clean = FALSE].todo = reqs[r].todo
    BY <1>1 DEF Request
  <2>7. reqs' \in [Requests -> Request] /\ Supplied'
    BY <2>5, <2>6 DEF TypeOK, Supplied, Trying
  <2> QED BY <2>1, <2>2, <2>3, <2>4, <2>7 DEF Written, TypeOK, Supplied, Trying
<1>3. CASE ClearLocal(a)
  <2> DEFINE n == admins[a].node
             node == [nodes[n] EXCEPT !.fresh = FALSE, !.pool = NewNode.pool]
  <2>1. n \in Nodes
    BY <1>1
  <2>2. node \in Node
    BY <1>1, <2>1, NewNodeTyped DEF Node
  <2>3. nodes' \in [Nodes -> Node]
    BY <1>1, <1>3, <2>2 DEF ClearLocal
  <2>4. admins' \in [Admins -> Admin]
    BY <1>1, <1>3 DEF ClearLocal
  <2> QED BY <1>3, <2>3, <2>4 DEF ClearLocal, TypeOK
<1>4. CASE DelShared(a)
  <2>1. admins' \in [Admins -> Admin]
    BY <1>1, <1>4 DEF DelShared
  <2>2. shared' \subseteq Snapshot /\ Cardinality(shared') <= 1
    <3>1. shared' = {} \/ UNCHANGED shared
      BY <1>4 DEF DelShared
    <3>2. CASE shared' = {}
      BY <3>2, FS_EmptySet
    <3>3. CASE UNCHANGED shared
      BY <3>3 DEF TypeOK
    <3> QED BY <3>1, <3>2, <3>3
  <2>3. faults' \in 0..MaxFaults
    BY <1>4, FaultTyped DEF DelShared, TypeOK
  <2> QED BY <1>4, <2>1, <2>2, <2>3 DEF DelShared, TypeOK
<1> QED BY <1>2, <1>3, <1>4

LEMMA TimeTyped ==
    ASSUME TypeOK, ExpireShared \/ \E n \in Nodes : ExpireLocal(n) \/ Crash(n)
    PROVE  TypeOK'
<1>1. CASE ExpireShared
  BY <1>1, FS_EmptySet DEF ExpireShared, TypeOK
<1>2. ASSUME NEW n \in Nodes, ExpireLocal(n)
      PROVE  TypeOK'
  <2>1. nodes' \in [Nodes -> Node]
    BY <1>2 DEF ExpireLocal, TypeOK, Node
  <2> QED BY <1>2, <2>1 DEF ExpireLocal, TypeOK
<1>3. ASSUME NEW n \in Nodes, Crash(n)
      PROVE  TypeOK'
  <2>1. nodes' \in [Nodes -> Node]
    BY <1>3, NewNodeTyped DEF Crash, TypeOK
  <2>2. reqs' \in [Requests -> Request] /\ Supplied'
    BY <1>3, IdleReqTyped DEF Crash, TypeOK, Supplied, Trying
  <2>3. admins' \in [Admins -> [pc : {"idle", "written", "del"}, node : Nodes]]
    BY <1>3 DEF Crash, TypeOK
  <2> QED BY <1>3, <2>1, <2>2, <2>3, FaultTyped DEF Crash, TypeOK, Supplied, Trying
<1> QED BY <1>1, <1>2, <1>3

LEMMA NextTyped == TypeOK /\ [Next]_vars => TypeOK'
<1> SUFFICES ASSUME TypeOK, [Next]_vars PROVE TypeOK'
  OBVIOUS
<1>1. ASSUME NEW r \in Requests, \/ \E n \in Nodes, q \in Queries \cup {Listing} : Begin(r, n, q)
                                 \/ Works(r) \/ Locks(r)
      PROVE  TypeOK'
  BY <1>1, BeginTyped, ReloadTyped, TryTyped DEF Works, Locks
<1>2. ASSUME NEW a \in Admins, Mutate(a) \/ ClearLocal(a) \/ DelShared(a)
      PROVE  TypeOK'
  BY <1>2, MutationTyped
<1>3. CASE ExpireShared \/ \E n \in Nodes : ExpireLocal(n) \/ Crash(n)
  BY <1>3, TimeTyped
<1>4. CASE UNCHANGED vars
  BY <1>4 DEF vars, TypeOK
<1> QED BY <1>1, <1>2, <1>3, <1>4 DEF Next

\* The rows, snapshots, locks and stages stay what the Go types and the
\* control flow of gateway.go say, and a request that tries a channel has one.
THEOREM TypeCorrect == Spec => []TypeOK
<1>1. Init => TypeOK
  BY InitTyped
<1>2. TypeOK /\ [Next]_vars => TypeOK'
  BY NextTyped
<1> QED BY <1>1, <1>2, PTL DEF Spec

----------------------------------------------------------------------------
(* The order of failover.                                                  *)

\* FailoverByPriority is not inductive: a list to try is cut out of the
\* instance's snapshot, which may have come from the shared one.
Ordered ==
    /\ \A n \in Nodes : Sorted(nodes[n].snap)
    /\ \A s \in shared : Sorted(s)
    /\ \A r \in Requests : Sorted(reqs[r].todo)

\* A reload sorts what it read, or takes the shared snapshot as it is.
LEMMA SnapshotsOrdered ==
    ASSUME TypeOK, Ordered, [Next]_vars, NEW n \in Nodes
    PROVE  Sorted(nodes'[n].snap)
<1>1. nodes \in [Nodes -> Node] /\ db \in [Channels -> Row]
  BY DEF TypeOK
<1>2. CASE UNCHANGED nodes
  BY <1>2 DEF Ordered
<1>3. ASSUME NEW m \in Nodes, nodes' = [nodes EXCEPT ![m] = NewNode]
      PROVE  Sorted(nodes'[n].snap)
  BY <1>1, <1>3, NewNodeTyped DEF Ordered
<1>4. ASSUME NEW m \in Nodes, NEW node,
             node.snap = nodes[m].snap \/ node.snap \in shared \/ node.snap \in Orderings(db),
             nodes' = [nodes EXCEPT ![m] = node]
      PROVE  Sorted(nodes'[n].snap)
  BY <1>1, <1>4, OrderingsSound DEF Ordered
<1>5. ASSUME NEW r \in Requests, Acquire(r) \/ ReadFails(r) \/ Publish(r)
      PROVE  Sorted(nodes'[n].snap)
  <2> DEFINE m == reqs[r].node
  <2>1. m \in Nodes
    BY DEF TypeOK, Request
  <2>2. UNCHANGED nodes \/ \E l : nodes' = [nodes EXCEPT ![m] = [@ EXCEPT !.lock = l]]
    BY <1>5, <1>1, <2>1 DEF Acquire, ReadFails, Publish
  <2>3. \A l : [nodes[m] EXCEPT !.lock = l].snap = nodes[m].snap
    BY <1>1, <2>1 DEF Node
  <2> QED BY <1>2, <1>4, <2>1, <2>2, <2>3
<1>6. ASSUME NEW r \in Requests, GetShared(r) \/ ReadTable(r)
      PROVE  Sorted(nodes'[n].snap)
  <2> DEFINE m == reqs[r].node
  <2>1. m \in Nodes
    BY DEF TypeOK, Request
  <2>2. \/ UNCHANGED nodes
        \/ \E s \in shared \cup Orderings(db) : \E l :
             nodes' = [nodes EXCEPT ![m] = [@ EXCEPT !.snap = s, !.fresh = TRUE, !.lock = l]]
    BY <1>6 DEF GetShared, ReadTable
  <2>3. ASSUME NEW s \in shared \cup Orderings(db), NEW l,
               nodes' = [nodes EXCEPT ![m] = [@ EXCEPT !.snap = s, !.fresh = TRUE, !.lock = l]]
        PROVE  Sorted(nodes'[n].snap)
    <3> DEFINE node == [nodes[m] EXCEPT !.snap = s, !.fresh = TRUE, !.lock = l]
    <3>1. node.snap = s
      BY <1>1, <2>1 DEF Node
    <3>2. nodes' = [nodes EXCEPT ![m] = node]
      BY <2>3
    <3> HIDE DEF node
    <3> QED BY <1>4, <2>1, <3>1, <3>2
  <2> QED BY <1>2, <2>2, <2>3
<1>7. ASSUME NEW r \in Requests, Insert(r)
      PROVE  Sorted(nodes'[n].snap)
  BY <1>1, <1>7 DEF Insert, Ordered, Node
<1>8. ASSUME NEW a \in Admins, ClearLocal(a)
      PROVE  Sorted(nodes'[n].snap)
  BY <1>1, <1>8 DEF ClearLocal, Ordered, Node
<1>9. ASSUME NEW m \in Nodes, ExpireLocal(m)
      PROVE  Sorted(nodes'[n].snap)
  BY <1>1, <1>9 DEF ExpireLocal, Ordered, Node
<1>10. ASSUME NEW m \in Nodes, Crash(m)
       PROVE  Sorted(nodes'[n].snap)
  BY <1>3, <1>10 DEF Crash
<1>11. ASSUME NEW r \in Requests,
              \/ \E m \in Nodes, q \in Queries \cup {Listing} : Begin(r, m, q)
              \/ Call(r) \/ Select(r) \/ SelectListed(r) \/ Resolve(r)
       PROVE  UNCHANGED nodes
  BY <1>11 DEF Begin, Call, Select, SelectListed, Resolve
<1>12. ASSUME NEW a \in Admins, Mutate(a) \/ DelShared(a)
       PROVE  UNCHANGED nodes
  BY <1>12 DEF Mutate, CreateChannel, UpdateChannel, DeleteChannel, Written, DelShared
<1>13. ExpireShared \/ UNCHANGED vars => UNCHANGED nodes
  BY DEF ExpireShared, vars
<1> QED BY <1>2, <1>5, <1>6, <1>7, <1>8, <1>9, <1>10, <1>11, <1>12, <1>13
        DEF Next, Works, Locks

\* What is shared was some instance's snapshot.
LEMMA SharedOrdered ==
    ASSUME TypeOK, Ordered, [Next]_vars, NEW s \in shared'
    PROVE  Sorted(s)
<1>1. CASE s \in shared
  BY <1>1 DEF Ordered
<1>2. ASSUME NEW r \in Requests, Publish(r)
      PROVE  s \in shared \/ \E n \in Nodes : s = nodes[n].snap
  BY <1>2 DEF Publish, TypeOK, Request
<1>3. ASSUME NEW r \in Requests,
             \/ \E n \in Nodes, q \in Queries \cup {Listing} : Begin(r, n, q)
             \/ GetShared(r) \/ ReadTable(r) \/ ReadFails(r) \/ Call(r) \/ Locks(r)
      PROVE  s \in shared
  BY <1>3 DEF Begin, GetShared, ReadTable, ReadFails, Call, Locks, Acquire, Select,
              SelectListed, Resolve, Insert
<1>4. ASSUME NEW a \in Admins, Mutate(a) \/ ClearLocal(a) \/ DelShared(a)
      PROVE  s \in shared
  BY <1>4 DEF Mutate, CreateChannel, UpdateChannel, DeleteChannel, Written, ClearLocal, DelShared
<1>5. ASSUME ExpireShared \/ (\E n \in Nodes : ExpireLocal(n) \/ Crash(n)) \/ UNCHANGED vars
      PROVE  s \in shared
  BY <1>5 DEF ExpireShared, ExpireLocal, Crash, vars
<1>6. s \in shared \/ \E n \in Nodes : s = nodes[n].snap
  BY <1>2, <1>3, <1>4, <1>5 DEF Next, Works
<1> QED BY <1>6 DEF Ordered

\* A list to try is cut out of a snapshot in its order, and then shortened.
LEMMA TodoOrdered ==
    ASSUME TypeOK, Ordered, [Next]_vars, NEW q \in Requests
    PROVE  Sorted(reqs'[q].todo)
<1>1. reqs \in [Requests -> Request] /\ nodes \in [Nodes -> Node]
  BY DEF TypeOK
<1>2. CASE reqs'[q].todo = reqs[q].todo
  BY <1>2 DEF Ordered
<1>3. ASSUME NEW r \in Requests, NEW todo, Sorted(todo), TryNext(r, todo)
      PROVE  Sorted(reqs'[q].todo)
  BY <1>1, <1>3, IdleReqTyped DEF TryNext, Ordered, Request
<1>4. ASSUME NEW r \in Requests, Select(r) \/ SelectListed(r) \/ Call(r)
      PROVE  Sorted(reqs'[q].todo)
  <2> DEFINE snap == nodes[reqs[r].node].snap
  <2>1. snap \in Snapshot /\ Sorted(snap)
    BY <1>1 DEF Request, Node, Ordered
  <2>2. CASE Select(r)
    <3>1. PICK t \in Matching(snap, reqs[r].query) : TryNext(r, t)
      BY <2>2 DEF Select
    <3> QED BY <1>3, <2>1, <3>1, MatchingSound
  <2>3. CASE SelectListed(r)
    BY <1>3, <2>1, <2>3, NoneSound, OneSound DEF SelectListed
  <2>4. CASE Call(r)
    <3>1. reqs[r].todo \in Snapshot /\ reqs[r].todo # <<>> /\ Sorted(reqs[r].todo)
      BY <1>1, <2>4 DEF Call, TypeOK, Request, Ordered
    <3> QED BY <1>3, <2>4, <3>1, NoneSound, TailSound DEF Call
  <2> QED BY <1>4, <2>2, <2>3, <2>4
<1>5. ASSUME NEW r \in Requests, NEW n \in Nodes, NEW query \in Queries \cup {Listing},
             Begin(r, n, query)
      PROVE  Sorted(reqs'[q].todo)
  <2>1. reqs'[q].todo = IF q = r THEN IdleReq.todo ELSE reqs[q].todo
    BY <1>1, <1>5 DEF Begin, IdleReq
  <2> QED BY <2>1, IdleReqTyped DEF Ordered
<1>6. ASSUME NEW r \in Requests,
             \/ GetShared(r) \/ ReadTable(r) \/ ReadFails(r) \/ Publish(r)
             \/ Acquire(r) \/ Resolve(r) \/ Insert(r)
      PROVE  reqs'[q].todo = reqs[q].todo
  <2>1. ASSUME NEW pc, reqs' = [reqs EXCEPT ![r].pc = pc]
        PROVE  reqs'[q].todo = reqs[q].todo
    BY <1>1, <2>1 DEF Request
  <2>2. CASE GetShared(r) \/ ReadTable(r) \/ Publish(r) \/ Acquire(r)
    <3>1. PICK pc : reqs' = [reqs EXCEPT ![r].pc = pc]
      BY <2>2 DEF GetShared, ReadTable, Publish, Acquire
    <3> QED BY <2>1, <3>1
  <2>3. CASE ReadFails(r)
    BY <1>1, <2>3 DEF ReadFails, Request
  <2>4. CASE Resolve(r)
    BY <1>1, <2>4 DEF Resolve, Request
  <2>5. CASE Insert(r)
    BY <1>1, <2>5 DEF Insert, Request
  <2> QED BY <1>6, <2>2, <2>3, <2>4, <2>5
<1>7. ASSUME NEW a \in Admins, Mutate(a) \/ ClearLocal(a) \/ DelShared(a)
      PROVE  reqs'[q].todo = reqs[q].todo
  BY <1>1, <1>7 DEF Mutate, CreateChannel, UpdateChannel, DeleteChannel, Written, ClearLocal,
                    DelShared, Request
<1>8. ASSUME NEW n \in Nodes, Crash(n)
      PROVE  Sorted(reqs'[q].todo)
  BY <1>1, <1>8, IdleReqTyped DEF Crash, Ordered
<1>9. ASSUME ExpireShared \/ (\E n \in Nodes : ExpireLocal(n)) \/ UNCHANGED vars
      PROVE  reqs'[q].todo = reqs[q].todo
  BY <1>9 DEF ExpireShared, ExpireLocal, vars
<1> QED BY <1>2, <1>4, <1>5, <1>6, <1>7, <1>8, <1>9 DEF Next, Works, Locks

\* Failover never goes back up in priority, on any instance, whichever of the
\* others built the snapshot it uses.
THEOREM FailoverDescends == Spec => []FailoverByPriority
<1>1. Init => Ordered
  BY NewNodeTyped, IdleReqTyped DEF Init, Ordered
<1>2. TypeOK /\ Ordered /\ [Next]_vars => Ordered'
  BY SnapshotsOrdered, SharedOrdered, TodoOrdered DEF Ordered
<1>3. Ordered => FailoverByPriority
  BY DEF Ordered, FailoverByPriority, Sorted
<1> QED BY <1>1, <1>2, <1>3, TypeCorrect, PTL DEF Spec

----------------------------------------------------------------------------
(* The lock.                                                               *)

\* A step of one request that moves its stage and its instance's lock together.
LEMMA LockStep ==
    ASSUME TypeOK, ReloadHoldsLock, NEW r \in Requests, NEW req, NEW node,
           LET n == reqs[r].node IN
             /\ reqs' = [reqs EXCEPT ![r] = req] /\ nodes' = [nodes EXCEPT ![n] = node]
             /\ \/ req.pc \in Reloading /\ req.node = n /\ node.lock = r
                   /\ nodes[n].lock \in {NoOne, r}
                \/ req.pc \notin Reloading /\ node.lock = NoOne /\ nodes[n].lock = r
                \/ req.pc \notin Reloading /\ reqs[r].pc \notin Reloading
                   /\ node.lock = nodes[n].lock
    PROVE  ReloadHoldsLock'
<1> DEFINE n == reqs[r].node
<1>1. /\ reqs \in [Requests -> Request] /\ nodes \in [Nodes -> Node] /\ n \in Nodes
      /\ NoOne \notin Requests
  BY GatewayAssumption DEF TypeOK, Request
<1>2. \A q \in Requests : reqs'[q] = IF q = r THEN req ELSE reqs[q]
  BY <1>1
<1>3. \A m \in Nodes : nodes'[m] = IF m = n THEN node ELSE nodes[m]
  BY <1>1
<1> SUFFICES ASSUME NEW m \in Nodes, NEW q \in Requests
             PROVE  nodes'[m].lock = q <=> reqs'[q].node = m /\ reqs'[q].pc \in Reloading
  BY DEF ReloadHoldsLock
<1>4. nodes[m].lock = q <=> reqs[q].node = m /\ reqs[q].pc \in Reloading
  BY DEF ReloadHoldsLock
<1>5. /\ nodes[m].lock = r <=> n = m /\ reqs[r].pc \in Reloading
      /\ nodes[n].lock = q <=> reqs[q].node = n /\ reqs[q].pc \in Reloading
  BY <1>1 DEF ReloadHoldsLock
<1> QED BY <1>1, <1>2, <1>3, <1>4, <1>5

LEMMA ReloadLocks ==
    ASSUME TypeOK, ReloadHoldsLock, NEW r \in Requests,
           Acquire(r) \/ GetShared(r) \/ ReadTable(r) \/ ReadFails(r) \/ Publish(r)
    PROVE  ReloadHoldsLock'
<1> DEFINE n == reqs[r].node
<1>1. /\ reqs[r] \in Request /\ nodes \in [Nodes -> Node] /\ n \in Nodes /\ nodes[n] \in Node
  BY DEF TypeOK, Request
<1>2. reqs[r].pc \in Reloading => nodes[n].lock = r
  BY <1>1 DEF ReloadHoldsLock
<1> HIDE DEF n
<1>3. \A pc : /\ [reqs[r] EXCEPT !.pc = pc].pc = pc
              /\ [reqs[r] EXCEPT !.pc = pc].node = n
  BY <1>1 DEF Request, n
<1>4. \A l : [nodes[n] EXCEPT !.lock = l].lock = l
  BY <1>1 DEF Node
<1>5. CASE Acquire(r)
  <2>1. reqs[r].pc \notin Reloading /\ nodes[n].lock = NoOne
    BY <1>5 DEF Acquire, Free, Reloading, n
  <2>2. CASE nodes[n].fresh
    <3> DEFINE req == [reqs[r] EXCEPT !.pc = "select"]
    <3>1. reqs' = [reqs EXCEPT ![r] = req] /\ nodes' = [nodes EXCEPT ![n] = nodes[n]]
      BY <1>1, <1>5, <2>2 DEF Acquire, n
    <3>2. req.pc \notin Reloading
      BY <1>3 DEF Reloading
    <3> HIDE DEF req
    <3> QED BY <2>1, <3>1, <3>2, LockStep DEF n
  <2>3. CASE ~nodes[n].fresh
    <3> DEFINE req == [reqs[r] EXCEPT !.pc = IF n \in RedisNodes THEN "get" ELSE "read"]
               node == [nodes[n] EXCEPT !.lock = r]
    <3>1. reqs' = [reqs EXCEPT ![r] = req] /\ nodes' = [nodes EXCEPT ![n] = node]
      BY <1>5, <2>3 DEF Acquire, n
    <3>2. req.pc \in Reloading /\ req.node = n /\ node.lock = r
      BY <1>3, <1>4 DEF Reloading
    <3> HIDE DEF req, node
    <3> QED BY <2>1, <3>1, <3>2, LockStep DEF n
  <2> QED BY <2>2, <2>3
<1>6. CASE GetShared(r)
  <2>1. nodes[n].lock = r
    BY <1>2, <1>6 DEF GetShared, Reloading
  <2>2. ASSUME NEW s \in shared,
               nodes' = [nodes EXCEPT ![n] = [@ EXCEPT !.snap = s, !.fresh = TRUE, !.lock = NoOne]],
               reqs' = [reqs EXCEPT ![r].pc = "select"]
        PROVE  ReloadHoldsLock'
    <3> DEFINE req == [reqs[r] EXCEPT !.pc = "select"]
               node == [nodes[n] EXCEPT !.snap = s, !.fresh = TRUE, !.lock = NoOne]
    <3>1. reqs' = [reqs EXCEPT ![r] = req] /\ nodes' = [nodes EXCEPT ![n] = node]
      BY <2>2
    <3>2. req.pc \notin Reloading /\ node.lock = NoOne
      BY <1>1, <1>3 DEF Reloading, Node
    <3> HIDE DEF req, node
    <3> QED BY <2>1, <3>1, <3>2, LockStep DEF n
  <2>3. ASSUME UNCHANGED nodes, reqs' = [reqs EXCEPT ![r].pc = "read"]
        PROVE  ReloadHoldsLock'
    <3> DEFINE req == [reqs[r] EXCEPT !.pc = "read"]
    <3>1. reqs' = [reqs EXCEPT ![r] = req] /\ nodes' = [nodes EXCEPT ![n] = nodes[n]]
      BY <1>1, <2>3
    <3>2. req.pc \in Reloading /\ req.node = n
      BY <1>3 DEF Reloading
    <3> HIDE DEF req
    <3> QED BY <2>1, <3>1, <3>2, LockStep DEF n
  <2> QED BY <1>6, <2>2, <2>3 DEF GetShared, n
<1>7. CASE ReadTable(r)
  <2> DEFINE l == IF n \in RedisNodes THEN r ELSE NoOne
             req == [reqs[r] EXCEPT !.pc = IF n \in RedisNodes THEN "publish" ELSE "select"]
  <2>1. nodes[n].lock = r
    BY <1>2, <1>7 DEF ReadTable, Reloading
  <2>2. PICK s \in Orderings(db) :
          nodes' = [nodes EXCEPT ![n] = [@ EXCEPT !.snap = s, !.fresh = TRUE, !.lock = l]]
    BY <1>7 DEF ReadTable, n
  <2> DEFINE node == [nodes[n] EXCEPT !.snap = s, !.fresh = TRUE, !.lock = l]
  <2>3. reqs' = [reqs EXCEPT ![r] = req] /\ nodes' = [nodes EXCEPT ![n] = node]
    BY <1>7, <2>2 DEF ReadTable, n
  <2>4. node.lock = l
    BY <1>1 DEF Node
  <2>5. /\ n \in RedisNodes => req.pc \in Reloading /\ req.node = n
        /\ n \notin RedisNodes => req.pc \notin Reloading
    BY <1>3 DEF Reloading
  <2> HIDE DEF req, node
  <2> QED BY <2>1, <2>3, <2>4, <2>5, LockStep DEF n
<1>8. CASE ReadFails(r)
  <2> DEFINE req == [reqs[r] EXCEPT !.pc = "select", !.clean = FALSE]
             node == [nodes[n] EXCEPT !.lock = NoOne]
  <2>1. reqs' = [reqs EXCEPT ![r] = req] /\ nodes' = [nodes EXCEPT ![n] = node]
    BY <1>8 DEF ReadFails, n
  <2>2. req.pc \notin Reloading /\ node.lock = NoOne
    BY <1>1, <1>4 DEF Request, Reloading
  <2>3. nodes[n].lock = r
    BY <1>2, <1>8 DEF ReadFails, Reloading
  <2> HIDE DEF req, node
  <2> QED BY <2>1, <2>2, <2>3, LockStep DEF n
<1>9. CASE Publish(r)
  <2> DEFINE req == [reqs[r] EXCEPT !.pc = "select"]
             node == [nodes[n] EXCEPT !.lock = NoOne]
  <2>1. reqs' = [reqs EXCEPT ![r] = req] /\ nodes' = [nodes EXCEPT ![n] = node]
    BY <1>9 DEF Publish, n
  <2>2. req.pc \notin Reloading /\ node.lock = NoOne
    BY <1>3, <1>4 DEF Reloading
  <2>3. nodes[n].lock = r
    BY <1>2, <1>9 DEF Publish, Reloading
  <2> HIDE DEF req, node
  <2> QED BY <2>1, <2>2, <2>3, LockStep DEF n
<1> QED BY <1>5, <1>6, <1>7, <1>8, <1>9

LEMMA TriesUnlocked ==
    ASSUME TypeOK, ReloadHoldsLock, NEW r \in Requests,
           \/ \E n \in Nodes, q \in Queries \cup {Listing} : Begin(r, n, q)
           \/ Select(r) \/ SelectListed(r) \/ Resolve(r) \/ Insert(r) \/ Call(r)
    PROVE  ReloadHoldsLock'
<1> DEFINE n == reqs[r].node
<1>1. /\ reqs[r] \in Request /\ nodes \in [Nodes -> Node] /\ n \in Nodes /\ nodes[n] \in Node
  BY DEF TypeOK, Request
<1>2. ASSUME NEW req, reqs' = [reqs EXCEPT ![r] = req], UNCHANGED nodes,
             req.pc \notin Reloading, reqs[r].pc \notin Reloading
      PROVE  ReloadHoldsLock'
  <2>1. nodes' = [nodes EXCEPT ![n] = nodes[n]]
    BY <1>1, <1>2
  <2> QED BY <1>2, <2>1, LockStep
<1>3. ASSUME NEW m \in Nodes, NEW q \in Queries \cup {Listing}, Begin(r, m, q)
      PROVE  ReloadHoldsLock'
  <2> DEFINE req == [IdleReq EXCEPT !.pc = IF nodes[m].fresh THEN "select" ELSE "wait",
                                    !.node = m, !.query = q, !.clean = Settled]
  <2>1. req.pc \notin Reloading
    BY DEF IdleReq, Reloading
  <2>2. reqs' = [reqs EXCEPT ![r] = req] /\ UNCHANGED nodes /\ reqs[r].pc \notin Reloading
    BY <1>3 DEF Begin, Reloading
  <2> HIDE DEF req
  <2> QED BY <1>2, <2>1, <2>2
<1>4. ASSUME NEW todo, TryNext(r, todo), UNCHANGED nodes, reqs[r].pc \notin Reloading
      PROVE  ReloadHoldsLock'
  <2> DEFINE next == [reqs[r] EXCEPT !.pc = "resolve", !.todo = todo, !.key = NoKey]
             req == IF todo = <<>> THEN IdleReq ELSE next
  <2>1. next.pc = "resolve"
    BY <1>1 DEF Request
  <2>2. req.pc \notin Reloading
    BY <2>1, IdleReqTyped DEF Reloading
  <2>3. reqs' = [reqs EXCEPT ![r] = req]
    BY <1>4 DEF TryNext
  <2> HIDE DEF req
  <2> QED BY <1>2, <1>4, <2>2, <2>3
<1>5. CASE Select(r) \/ SelectListed(r) \/ Call(r)
  BY <1>4, <1>5 DEF Select, SelectListed, Call, Reloading
<1>6. CASE Resolve(r)
  <2> DEFINE key == nodes[n].pool[Head(reqs[r].todo).id]
             req == [reqs[r] EXCEPT !.pc = IF key = NoKey THEN "build" ELSE "call", !.key = key]
  <2>1. reqs' = [reqs EXCEPT ![r] = req] /\ UNCHANGED nodes /\ reqs[r].pc \notin Reloading
    BY <1>6 DEF Resolve, Reloading
  <2> HIDE DEF key
  <2>2. req.pc \notin Reloading
    BY <1>1 DEF Request, Reloading
  <2> HIDE DEF req
  <2> QED BY <1>2, <2>1, <2>2
<1>7. CASE Insert(r)
  <2> DEFINE e == Head(reqs[r].todo)
             req == [reqs[r] EXCEPT !.pc = "call", !.key = e.row.key]
             node == [nodes[n] EXCEPT !.pool[e.id] = e.row.key]
  <2>1. /\ reqs' = [reqs EXCEPT ![r] = req] /\ nodes' = [nodes EXCEPT ![n] = node]
        /\ reqs[r].pc \notin Reloading
    BY <1>7 DEF Insert, Reloading
  <2> HIDE DEF e
  <2>2. req.pc \notin Reloading /\ node.lock = nodes[n].lock
    BY <1>1 DEF Request, Node, Reloading
  <2> HIDE DEF req, node
  <2> QED BY <2>1, <2>2, LockStep
<1> QED BY <1>3, <1>5, <1>6, <1>7

LEMMA OthersKeepLocks ==
    ASSUME TypeOK, ReloadHoldsLock,
           \/ \E a \in Admins : Mutate(a) \/ ClearLocal(a) \/ DelShared(a)
           \/ \E n \in Nodes : ExpireLocal(n) \/ Crash(n)
           \/ ExpireShared \/ UNCHANGED vars
    PROVE  ReloadHoldsLock'
<1>1. /\ reqs \in [Requests -> Request] /\ nodes \in [Nodes -> Node]
      /\ admins \in [Admins -> [pc : {"idle", "written", "del"}, node : Nodes]]
      /\ NoOne \notin Requests
  BY GatewayAssumption DEF TypeOK
<1>2. ASSUME \A n \in Nodes : nodes'[n].lock = nodes[n].lock,
             \A r \in Requests : reqs'[r].pc = reqs[r].pc /\ reqs'[r].node = reqs[r].node
      PROVE  ReloadHoldsLock'
  BY <1>2 DEF ReloadHoldsLock
<1>3. ASSUME NEW a \in Admins, Mutate(a)
      PROVE  ReloadHoldsLock'
  <2>1. PICK n, c, row : Written(a, n, c, row)
    BY <1>3 DEF Mutate, CreateChannel, UpdateChannel, DeleteChannel
  <2> QED BY <1>1, <1>2, <2>1 DEF Written, Request
<1>4. ASSUME NEW a \in Admins, ClearLocal(a)
      PROVE  ReloadHoldsLock'
  <2>1. \A n \in Nodes : nodes'[n].lock = nodes[n].lock
    BY <1>1, <1>4 DEF ClearLocal, Node
  <2> QED BY <1>2, <1>4, <2>1 DEF ClearLocal
<1>5. ASSUME NEW a \in Admins, DelShared(a)
      PROVE  ReloadHoldsLock'
  BY <1>2, <1>5 DEF DelShared
<1>6. ASSUME NEW n \in Nodes, ExpireLocal(n)
      PROVE  ReloadHoldsLock'
  <2>1. \A m \in Nodes : nodes'[m].lock = nodes[m].lock
    BY <1>1, <1>6 DEF ExpireLocal, Node
  <2> QED BY <1>2, <1>6, <2>1 DEF ExpireLocal
<1>7. ASSUME NEW n \in Nodes, Crash(n)
      PROVE  ReloadHoldsLock'
  <2> SUFFICES ASSUME NEW m \in Nodes, NEW r \in Requests
               PROVE  nodes'[m].lock = r <=> reqs'[r].node = m /\ reqs'[r].pc \in Reloading
    BY DEF ReloadHoldsLock
  <2>1. nodes'[m].lock = IF m = n THEN NoOne ELSE nodes[m].lock
    BY <1>1, <1>7 DEF Crash, NewNode
  <2>2. reqs'[r] = IF reqs[r].pc # "idle" /\ reqs[r].node = n THEN IdleReq ELSE reqs[r]
    BY <1>7 DEF Crash
  <2>3. nodes[m].lock = r <=> reqs[r].node = m /\ reqs[r].pc \in Reloading
    BY DEF ReloadHoldsLock
  <2> QED BY <1>1, <2>1, <2>2, <2>3, IdleReqTyped DEF Reloading
<1>8. CASE ExpireShared \/ UNCHANGED vars
  BY <1>2, <1>8 DEF ExpireShared, vars
<1> QED BY <1>3, <1>4, <1>5, <1>6, <1>7, <1>8

\* Whatever fails or crashes, an instance is locked by exactly the request
\* that reloads its snapshot.
THEOREM ReloadsExclusive == Spec => []ReloadHoldsLock
<1>1. Init => ReloadHoldsLock
  <2> SUFFICES ASSUME Init PROVE ReloadHoldsLock
    OBVIOUS
  <2>1. \A n \in Nodes : nodes[n].lock = NoOne
    BY DEF Init, NewNode
  <2>2. \A r \in Requests : reqs[r].pc = "idle"
    BY IdleReqTyped DEF Init
  <2> QED BY <2>1, <2>2, GatewayAssumption DEF ReloadHoldsLock, Reloading
<1>2. TypeOK /\ ReloadHoldsLock /\ [Next]_vars => ReloadHoldsLock'
  BY ReloadLocks, TriesUnlocked, OthersKeepLocks DEF Next, Works, Locks
<1> QED BY <1>1, <1>2, TypeCorrect, PTL DEF Spec

----------------------------------------------------------------------------
(* A lone instance.                                                        *)

Current(table, todo, q) ==
    \A i \in DOMAIN todo : /\ todo[i].row = table[todo[i].id]
                           /\ q # Listing => Serves(todo[i], q)

\* Why a lone instance routes by the current table.  Redis plays no part.  A
\* clean request is overlapped by no mutation, and with none under way the
\* snapshot, while it counts as fresh, is the table: the two sides of the
\* bargain between InvalidateChannels and reload.
Lone ==
    /\ \A r \in Requests : reqs[r].pc \notin {"get", "publish"}
    /\ \A a \in Admins : admins[a].pc # "del"
    /\ \A r \in Requests : reqs[r].clean => Settled
    /\ Settled => \A n \in Nodes : nodes[n].fresh => nodes[n].snap \in Orderings(db)
    /\ \A r \in Requests : reqs[r].clean =>
         /\ reqs[r].pc = "select" => nodes[reqs[r].node].snap \in Orderings(db)
         /\ reqs[r].pc \in Trying => Current(db, reqs[r].todo, reqs[r].query)

\* A step of one request, which may reload its instance's snapshot.
LEMMA LoneStep ==
    ASSUME TypeOK, Lone, NEW r \in Requests, NEW req,
           reqs' = [reqs EXCEPT ![r] = req], UNCHANGED <<db, admins>>,
           \A n \in Nodes :
             \/ nodes'[n].snap \in Orderings(db)
             \/ nodes'[n].snap = nodes[n].snap /\ (nodes'[n].fresh => nodes[n].fresh),
           req.pc \notin {"get", "publish"},
           req.clean => Settled,
           req.clean /\ req.pc = "select" => nodes'[req.node].snap \in Orderings(db),
           req.clean /\ req.pc \in Trying => Current(db, req.todo, req.query)
    PROVE  Lone'
<1>1. reqs \in [Requests -> Request]
  BY DEF TypeOK
<1>2. \A q \in Requests : reqs'[q] = IF q = r THEN req ELSE reqs[q]
  BY <1>1
<1>3. Settled' = Settled
  BY DEF Settled
<1>4. \A q \in Requests : reqs'[q].pc \notin {"get", "publish"}
  BY <1>2 DEF Lone
<1>5. \A a \in Admins : admins'[a].pc # "del"
  BY DEF Lone
<1>6. \A q \in Requests : reqs'[q].clean => Settled'
  BY <1>2, <1>3 DEF Lone
<1>7. Settled' => \A n \in Nodes : nodes'[n].fresh => nodes'[n].snap \in Orderings(db')
  BY <1>3 DEF Lone
<1>8. ASSUME NEW q \in Requests, reqs'[q].clean
      PROVE  /\ reqs'[q].pc = "select" => nodes'[reqs'[q].node].snap \in Orderings(db')
             /\ reqs'[q].pc \in Trying => Current(db', reqs'[q].todo, reqs'[q].query)
  <2>1. CASE q = r
    BY <1>2, <1>8, <2>1
  <2>2. CASE q # r
    <3>1. reqs'[q] = reqs[q] /\ reqs[q].node \in Nodes
      BY <1>1, <1>2, <2>2 DEF Request
    <3>2. reqs[q].pc = "select" => nodes'[reqs[q].node].snap \in Orderings(db)
      BY <1>8, <3>1 DEF Lone
    <3>3. reqs[q].pc \in Trying => Current(db, reqs[q].todo, reqs[q].query)
      BY <1>8, <3>1 DEF Lone
    <3> QED BY <3>1, <3>2, <3>3
  <2> QED BY <2>1, <2>2
<1> QED BY <1>4, <1>5, <1>6, <1>7, <1>8 DEF Lone

LEMMA LoneBegins ==
    ASSUME TypeOK, Lone, NEW r \in Requests, NEW n \in Nodes, NEW q \in Queries \cup {Listing},
           Begin(r, n, q)
    PROVE  Lone'
<1> DEFINE req == [IdleReq EXCEPT !.pc = IF nodes[n].fresh THEN "select" ELSE "wait",
                                  !.node = n, !.query = q, !.clean = Settled]
<1>1. reqs' = [reqs EXCEPT ![r] = req] /\ UNCHANGED <<db, admins, nodes>>
  BY DEF Begin
<1>2. /\ req.pc = IF nodes[n].fresh THEN "select" ELSE "wait"
      /\ req.node = n /\ req.clean = Settled
  BY DEF IdleReq
<1> HIDE DEF req
<1>3. req.pc \notin {"get", "publish"} /\ req.pc \notin Trying
  BY <1>2 DEF Trying
<1>4. req.clean /\ req.pc = "select" => nodes'[req.node].snap \in Orderings(db)
  BY <1>1, <1>2 DEF Lone
<1> QED BY <1>1, <1>2, <1>3, <1>4, LoneStep

LEMMA LoneReloads ==
    ASSUME Alone, TypeOK, Lone, NEW r \in Requests,
           Acquire(r) \/ GetShared(r) \/ ReadTable(r) \/ ReadFails(r) \/ Publish(r)
    PROVE  Lone'
<1> DEFINE n == reqs[r].node
<1>1. /\ reqs[r] \in Request /\ nodes \in [Nodes -> Node]
      /\ n \in Nodes /\ nodes[n] \in Node /\ n \notin RedisNodes
  BY DEF TypeOK, Request, Alone
<1> HIDE DEF n
<1>2. \A pc : /\ [reqs[r] EXCEPT !.pc = pc].pc = pc
              /\ [reqs[r] EXCEPT !.pc = pc].node = n
              /\ [reqs[r] EXCEPT !.pc = pc].clean = reqs[r].clean
  BY <1>1 DEF Request, n
<1>3. CASE Acquire(r)
  <2> DEFINE pc == IF nodes[n].fresh THEN "select" ELSE "read"
             req == [reqs[r] EXCEPT !.pc = pc]
  <2>1. reqs' = [reqs EXCEPT ![r] = req] /\ UNCHANGED <<db, admins>>
    BY <1>1, <1>3 DEF Acquire, n
  <2>2. \A m \in Nodes : nodes'[m].snap = nodes[m].snap /\ nodes'[m].fresh = nodes[m].fresh
    <3>1. UNCHANGED nodes \/ nodes' = [nodes EXCEPT ![n].lock = r]
      BY <1>3 DEF Acquire, n
    <3> QED BY <1>1, <3>1 DEF Node
  <2>3. req.pc = pc /\ req.node = n /\ req.clean = reqs[r].clean
    BY <1>2
  <2> HIDE DEF req
  <2>4. req.pc \notin {"get", "publish"} /\ req.pc \notin Trying
    BY <2>3 DEF Trying
  <2>5. req.clean => Settled
    BY <2>3 DEF Lone
  <2>6. req.clean /\ req.pc = "select" => nodes'[req.node].snap \in Orderings(db)
    BY <1>1, <2>2, <2>3, <2>5 DEF Lone
  <2> QED BY <2>1, <2>2, <2>4, <2>5, <2>6, LoneStep
<1>4. CASE GetShared(r) \/ Publish(r)
  BY <1>4 DEF GetShared, Publish, Lone
<1>5. CASE ReadTable(r)
  <2> DEFINE req == [reqs[r] EXCEPT !.pc = "select"]
  <2>1. reqs' = [reqs EXCEPT ![r] = req] /\ UNCHANGED <<db, admins>>
    BY <1>1, <1>5 DEF ReadTable, n
  <2>2. PICK s \in Orderings(db) :
          nodes' = [nodes EXCEPT ![n] = [@ EXCEPT !.snap = s, !.fresh = TRUE, !.lock = NoOne]]
    BY <1>1, <1>5 DEF ReadTable, n
  <2>3. [nodes[n] EXCEPT !.snap = s, !.fresh = TRUE, !.lock = NoOne].snap = s
    BY <1>1 DEF Node
  <2>4. nodes'[n].snap \in Orderings(db) /\ \A m \in Nodes : m # n => nodes'[m] = nodes[m]
    BY <1>1, <2>2, <2>3
  <2>5. req.pc = "select" /\ req.node = n /\ req.clean = reqs[r].clean
    BY <1>2
  <2> HIDE DEF req
  <2>6. req.clean => Settled
    BY <2>5 DEF Lone
  <2>7. \A m \in Nodes :
          \/ nodes'[m].snap \in Orderings(db)
          \/ nodes'[m].snap = nodes[m].snap /\ (nodes'[m].fresh => nodes[m].fresh)
    BY <2>4
  <2>8. req.pc \notin {"get", "publish"} /\ req.pc \notin Trying
    BY <2>5 DEF Trying
  <2> QED BY <2>1, <2>4, <2>5, <2>6, <2>7, <2>8, LoneStep
<1>6. CASE ReadFails(r)
  <2> DEFINE req == [reqs[r] EXCEPT !.pc = "select", !.clean = FALSE]
  <2>1. reqs' = [reqs EXCEPT ![r] = req] /\ UNCHANGED <<db, admins>>
    BY <1>6 DEF ReadFails
  <2>2. \A m \in Nodes : nodes'[m].snap = nodes[m].snap /\ nodes'[m].fresh = nodes[m].fresh
    BY <1>1, <1>6 DEF ReadFails, Node
  <2>3. req.pc = "select" /\ ~req.clean
    BY <1>1 DEF Request
  <2> HIDE DEF req
  <2> QED BY <2>1, <2>2, <2>3, LoneStep
<1> QED BY <1>3, <1>4, <1>5, <1>6

\* A request takes from a snapshot that is the table only rows of the table.
LEMMA LoneTries ==
    ASSUME TypeOK, Lone, NEW r \in Requests, NEW todo,
           reqs[r].clean => Current(db, todo, reqs[r].query),
           TryNext(r, todo), UNCHANGED <<db, nodes, admins>>
    PROVE  Lone'
<1> DEFINE next == [reqs[r] EXCEPT !.pc = "resolve", !.todo = todo, !.key = NoKey]
           req == IF todo = <<>> THEN IdleReq ELSE next
<1>1. reqs[r] \in Request
  BY DEF TypeOK
<1>2. /\ next.pc = "resolve" /\ next.todo = todo
      /\ next.query = reqs[r].query /\ next.clean = reqs[r].clean
  BY <1>1 DEF Request
<1>3. reqs' = [reqs EXCEPT ![r] = req]
  BY DEF TryNext
<1>4. req.pc \in {"idle", "resolve"}
  BY <1>2, IdleReqTyped
<1>5. req.clean => Settled /\ Current(db, req.todo, req.query)
  BY <1>2, IdleReqTyped DEF Lone
<1> HIDE DEF req, next
<1> QED BY <1>3, <1>4, <1>5, LoneStep

LEMMA LoneRoutes ==
    ASSUME TypeOK, Lone, NEW r \in Requests,
           Select(r) \/ SelectListed(r) \/ Resolve(r) \/ Insert(r) \/ Call(r)
    PROVE  Lone'
<1> DEFINE n == reqs[r].node  snap == nodes[n].snap
<1>1. /\ reqs[r] \in Request /\ nodes \in [Nodes -> Node] /\ n \in Nodes
      /\ nodes[n] \in Node /\ snap \in Snapshot /\ db \in [Channels -> Row]
      /\ reqs[r].todo \in Snapshot
  BY DEF TypeOK, Request, Node
<1>2. reqs[r].clean /\ reqs[r].pc = "select" => \A i \in DOMAIN snap : snap[i].row = db[snap[i].id]
  BY <1>1, OrderingsSound DEF Lone
<1>3. \A q : Current(db, <<>>, q)
  BY DEF Current
<1>4. CASE Select(r)
  <2>1. PICK todo \in Matching(snap, reqs[r].query) : TryNext(r, todo)
    BY <1>4 DEF Select
  <2>2. reqs[r].clean => Current(db, todo, reqs[r].query)
    BY <1>1, <1>2, <1>4, <2>1, MatchingSound DEF Select, Current
  <2> QED BY <1>4, <2>1, <2>2, LoneTries DEF Select
<1>5. CASE SelectListed(r)
  <2>1. CASE TryNext(r, <<>>)
    BY <1>3, <1>5, <2>1, LoneTries DEF SelectListed
  <2>2. ASSUME NEW i \in DOMAIN snap, TryNext(r, <<snap[i]>>)
        PROVE  Lone'
    <3>1. /\ reqs[r].pc = "select" /\ reqs[r].query = Listing
          /\ UNCHANGED <<db, nodes, admins>>
      BY <1>5 DEF SelectListed
    <3>2. reqs[r].clean => snap[i].row = db[snap[i].id]
      BY <1>2, <3>1
    <3>3. reqs[r].clean => Current(db, <<snap[i]>>, reqs[r].query)
      BY <3>1, <3>2 DEF Current
    <3> QED BY <2>2, <3>1, <3>3, LoneTries
  <2> QED BY <1>5, <2>1, <2>2 DEF SelectListed
<1>6. CASE Resolve(r)
  <2> DEFINE key == nodes[n].pool[Head(reqs[r].todo).id]
             pc == IF key = NoKey THEN "build" ELSE "call"
             req == [reqs[r] EXCEPT !.pc = pc, !.key = key]
  <2>1. reqs' = [reqs EXCEPT ![r] = req] /\ UNCHANGED <<db, admins, nodes>>
    BY <1>6 DEF Resolve
  <2>2. pc \in {"build", "call"} /\ reqs[r].pc \in Trying
    BY <1>6 DEF Resolve, Trying
  <2> HIDE DEF pc, key
  <2>3. /\ req.pc = pc /\ req.clean = reqs[r].clean
        /\ req.todo = reqs[r].todo /\ req.query = reqs[r].query
    BY <1>1 DEF Request
  <2> HIDE DEF req
  <2>4. req.clean => Settled /\ Current(db, req.todo, req.query)
    BY <2>2, <2>3 DEF Lone
  <2> QED BY <2>1, <2>2, <2>3, <2>4, LoneStep
<1>7. CASE Insert(r)
  <2> DEFINE e == Head(reqs[r].todo)
             req == [reqs[r] EXCEPT !.pc = "call", !.key = e.row.key]
             node == [nodes[n] EXCEPT !.pool[e.id] = e.row.key]
  <2>1. /\ reqs' = [reqs EXCEPT ![r] = req] /\ UNCHANGED <<db, admins>>
        /\ nodes' = [nodes EXCEPT ![n] = node] /\ reqs[r].pc \in Trying
    BY <1>7 DEF Insert, Trying
  <2> HIDE DEF e
  <2>2. node.snap = nodes[n].snap /\ node.fresh = nodes[n].fresh
    BY <1>1 DEF Node
  <2>3. /\ req.pc = "call" /\ req.clean = reqs[r].clean
        /\ req.todo = reqs[r].todo /\ req.query = reqs[r].query
    BY <1>1 DEF Request
  <2> HIDE DEF req, node
  <2>4. \A m \in Nodes : nodes'[m].snap = nodes[m].snap /\ nodes'[m].fresh = nodes[m].fresh
    BY <1>1, <2>1, <2>2
  <2>5. req.clean => Settled /\ Current(db, req.todo, req.query)
    BY <2>1, <2>3 DEF Lone
  <2> QED BY <2>1, <2>3, <2>4, <2>5, LoneStep
<1>8. CASE Call(r)
  <2>1. reqs[r].todo # <<>> /\ (reqs[r].clean => Current(db, reqs[r].todo, reqs[r].query))
    BY <1>8 DEF Call, TypeOK, Lone, Trying
  <2>2. reqs[r].clean => Current(db, Tail(reqs[r].todo), reqs[r].query)
    BY <1>1, <2>1, TailSound DEF Current
  <2> QED BY <1>3, <1>8, <2>2, LoneTries DEF Call
<1> QED BY <1>4, <1>5, <1>6, <1>7, <1>8

\* A mutation marks every request it overlaps; it is over when the lone
\* instance has forgotten its snapshot.
LEMMA LoneMutations ==
    ASSUME Alone, TypeOK, Lone, NEW a \in Admins, Mutate(a) \/ ClearLocal(a) \/ DelShared(a)
    PROVE  Lone'
<1>1. /\ admins \in [Admins -> [pc : {"idle", "written", "del"}, node : Nodes]]
      /\ nodes \in [Nodes -> Node] /\ reqs \in [Requests -> Request]
  BY DEF TypeOK
<1>2. CASE Mutate(a)
  <2>1. PICK n, c, row : Written(a, n, c, row)
    BY <1>2 DEF Mutate, CreateChannel, UpdateChannel, DeleteChannel
  <2>2. admins'[a].pc = "written" /\ \A b \in Admins : admins'[b].pc # "del"
    BY <1>1, <2>1 DEF Written, Lone
  <2>3. ~Settled'
    BY <2>2 DEF Settled
  <2>4. \A r \in Requests : ~reqs'[r].clean /\ reqs'[r].pc = reqs[r].pc
    BY <1>1, <2>1 DEF Written, Request
  <2> QED BY <2>2, <2>3, <2>4 DEF Lone
<1>3. CASE ClearLocal(a)
  <2> DEFINE n == admins[a].node
  <2>1. n \in Nodes /\ n \notin RedisNodes /\ \A m \in Nodes : m = n
    <3>1. n \in Nodes
      BY <1>1
    <3>2. PICK m : Nodes = {m}
      BY FS_Singleton, GatewayAssumption DEF Alone
    <3> QED BY <3>1, <3>2 DEF Alone
  <2>2. ~Settled
    BY <1>3 DEF ClearLocal, Settled
  <2>3. ~nodes'[n].fresh
    BY <1>1, <1>3, <2>1 DEF ClearLocal, Node
  <2>4. \A b \in Admins : admins'[b].pc # "del"
    BY <1>1, <1>3, <2>1 DEF ClearLocal, Lone
  <2>5. \A r \in Requests : ~reqs[r].clean /\ reqs'[r] = reqs[r]
    BY <1>3, <2>2 DEF ClearLocal, Lone
  <2> QED BY <2>1, <2>3, <2>4, <2>5 DEF Lone
<1>4. CASE DelShared(a)
  BY <1>4 DEF DelShared, Lone
<1> QED BY <1>2, <1>3, <1>4

LEMMA LoneTime ==
    ASSUME Alone, TypeOK, Lone, ExpireShared \/ \E n \in Nodes : ExpireLocal(n) \/ Crash(n)
    PROVE  Lone'
<1>1. /\ nodes \in [Nodes -> Node] /\ reqs \in [Requests -> Request]
      /\ admins \in [Admins -> [pc : {"idle", "written", "del"}, node : Nodes]]
  BY DEF TypeOK
<1>2. CASE ExpireShared
  <2>1. UNCHANGED <<db, nodes, reqs, admins>>
    BY <1>2 DEF ExpireShared
  <2>2. Settled' = Settled
    BY <2>1 DEF Settled
  <2> QED BY <2>1, <2>2 DEF Lone
<1>3. ASSUME NEW n \in Nodes, ExpireLocal(n)
      PROVE  Lone'
  <2>1. \A m \in Nodes : nodes'[m].snap = nodes[m].snap /\ (nodes'[m].fresh => nodes[m].fresh)
    BY <1>1, <1>3 DEF ExpireLocal, Node
  <2>2. UNCHANGED <<db, admins, reqs>>
    BY <1>3 DEF ExpireLocal
  <2>3. Settled' = Settled
    BY <2>2 DEF Settled
  <2>4. \A r \in Requests : reqs[r].node \in Nodes
    BY <1>1 DEF Request
  <2> QED BY <2>1, <2>2, <2>3, <2>4 DEF Lone
<1>4. ASSUME NEW n \in Nodes, Crash(n)
      PROVE  Lone'
  <2>1. \A m \in Nodes : m = n
    <3>1. PICK m : Nodes = {m}
      BY FS_Singleton, GatewayAssumption DEF Alone
    <3> QED BY <3>1
  <2>2. ~nodes'[n].fresh
    BY <1>1, <1>4, NewNodeTyped DEF Crash
  <2>3. \A r \in Requests : reqs[r].node = n
    BY <1>1, <2>1 DEF Request
  <2>4. \A r \in Requests : reqs'[r] = IdleReq \/ (reqs'[r] = reqs[r] /\ reqs[r].pc = "idle")
    BY <1>4, <2>3 DEF Crash
  <2>5. \A a \in Admins : admins'[a].pc = "idle"
    BY <1>1, <1>4, <2>1 DEF Crash
  <2>6. \A r \in Requests : reqs'[r].pc = "idle"
    BY <2>4, IdleReqTyped
  <2>7. Settled'
    BY <2>5 DEF Settled
  <2> QED BY <2>1, <2>2, <2>5, <2>6, <2>7 DEF Lone, Trying
<1> QED BY <1>2, <1>3, <1>4

\* Provided nobody else reads or writes the table's copies, a request that no
\* mutation overlaps is routed by the table as it is.
THEOREM LoneRoutesCurrentTable == Spec => []RoutesCurrentTable
<1>1. Init /\ Alone => Lone
  BY IdleReqTyped, NewNodeTyped DEF Init, Lone, Trying
<1>2. ASSUME Alone, TypeOK, Lone, [Next]_vars
      PROVE  Lone'
  <2>1. ASSUME NEW r \in Requests, \/ \E n \in Nodes, q \in Queries \cup {Listing} : Begin(r, n, q)
                                   \/ Works(r) \/ Locks(r)
        PROVE  Lone'
    BY <1>2, <2>1, LoneBegins, LoneReloads, LoneRoutes DEF Works, Locks
  <2>2. ASSUME NEW a \in Admins, Mutate(a) \/ ClearLocal(a) \/ DelShared(a)
        PROVE  Lone'
    BY <1>2, <2>2, LoneMutations
  <2>3. CASE ExpireShared \/ \E n \in Nodes : ExpireLocal(n) \/ Crash(n)
    BY <1>2, <2>3, LoneTime
  <2>4. CASE UNCHANGED vars
    <3>1. Settled' = Settled
      BY <2>4 DEF vars, Settled
    <3> QED BY <1>2, <2>4, <3>1 DEF vars, Lone
  <2> QED BY <1>2, <2>1, <2>2, <2>3, <2>4 DEF Next
<1>3. (Alone => Lone) => RoutesCurrentTable
  BY DEF Lone, RoutesCurrentTable, Current
<1>4. Init => (Alone => Lone)
  BY <1>1
<1>5. TypeOK /\ (Alone => Lone) /\ [Next]_vars => (Alone => Lone)'
  BY <1>2 DEF Alone
<1> QED BY <1>3, <1>4, <1>5, TypeCorrect, PTL DEF Spec
=============================================================================
