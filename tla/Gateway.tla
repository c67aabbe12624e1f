------------------------------ MODULE Gateway ------------------------------
(***************************************************************************)
(* Routing over the channels table (gateway/gateway.go).  Every instance   *)
(* keeps a snapshot of the active channels and a pool of upstream          *)
(* providers; instances may share a snapshot through Redis.  Requests      *)
(* reload a stale snapshot under the instance's lock, then try the         *)
(* matching channels in priority order; admin mutations (handler/          *)
(* channels.go) invalidate both caches after their write.                  *)
(***************************************************************************)
EXTENDS Integers, FiniteSets, SequencesExt

CONSTANTS
    Nodes,          \* instances of the program
    RedisNodes,     \* those configured with Redis
    Channels,       \* ids of the channels table, never reused
    Rows,           \* Rows[c]: what an admin may write in row c
    Start,          \* Start[c]: the row when the instances start
    Keys, NoKey,    \* upstream credentials; base URL and protocol go with them
    Requests,       \* handlers of proxied requests that may run concurrently
    Admins,         \* handlers of channel mutations that may run concurrently
    NoOne,          \* the holder of a free lock
    Queries,        \* what requests ask for: a model, and the caller's group
    Listing,        \* the query of GET /v1/models
    MaxWrites,      \* bound: channel mutations
    MaxFaults       \* bound: failed calls of the database or Redis, and crashes

\* models and groups: the members of the comma-separated columns.
Row == [status : {"none", "active", "disabled", "deleted"}, priority : Int,
        models : SUBSET {q.model : q \in Queries},
        groups : SUBSET ({q.group : q \in Queries} \cup {"", "default"}),
        key : Keys \cup {NoKey}]

NoRow == [status |-> "none", priority |-> 0, models |-> {}, groups |-> {}, key |-> NoKey]

ASSUME GatewayAssumption ==
    /\ Nodes # {} /\ RedisNodes \subseteq Nodes
    /\ IsFiniteSet(Nodes) /\ IsFiniteSet(Channels)
    /\ NoKey \notin Keys /\ NoOne \notin Requests /\ Listing \notin Queries
    /\ \A c \in Channels :
         /\ Rows[c] \subseteq {row \in Row : row.status \in {"active", "disabled"}}
         /\ Start[c] \in Rows[c] \cup {NoRow}
    /\ Start \in [Channels -> Row]
    /\ MaxWrites \in Nat /\ MaxFaults \in Nat

VARIABLES
    db,       \* db[c]: the row of the channels table
    shared,   \* the Redis key gateway:channels: {} or {snapshot}
    nodes,    \* nodes[n]: the Gateway struct of an instance
    reqs,     \* reqs[r]: where a request stands
    admins,   \* admins[a]: where a channel mutation stands
    writes,   \* channel mutations so far
    faults    \* faults so far

vars == <<db, shared, nodes, reqs, admins, writes, faults>>

Entry == [id : Channels, row : Row]
Snapshot == {s \in Seq(Entry) : Len(s) <= Cardinality(Channels)}

\* fresh: loaded within channelCacheTTL.  lock: the request that holds mu for
\* writing across its reload; every other critical section is one step.
Node == [snap : Snapshot, fresh : BOOLEAN, lock : Requests \cup {NoOne},
         pool : [Channels -> Keys \cup {NoKey}]]

NewNode == [snap |-> <<>>, fresh |-> FALSE, lock |-> NoOne, pool |-> [c \in Channels |-> NoKey]]

\* clean: no mutation was under way when the request began, none has been
\* written since, and its own reload did not fail.
Request == [pc : {"idle", "wait", "get", "read", "publish", "select", "resolve", "build", "call"},
            node : Nodes, query : Queries \cup {Listing}, todo : Snapshot,
            key : Keys \cup {NoKey}, clean : BOOLEAN]

IdleReq == [pc |-> "idle", node |-> CHOOSE n \in Nodes : TRUE, query |-> Listing,
            todo |-> <<>>, key |-> NoKey, clean |-> FALSE]

TypeOK ==
    /\ db \in [Channels -> Row]
    /\ shared \subseteq Snapshot /\ Cardinality(shared) <= 1
    /\ nodes \in [Nodes -> Node]
    /\ reqs \in [Requests -> Request]
    /\ \A r \in Requests : reqs[r].pc \in {"resolve", "build", "call"} => reqs[r].todo # <<>>
    /\ admins \in [Admins -> [pc : {"idle", "written", "del"}, node : Nodes]]
    /\ writes \in 0..MaxWrites
    /\ faults \in 0..MaxFaults

Init ==
    /\ db = Start
    /\ shared = {}
    /\ nodes = [n \in Nodes |-> NewNode]
    /\ reqs = [r \in Requests |-> IdleReq]
    /\ admins \in [Admins -> {[pc |-> "idle", node |-> n] : n \in Nodes}]
    /\ writes = 0
    /\ faults = 0

----------------------------------------------------------------------------
(* Snapshots.                                                              *)

\* Mutant: the rows stay in the order the database returned them.
Unsorted(table) ==
    SetToSeqs({[id |-> c, row |-> table[c]] : c \in {d \in Channels : table[d].status = "active"}})

\* The snapshots a reload may build: the active rows, higher priority first.
\* The SELECT has no ORDER BY, so rows of one priority come in any order.
Orderings(table) ==
    {s \in SetToSeqs({[id |-> c, row |-> table[c]] :
                        c \in {d \in Channels : table[d].status = "active"}}) :
        \A i, j \in DOMAIN s : i < j => s[i].row.priority >= s[j].row.priority}

\* The default group also matches channels that name no group.
InGroup(row, group) ==
    IF group \in {"", "default"} THEN row.groups \cap {"", "default"} # {}
                                 ELSE group \in row.groups

Serves(entry, q) == q.model \in entry.row.models /\ InGroup(entry.row, q.group)

\* The one sequence of the entries that serve the query, in the snapshot's
\* order (a snapshot holds no entry twice).
Matching(snap, q) ==
    {s \in SetToSeqs({e \in Range(snap) : Serves(e, q)}) :
        \A i, j \in DOMAIN s : i < j =>
            \E k, l \in DOMAIN snap : k < l /\ s[i] = snap[k] /\ s[j] = snap[l]}

----------------------------------------------------------------------------
(* Chat, ChatStream and Models: reload, select, then failover.             *)

Free(n) == nodes[n].lock = NoOne

Fault ==
    /\ faults < MaxFaults
    /\ faults' = faults + 1

Settled == \A a \in Admins : admins[a].pc = "idle"

\* A request arrives and looks at the snapshot's age under the read lock.
Begin(r, n, q) ==
    /\ reqs[r].pc = "idle" /\ Free(n)
    /\ reqs' = [reqs EXCEPT ![r] =
                  [IdleReq EXCEPT !.pc = IF nodes[n].fresh THEN "select" ELSE "wait",
                                  !.node = n, !.query = q, !.clean = Settled]]
    /\ UNCHANGED <<db, shared, nodes, admins, writes, faults>>

\* It gets the write lock, and looks again.
Acquire(r) ==
    LET n == reqs[r].node IN
    /\ reqs[r].pc = "wait" /\ Free(n)
    /\ IF nodes[n].fresh
       THEN /\ reqs' = [reqs EXCEPT ![r].pc = "select"]
            /\ UNCHANGED nodes
       ELSE /\ reqs' = [reqs EXCEPT ![r].pc = IF n \in RedisNodes THEN "get" ELSE "read"]
            /\ nodes' = [nodes EXCEPT ![n].lock = r]
    /\ UNCHANGED <<db, shared, admins, writes, faults>>

\* A hit replaces the snapshot; a miss, or a failing Redis, falls through.
GetShared(r) ==
    LET n == reqs[r].node IN
    /\ reqs[r].pc = "get"
    /\ \/ \E s \in shared :
            /\ nodes' = [nodes EXCEPT ![n] = [@ EXCEPT !.snap = s, !.fresh = TRUE, !.lock = NoOne]]
            /\ reqs' = [reqs EXCEPT ![r].pc = "select"]
            /\ UNCHANGED faults
       \/ /\ IF shared = {} THEN UNCHANGED faults ELSE Fault
          /\ reqs' = [reqs EXCEPT ![r].pc = "read"]
          /\ UNCHANGED nodes
    /\ UNCHANGED <<db, shared, admins, writes>>

ReadTable(r) ==
    LET n == reqs[r].node  publishes == n \in RedisNodes IN
    /\ reqs[r].pc = "read"
    /\ \E s \in Orderings(db) :
         nodes' = [nodes EXCEPT ![n] =
                     [@ EXCEPT !.snap = s, !.fresh = TRUE,
                               !.lock = IF publishes THEN r ELSE NoOne]]
    /\ reqs' = [reqs EXCEPT ![r].pc = IF publishes THEN "publish" ELSE "select"]
    /\ UNCHANGED <<db, shared, admins, writes, faults>>

\* Mutant: the error path returns without releasing the lock.
ReadFailsLocked(r) ==
    /\ reqs[r].pc = "read"
    /\ Fault
    /\ reqs' = [reqs EXCEPT ![r] = [@ EXCEPT !.pc = "select", !.clean = FALSE]]
    /\ UNCHANGED <<db, shared, nodes, admins, writes>>

\* The old snapshot stays, and the request goes on with it.
ReadFails(r) ==
    /\ reqs[r].pc = "read"
    /\ Fault
    /\ nodes' = [nodes EXCEPT ![reqs[r].node].lock = NoOne]
    /\ reqs' = [reqs EXCEPT ![r] = [@ EXCEPT !.pc = "select", !.clean = FALSE]]
    /\ UNCHANGED <<db, shared, admins, writes>>

Publish(r) ==
    LET n == reqs[r].node IN
    /\ reqs[r].pc = "publish"
    /\ \/ shared' = {nodes[n].snap} /\ UNCHANGED faults
       \/ Fault /\ UNCHANGED shared
    /\ nodes' = [nodes EXCEPT ![n].lock = NoOne]
    /\ reqs' = [reqs EXCEPT ![r].pc = "select"]
    /\ UNCHANGED <<db, admins, writes>>

\* Mutant: the empty list is not looked at before its first channel is taken.
TryNextUnchecked(r, todo) ==
    reqs' = [reqs EXCEPT ![r] = [@ EXCEPT !.pc = "resolve", !.todo = todo, !.key = NoKey]]

\* The channels to try.  With none left the request ends: the client gets
\* an error, or the proxy's environment provider.
TryNext(r, todo) ==
    reqs' = [reqs EXCEPT ![r] = IF todo = <<>> THEN IdleReq
                                ELSE [@ EXCEPT !.pc = "resolve", !.todo = todo, !.key = NoKey]]

Select(r) ==
    LET n == reqs[r].node IN
    /\ reqs[r].pc = "select" /\ reqs[r].query # Listing /\ Free(n)
    /\ \E todo \in Matching(nodes[n].snap, reqs[r].query) : TryNext(r, todo)
    /\ UNCHANGED <<db, shared, nodes, admins, writes, faults>>

\* Models starts one goroutine for each channel; r is any one of them.
SelectListed(r) ==
    LET snap == nodes[reqs[r].node].snap IN
    /\ reqs[r].pc = "select" /\ reqs[r].query = Listing /\ Free(reqs[r].node)
    /\ \/ snap = <<>> /\ TryNext(r, <<>>)
       \/ \E i \in DOMAIN snap : TryNext(r, <<snap[i]>>)
    /\ UNCHANGED <<db, shared, nodes, admins, writes, faults>>

\* providerFor, under the read lock.
Resolve(r) ==
    LET n == reqs[r].node  key == nodes[n].pool[Head(reqs[r].todo).id] IN
    /\ reqs[r].pc = "resolve" /\ Free(n)
    /\ reqs' = [reqs EXCEPT ![r] =
                  [@ EXCEPT !.pc = IF key = NoKey THEN "build" ELSE "call", !.key = key]]
    /\ UNCHANGED <<db, shared, nodes, admins, writes, faults>>

\* NewFromChannel ran outside the lock; the result goes into the pool,
\* whatever is there by now.
Insert(r) ==
    LET n == reqs[r].node  e == Head(reqs[r].todo) IN
    /\ reqs[r].pc = "build" /\ Free(n)
    /\ nodes' = [nodes EXCEPT ![n] = [@ EXCEPT !.pool[e.id] = e.row.key]]
    /\ reqs' = [reqs EXCEPT ![r] = [@ EXCEPT !.pc = "call", !.key = e.row.key]]
    /\ UNCHANGED <<db, shared, admins, writes, faults>>

\* The upstream answers, or the next channel is tried.
Call(r) ==
    /\ reqs[r].pc = "call"
    /\ TryNext(r, <<>>) \/ TryNext(r, Tail(reqs[r].todo))
    /\ UNCHANGED <<db, shared, nodes, admins, writes, faults>>

----------------------------------------------------------------------------
(* Create, Update and Delete of a channel, each followed by InvalidateChannels. *)

Written(a, n, c, row) ==
    /\ admins[a].pc = "idle" /\ writes < MaxWrites
    /\ db' = [db EXCEPT ![c] = row]
    /\ writes' = writes + 1
    /\ admins' = [admins EXCEPT ![a] = [pc |-> "written", node |-> n]]
    /\ reqs' = [r \in Requests |-> [reqs[r] EXCEPT !.clean = FALSE]]
    /\ UNCHANGED <<shared, nodes, faults>>

CreateChannel(a, n, c) ==
    db[c].status = "none" /\ \E row \in Rows[c] : Written(a, n, c, row)

UpdateChannel(a, n, c) ==
    db[c].status \in {"active", "disabled"} /\ \E row \in Rows[c] : Written(a, n, c, row)

DeleteChannel(a, n, c) ==
    /\ db[c].status \in {"active", "disabled"}
    /\ Written(a, n, c, [NoRow EXCEPT !.status = "deleted"])

\* Mutant: only the provider pool is dropped.
ClearPoolOnly(a) ==
    LET n == admins[a].node IN
    /\ admins[a].pc = "written" /\ Free(n)
    /\ nodes' = [nodes EXCEPT ![n].pool = NewNode.pool]
    /\ admins' = [admins EXCEPT ![a].pc = IF n \in RedisNodes THEN "del" ELSE "idle"]
    /\ UNCHANGED <<db, shared, reqs, writes, faults>>

ClearLocal(a) ==
    LET n == admins[a].node IN
    /\ admins[a].pc = "written" /\ Free(n)
    /\ nodes' = [nodes EXCEPT ![n] = [@ EXCEPT !.fresh = FALSE, !.pool = NewNode.pool]]
    /\ admins' = [admins EXCEPT ![a].pc = IF n \in RedisNodes THEN "del" ELSE "idle"]
    /\ UNCHANGED <<db, shared, reqs, writes, faults>>

DelShared(a) ==
    /\ admins[a].pc = "del"
    /\ \/ shared' = {} /\ UNCHANGED faults
       \/ Fault /\ UNCHANGED shared
    /\ admins' = [admins EXCEPT ![a].pc = "idle"]
    /\ UNCHANGED <<db, nodes, reqs, writes>>

----------------------------------------------------------------------------
(* Time, and crashes.                                                      *)

\* Mutant: a loaded snapshot never ages.
NeverExpire(n) == FALSE /\ UNCHANGED vars

\* channelCacheTTL has passed.
ExpireLocal(n) ==
    /\ nodes[n].fresh
    /\ nodes' = [nodes EXCEPT ![n].fresh = FALSE]
    /\ UNCHANGED <<db, shared, reqs, admins, writes, faults>>

\* redisSnapshotTTL has passed.
ExpireShared ==
    /\ shared # {}
    /\ shared' = {}
    /\ UNCHANGED <<db, nodes, reqs, admins, writes, faults>>

\* The instance is killed and started again: its memory and its handlers go.
Crash(n) ==
    /\ Fault
    /\ nodes' = [nodes EXCEPT ![n] = NewNode]
    /\ reqs' = [r \in Requests |-> IF reqs[r].pc # "idle" /\ reqs[r].node = n
                                   THEN IdleReq ELSE reqs[r]]
    /\ admins' = [a \in Admins |-> IF admins[a].node = n
                                   THEN [admins[a] EXCEPT !.pc = "idle"] ELSE admins[a]]
    /\ UNCHANGED <<db, shared, writes>>

----------------------------------------------------------------------------

\* What a request does once it runs, without and with the lock it waits for.
Works(r) ==
    GetShared(r) \/ ReadTable(r) \/ ReadFails(r) \/ Publish(r) \/ Call(r)

Locks(r) ==
    Acquire(r) \/ Select(r) \/ SelectListed(r) \/ Resolve(r) \/ Insert(r)

Mutate(a) ==
    \E n \in Nodes, c \in Channels :
        CreateChannel(a, n, c) \/ UpdateChannel(a, n, c) \/ DeleteChannel(a, n, c)

Next ==
    \/ \E r \in Requests :
         \/ \E n \in Nodes, q \in Queries \cup {Listing} : Begin(r, n, q)
         \/ Works(r)
         \/ Locks(r)
    \/ \E a \in Admins : Mutate(a) \/ ClearLocal(a) \/ DelShared(a)
    \/ \E n \in Nodes : ExpireLocal(n) \/ Crash(n)
    \/ ExpireShared

Spec == Init /\ [][Next]_vars

\* Handlers keep running (calls out have timeouts), a sync.RWMutex lets each
\* waiter in eventually, and time passes.
Fairness ==
    /\ \A r \in Requests : WF_vars(Works(r)) /\ SF_vars(Locks(r))
    /\ \A a \in Admins : SF_vars(ClearLocal(a)) /\ WF_vars(DelShared(a))
    /\ \A n \in Nodes : WF_vars(ExpireLocal(n))
    /\ WF_vars(ExpireShared)

FairSpec == Spec /\ Fairness

----------------------------------------------------------------------------
(* Properties.                                                             *)

Trying == {"resolve", "build", "call"}

Reloading == {"get", "read", "publish"}

\* An instance's write lock is held by the one request that reloads its
\* snapshot, for as long as it does: no two reload it at once, and no error
\* path or crash leaves it locked (g.mu in reload).
ReloadHoldsLock ==
    \A n \in Nodes, r \in Requests :
        nodes[n].lock = r <=> reqs[r].node = n /\ reqs[r].pc \in Reloading

Alone == Cardinality(Nodes) = 1 /\ RedisNodes = {}

\* On a single instance without Redis, a request that no mutation overlaps
\* selects from exactly the current table, and fails over along it
\* (InvalidateChannels and reload under one lock).
RoutesCurrentTable ==
    Alone => \A r \in Requests : reqs[r].clean =>
        /\ reqs[r].pc = "select" => nodes[reqs[r].node].snap \in Orderings(db)
        /\ reqs[r].pc \in Trying =>
             \A i \in DOMAIN reqs[r].todo :
                LET e == reqs[r].todo[i] IN
                e.row = db[e.id] /\ (reqs[r].query # Listing => Serves(e, reqs[r].query))

\* Failover goes from higher to lower priority, also along a snapshot that
\* came through Redis (the sort in reload).
FailoverByPriority ==
    \A r \in Requests :
        LET todo == reqs[r].todo IN
        \A i, j \in DOMAIN todo : i < j => todo[i].row.priority >= todo[j].row.priority

\* A request or mutation that started ends, whatever reloads, failed calls
\* and crashes happen around it (no lost unlock, no lock cycle in gateway.go).
HandlersFinish ==
    /\ \A r \in Requests : []<>(reqs[r].pc = "idle")
    /\ \A a \in Admins : []<>(admins[a].pc = "idle")

Traffic(n) == []<><<\E r \in Requests, q \in Queries \cup {Listing} : Begin(r, n, q)>>_vars

\* Once mutations stop, every instance that still gets requests ends up with
\* the current table, whatever a lost invalidation or a late publication left
\* in Redis (channelCacheTTL and redisSnapshotTTL).
SnapshotsConverge ==
    \A n \in Nodes : Traffic(n) => <>[](nodes[n].snap \in Orderings(db))

\* "so the next request re-reads the database with fresh credentials"
\* (InvalidateChannels), of requests that no mutation overlaps.
CredentialsFresh ==
    \A r \in Requests :
        Alone /\ reqs[r].clean /\ reqs[r].pc = "call" => reqs[r].key = db[Head(reqs[r].todo).id].key

\* "Correctness after channel mutations is guaranteed by InvalidateChannels
\* deleting the shared key, never by TTL" (the comment over the TTLs), read on
\* a single instance, where no memory but its own is left to go stale.
CurrentOnceDeleted ==
    \A r \in Requests :
        Cardinality(Nodes) = 1 /\ reqs[r].clean /\ reqs[r].pc = "select" =>
            nodes[reqs[r].node].snap \in Orderings(db)
=============================================================================
