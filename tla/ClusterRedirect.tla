--------------------------- MODULE ClusterRedirect ---------------------------
(***************************************************************************)
(* The Redis Cluster backend of src/backend/clusters: the slot table       *)
(* (`c.slots`, refreshed from CLUSTER SLOTS by `refresh`) and the request *)
(* path `ForwardMsg` -> `forwardMsg` -> `forwardMsgToDb`, which follows    *)
(* MOVED and ASK redirects up to `redirectTime` (3) times and sends ASKING *)
(* before an asked request, remembering on the pooled `Conn` that it did  *)
(* (`Conn.SendAsking`, src/backend/nodes/conn.go).                         *)
(*                                                                         *)
(* The redis cluster itself is the environment: every slot has an owner;  *)
(* a slot may be migrating to an importing node, key by key.  A node      *)
(* answers a command for key k:                                            *)
(*   - the owner serves it unless k has already been migrated, then it    *)
(*     replies ASK <importer>;                                             *)
(*   - the importer serves it if the connection is in ASKING state, else  *)
(*     it replies MOVED <owner>;                                           *)
(*   - any other node replies MOVED <owner>.                               *)
(* The ASKING state of a connection on the server is cleared by the next  *)
(* command it executes.  A node (src/backend/nodes/node.go) is a master  *)
(* pool and, in master/slave mode, replica pools: `node.GetDb(msg)` picks *)
(* the master for writes and a replica, round robin, for reads.  A        *)
(* replica serves a read only on a connection in READONLY state and only  *)
(* for a slot its master owns; otherwise it replies MOVED to the owner.   *)
(* A pooled connection is used by one request at a time, so a hop         *)
(* (GetConnect, READONLY, ASKING, the command, PutConn) is one step.      *)
(***************************************************************************)
EXTENDS Integers, FiniteSets, Sequences

CONSTANTS
    Nodes,          \* master endpoints (addrToNode)
    UnknownAddr,    \* an address not among the configured masters
    None,           \* no node: an absent map entry
    Conns,          \* pooled connections
    Dbs,            \* connection pools (nodes.Db)
    DbNode,         \* DbNode[d]: the node pool d belongs to
    Master,         \* Master[n]: node.master
    Slaves,         \* Slaves[n]: the replica pools NewDb created for n
    Mode,           \* Mode[n]: conf.Mode, "single" or "ms"
    ConnDb,         \* ConnDb[x]: the pool connection x belongs to
    Slots,          \* 0..slotNum-1
    Keys,
    SlotOf,         \* hashSlot(key, mask)
    Clients,
    RedirectTime,   \* defaultRedirectTime (cluster.go:22)
    Replies,        \* CLUSTER SLOTS replies the refresh may receive
    MaxRequests,    \* requests per client
    MaxMigrations,  \* slot migrations the cluster performs
    MaxRefresh      \* refresh ticks

ASSUME /\ ConnDb \in [Conns -> Dbs] /\ DbNode \in [Dbs -> Nodes]
       /\ Master \in [Nodes -> Dbs] /\ Slaves \in [Nodes -> Seq(Dbs)]
       /\ Mode \in [Nodes -> {"single", "ms"}] /\ SlotOf \in [Keys -> Slots]
ASSUME RedirectTime \in Nat

VARIABLES
    owner, importing, migrated,     \* the redis cluster
    askingFlag,                     \* Conn.flag & askingFlag, per connection
    readonlyFlag,                   \* Conn.flag & readonlyFlag, per connection
    lastSalveIndex,                 \* Node.lastSalveIndex (int32), per node
    table,                          \* c.slots: slot -> node (None = absent)
    installed,                      \* the CLUSTER SLOTS reply c.slots came from
    cpc, key, write, target, isAsking, redirect, sends, lastReply, prevReply, result,
    done, migrations, refreshes

cluster == <<owner, importing, migrated>>
conn == <<askingFlag, readonlyFlag, lastSalveIndex>>
client == <<cpc, key, write, target, isAsking, redirect, sends, lastReply, prevReply,
            result, done>>
vars == <<cluster, conn, table, installed, client, migrations, refreshes>>

Replies_ == {"none", "served", "ASK", "MOVED"}
MaxInt32 == 2147483647
MinInt32 == -MaxInt32 - 1

Results == {"none", "ok", "errExceed", "errConn", "errSlot"}

TypeOK ==
    /\ owner \in [Slots -> Nodes]
    /\ importing \in [Slots -> Nodes \cup {None}]
    /\ migrated \subseteq Keys
    /\ askingFlag \in [Conns -> BOOLEAN]
    /\ readonlyFlag \in [Conns -> BOOLEAN]
    /\ lastSalveIndex \in [Nodes -> MinInt32..MaxInt32]
    /\ table \in [Slots -> Nodes \cup {None}]
    /\ cpc \in [Clients -> {"idle", "fwd"}]
    /\ key \in [Clients -> Keys]
    /\ write \in [Clients -> BOOLEAN]
    /\ target \in [Clients -> Nodes]
    /\ isAsking \in [Clients -> BOOLEAN]
    /\ redirect \in [Clients -> 0..(RedirectTime + 1)]
    /\ sends \in [Clients -> Nat]
    /\ lastReply \in [Clients -> Replies_]
    /\ prevReply \in [Clients -> Replies_]
    /\ result \in [Clients -> Results]
    /\ done \in [Clients -> 0..MaxRequests]

-----------------------------------------------------------------------------
(* slotInfo.addSlot / addSlots: every slot of [low, high] (cast to        *)
(* uint16) is mapped to the node, later entries overwriting earlier ones. *)
addSlots(m, e) ==
    LET new == {s % 65536 : s \in e[1]..e[2]}
    IN  [s \in DOMAIN m \cup new |-> IF s \in new THEN e[3] ELSE m[s]]

RECURSIVE BuildSlots(_, _)
BuildSlots(m, reply) ==
    IF reply = <<>> THEN m ELSE BuildSlots(addSlots(m, Head(reply)), Tail(reply))

isValidCountOnly(m) == Cardinality(DOMAIN m) = Cardinality(Slots)

(* slotInfo.isValid: as many entries as slots and every slot present. *)
isValid(m) ==
    /\ Cardinality(DOMAIN m) = Cardinality(Slots)
    /\ \A s \in Slots : s \in DOMAIN m

(* refresh: CLUSTER SLOTS through a random node's pool; on any malformed  *)
(* entry, unknown master address or invalid table the old table is kept; *)
(* otherwise the new table replaces c.slots as a whole.  The reply is    *)
(* either the cluster's current assignment or one of Replies.            *)
Current == [i \in 1..Cardinality(Slots) |-> <<i - 1, i - 1, owner[i - 1]>>]

Refresh ==
    /\ refreshes < MaxRefresh
    /\ refreshes' = refreshes + 1
    /\ \E reply \in Replies \cup {Current} :
         LET m == BuildSlots(<<>>, reply) IN
         IF /\ \A i \in 1..Len(reply) : reply[i][3] \in Nodes
            /\ isValid(m)
         THEN /\ table' = [s \in Slots |-> IF s \in DOMAIN m THEN m[s] ELSE None]
              /\ installed' = reply
         ELSE UNCHANGED <<table, installed>>
    /\ UNCHANGED <<cluster, conn, client, migrations>>

-----------------------------------------------------------------------------
(* Node: NewNode appends the replica pools only in master/slave mode.    *)
NodeSlaves(n) == IF Mode[n] = "ms" THEN Slaves[n] ELSE <<>>

SlaveLen(n) == Len(NodeSlaves(n))

(* atomic.AddInt32 on an int32: wraps from MaxInt32 to MinInt32. *)
Int32Inc(x) == IF x = MaxInt32 THEN MinInt32 ELSE x + 1

(* Go's %: truncated division, the result has the sign of a. *)
GoRem(a, b) == IF a >= 0 THEN a % b ELSE -((-a) % b)

(* normalBalance: the replica index after incrementing lastSalveIndex. *)
normalBalance(n) == GoRem(Int32Inc(lastSalveIndex[n]), SlaveLen(n))

(* fnGetDbByMsg: in master/slave mode a read goes to a replica unless    *)
(* the node has none; writes and single mode use the master.             *)
GetDbUsesSlave(n, w) == Mode[n] = "ms" /\ ~w /\ SlaveLen(n) > 0

(* node.GetDb(msg): the pool the command goes to. *)
GetDb(n, w) ==
    IF GetDbUsesSlave(n, w) THEN NodeSlaves(n)[normalBalance(n) + 1] ELSE Master[n]

(* lastSalveIndex after node.GetDb(msg). *)
BalanceStep(n, w) ==
    lastSalveIndex' = IF GetDbUsesSlave(n, w)
                      THEN [lastSalveIndex EXCEPT ![n] = Int32Inc(@)]
                      ELSE lastSalveIndex

SendReadOnlyNever(d, x) == FALSE

(* forwardMsgToDb / Conn.SendReadOnly: on a replica pool, READONLY goes   *)
(* out only if the connection's readonlyFlag is not yet set.              *)
SendReadOnly(d, x) == d # Master[DbNode[d]] /\ ~readonlyFlag[x]

(* The cluster's answer to a command for key k on pool d; asking: ASKING *)
(* was executed on the connection just before; ro: the connection is in *)
(* READONLY state; w: a write.  A replica of n serves a read in READONLY  *)
(* state of a slot n owns (even a key already migrated away, which it no  *)
(* longer has); anything else it redirects to the owner.                  *)
ServerReply(d, k, asking, ro, w) ==
    LET s == SlotOf[k]
        n == DbNode[d]
    IN
    IF d # Master[n]
    THEN IF ro /\ ~w /\ owner[s] = n
         THEN [kind |-> "served", node |-> n]
         ELSE [kind |-> "MOVED", node |-> owner[s]]
    ELSE IF n = owner[s]
    THEN IF importing[s] # None /\ k \in migrated
         THEN [kind |-> "ASK", node |-> importing[s]]
         ELSE [kind |-> "served", node |-> n]
    ELSE IF n = importing[s] /\ asking
    THEN [kind |-> "served", node |-> n]
    ELSE [kind |-> "MOVED", node |-> owner[s]]

Init ==
    /\ owner \in [Slots -> Nodes]
    /\ importing = [s \in Slots |-> None]
    /\ migrated = {}
    /\ askingFlag = [x \in Conns |-> FALSE]
    /\ readonlyFlag = [x \in Conns |-> FALSE]
    /\ lastSalveIndex = [n \in Nodes |-> 0]
    /\ table = owner
    /\ installed = Current
    /\ cpc = [c \in Clients |-> "idle"]
    /\ key = [c \in Clients |-> CHOOSE k \in Keys : TRUE]
    /\ write = [c \in Clients |-> FALSE]
    /\ target = [c \in Clients |-> CHOOSE n \in Nodes : TRUE]
    /\ isAsking = [c \in Clients |-> FALSE]
    /\ redirect = [c \in Clients |-> 0]
    /\ sends = [c \in Clients |-> 0]
    /\ lastReply = [c \in Clients |-> "none"]
    /\ prevReply = [c \in Clients |-> "none"]
    /\ result = [c \in Clients |-> "none"]
    /\ done = [c \in Clients |-> 0]
    /\ migrations = 0
    /\ refreshes = 0

(* A request returns to the client session. *)
Return(c, r) ==
    /\ result' = [result EXCEPT ![c] = r]
    /\ cpc' = [cpc EXCEPT ![c] = "idle"]
    /\ done' = [done EXCEPT ![c] = @ + 1]

(* Cluster.ForwardMsg: look the key's slot up in c.slots (read without   *)
(* the cluster lock) and start forwardMsg(node, msg, false, 0).           *)
ForwardMsg(c) ==
    /\ cpc[c] = "idle"
    /\ done[c] < MaxRequests
    /\ \E k \in Keys, w \in BOOLEAN :
         /\ key' = [key EXCEPT ![c] = k]
         /\ write' = [write EXCEPT ![c] = w]
         /\ IF table[SlotOf[k]] = None
            THEN /\ Return(c, "errSlot")
                 /\ UNCHANGED <<target>>
            ELSE /\ target' = [target EXCEPT ![c] = table[SlotOf[k]]]
                 /\ cpc' = [cpc EXCEPT ![c] = "fwd"]
                 /\ UNCHANGED <<result, done>>
    /\ isAsking' = [isAsking EXCEPT ![c] = FALSE]
    /\ redirect' = [redirect EXCEPT ![c] = 0]
    /\ sends' = [sends EXCEPT ![c] = 0]
    /\ lastReply' = [lastReply EXCEPT ![c] = "none"]
    /\ prevReply' = [prevReply EXCEPT ![c] = "none"]
    /\ UNCHANGED <<cluster, conn, table, installed, migrations, refreshes>>

(* Conn.SendAsking: ASKING goes out only if the connection's askingFlag  *)
(* is not set; the flag is then set and never cleared.                    *)
SendAsking(c, x) == isAsking[c] /\ ~askingFlag[x]

ExceededNever(c) == FALSE
ExceededOffByOne(c) == redirect[c] >= RedirectTime

(* `if redirectTime > c.redirectTime` *)
Exceeded(c) == redirect[c] > RedirectTime

(* forwardMsg(node, msg, isAsking, redirectTime): give up once the       *)
(* redirect count exceeds c.redirectTime; else forwardMsgToDb on a pooled *)
(* connection of the node: Conn.SendAsking sends ASKING only if the       *)
(* connection's askingFlag is not yet set, and sets it; then the command. *)
(* On a replica pool (node.GetDb picks it round robin for a read)        *)
(* READONLY goes first, the same way as ASKING.                           *)
(* A reply served ends the request; ASK and MOVED recurse on the named    *)
(* node with isAsking TRUE resp. FALSE and redirectTime + 1.              *)
forwardMsg(c) ==
    /\ cpc[c] = "fwd"
    /\ IF Exceeded(c)
       THEN /\ Return(c, "errExceed")
            /\ UNCHANGED <<conn, target, isAsking, redirect, sends, lastReply,
                           prevReply>>
       ELSE LET d == GetDb(target[c], write[c]) IN
            \E x \in {y \in Conns : ConnDb[y] = d} :
              LET sendAsking == SendAsking(c, x)
                  ro == readonlyFlag[x] \/ SendReadOnly(d, x)
                  r == ServerReply(d, key[c], sendAsking, ro, write[c])
              IN  /\ BalanceStep(target[c], write[c])
                  /\ askingFlag' = [askingFlag EXCEPT ![x] = @ \/ sendAsking]
                  /\ readonlyFlag' = [readonlyFlag EXCEPT ![x] = ro]
                  /\ sends' = [sends EXCEPT ![c] = @ + 1]
                  /\ prevReply' = [prevReply EXCEPT ![c] = lastReply[c]]
                  /\ lastReply' = [lastReply EXCEPT ![c] = r.kind]
                  /\ IF r.kind = "served"
                     THEN /\ Return(c, "ok")
                          /\ UNCHANGED <<target, isAsking, redirect>>
                     ELSE /\ target' = [target EXCEPT ![c] = r.node]
                          /\ isAsking' = [isAsking EXCEPT ![c] = r.kind = "ASK"]
                          /\ redirect' = [redirect EXCEPT ![c] = @ + 1]
                          /\ UNCHANGED <<cpc, result, done>>
    /\ UNCHANGED <<cluster, table, installed, key, write, migrations, refreshes>>

(* forwardMsgToDb fails after node.GetDb: GetConnect finds no           *)
(* connection, or a read or write of READONLY, ASKING or the command      *)
(* fails, in that order, and the error is returned.  The deferred PutConn *)
(* returns the connection to the pool with the flags of the steps that    *)
(* succeeded before the failing one.                                      *)
forwardMsgToDbFails(c) ==
    /\ cpc[c] = "fwd"
    /\ ~Exceeded(c)
    /\ Return(c, "errConn")
    /\ BalanceStep(target[c], write[c])
    /\ LET d == GetDb(target[c], write[c]) IN
       \/ UNCHANGED <<askingFlag, readonlyFlag>>
       \/ \E x \in {y \in Conns : ConnDb[y] = d}, failed \in {"asking", "command"} :
            /\ readonlyFlag' = [readonlyFlag EXCEPT ![x] = @ \/ SendReadOnly(d, x)]
            /\ askingFlag' = IF failed = "command"
                             THEN [askingFlag EXCEPT ![x] = @ \/ SendAsking(c, x)]
                             ELSE askingFlag
    /\ UNCHANGED <<cluster, table, installed, key, write, target, isAsking,
                   redirect, sends, lastReply, prevReply, migrations, refreshes>>

-----------------------------------------------------------------------------
(* The redis cluster: a slot starts migrating to another node, keys move  *)
(* one at a time, and once all have moved the importer becomes the owner. *)
KeysOfSlot(s) == {k \in Keys : SlotOf[k] = s}

StartMigration ==
    /\ migrations < MaxMigrations
    /\ \E s \in Slots, n \in Nodes :
         /\ importing[s] = None
         /\ n # owner[s]
         /\ importing' = [importing EXCEPT ![s] = n]
    /\ migrations' = migrations + 1
    /\ UNCHANGED <<owner, migrated, conn, table, installed, client, refreshes>>

MigrateKey ==
    /\ \E k \in Keys \ migrated :
         /\ importing[SlotOf[k]] # None
         /\ migrated' = migrated \cup {k}
    /\ UNCHANGED <<owner, importing, conn, table, installed, client,
                   migrations, refreshes>>

FinishMigration ==
    /\ \E s \in Slots :
         /\ importing[s] # None
         /\ KeysOfSlot(s) \subseteq migrated
         /\ owner' = [owner EXCEPT ![s] = importing[s]]
         /\ importing' = [importing EXCEPT ![s] = None]
         /\ migrated' = migrated \ KeysOfSlot(s)
    /\ UNCHANGED <<conn, table, installed, client, migrations, refreshes>>

(* Every client has made its requests. *)
Finished ==
    /\ \A c \in Clients : cpc[c] = "idle" /\ done[c] = MaxRequests
    /\ UNCHANGED vars

Next ==
    \/ \E c \in Clients : ForwardMsg(c) \/ forwardMsg(c) \/ forwardMsgToDbFails(c)
    \/ Refresh
    \/ StartMigration \/ MigrateKey \/ FinishMigration
    \/ Finished

Spec == Init /\ [][Next]_vars

(* Each client's request runs on its own goroutine, which is never blocked *)
(* for good: every hop either gets a reply or fails on the connection's    *)
(* connect, read or write timeout.                                         *)
ClientFairness == \A c \in Clients : WF_vars(forwardMsg(c) \/ forwardMsgToDbFails(c))

FairSpec == Spec /\ ClientFairness

-----------------------------------------------------------------------------
(* The clients' requests, seen through their send counts, results and     *)
(* progress, behave as RedirectedRequest specifies.                       *)
Req == INSTANCE RedirectedRequest WITH
    MaxHops <- RedirectTime + 1,
    phase <- cpc,
    hops <- sends,
    outcome <- result,
    count <- done

(* Redirect bound (spec 4.4b, 8): forwardMsg, forwardMsgToDb and their    *)
(* recursion implement the promise of RedirectedRequest for every client: *)
(* a request is sent at most RedirectTime + 1 times, fails with the       *)
(* redirect error exactly on the (RedirectTime + 1)-th redirect and is    *)
(* not sent after it, and a request in flight eventually returns.         *)
RequestsRedirectBounded == Req!Spec

(* Slot table completeness: c.slots, as read by ForwardMsg without a     *)
(* lock, always maps every slot to a configured node, whatever replies   *)
(* the refresh goroutine receives.                                        *)
TableComplete == \A s \in Slots : table[s] \in Nodes

(* Redirect exhaustion needs topology change: while no slot migration has *)
(* begun, a stale table costs at most one MOVED and a read sent to a      *)
(* replica in READONLY state of its own slot is served, so no request    *)
(* fails with the redirect error.                                         *)
ExceedOnlyUnderMigration ==
    \A c \in Clients : result[c] = "errExceed" => migrations > 0

(* ASK is honoured: after an ASK redirect the request is sent to the      *)
(* importing node in ASKING state, which serves it, so the hop after an   *)
(* ASK is never answered with MOVED.                                      *)
AskHonoured ==
    \A c \in Clients : ~(prevReply[c] = "ASK" /\ lastReply[c] = "MOVED")

=============================================================================
