# TLA+ models of ncache

ncache is a Redis proxy written in Go: clients speak RESP to it, it shards
keys over a fleet of redis instances (a fixed hash ring, or a Redis Cluster
slot table with MOVED/ASK redirects), pools connections per backend endpoint
and splits multi-key commands over the shards.  This directory holds TLA+
models of the parts of `src/` whose behaviour depends on concurrency,
failures and ordering, the TLC configurations that check them, and
`PROJECT.json`, which lists every component, run, mutant, finding and hazard
and maps each TLA+ definition to the source lines it translates.

## 1. Inventory

| Component | Source | State it keeps | Operations | Interacts with |
|---|---|---|---|---|
| Wire codec | `protocol/redis.go`, `protocol/msg.go` | none (a `Msg` is a tagged value) | `readMsgFromReader` (recursive decode), `writeMsg` (encode), constructors, `Ping` | every network read/write |
| Connection | `backend/nodes/conn.go` | socket, `status` (connected/closed/sick), `activeTime`, `flag` (READONLY / ASKING sent) | `Connect`, `Read`, `Write`, `HandleMsg`, `Ping`, `Close`, `SendReadOnly`, `SendAsking` | owned by a Db, lent to callers |
| Connection pool `Db` | `backend/nodes/db.go` | `initConnChan`, `extraConnChan` (buffered channels = free lists), `curWorkConnNum`, `status`, `checkConn`, `busy` | `initDb`, `GetConnect`/`popConn`, `createWorkConn`, `putConn`, `closeWorkConn`, `ProcCmdMsg`, timer tasks `healthCheck` (5 s) and `idleConnCheck` (60 s), `CloseDb` | Node; goroutines of every client session; its own timer goroutines |
| Node | `backend/nodes/node.go`, `balance.go` | master Db, slave Dbs, `lastSalveIndex` (int32) | `getDbByMsgFn` (write → master, else round-robin slave), `RelayMsg` | Db, `filter` classification |
| Cluster backend | `backend/clusters/*.go` | `slots` (pointer to an immutable slot→Node map), `addrToNode` | `refresh` (CLUSTER SLOTS, every 60 s), `ForwardMsg`/`forwardMsg` (MOVED/ASK, ≤ 3 redirects), `hashSlot` (CRC16 with hash tag) | Node/Db/Conn; scatter-gather |
| Hash ring | `backend/hashkit/*.go` | a sorted `[]Continuum` | `KetamaUpdate`, `KetamaDispatch` (lower bound, wrap), `RandomDispatch` | slice backend (type `Slice` is not in `src/`) |
| Scatter-gather | `backend/command/process.go` | per request: groups by shard index, `respMap`, worker results channel | `KeyProc`, `MsetProc`, `MgetProc`, `procDelOrExists`; serial below 6 groups, else 6 goroutines | Backend `ForwardMsg` |
| Backend registry | `backend/route/route.go`, `backend/backend.go` | `BackendMap` | `InitBackendMap`, `GetBackend`, `GetIndex` | client session |
| Client session / server | `server/*.go` | per client: stage, cached backends; server: client map | receive → parse → route → backend → respond; idle/closed reaping | registry, scatter-gather |
| Start-up configuration | `config/config.go`, `config/type.go`, `config/help.go`, `utils/string.go` | `Cfg`: db conf path, server and log settings | `init` defaults, `InitConfig` (-config scan, file merge, `fs.Parse`, `mergeWithFlags`) | read by every component at construction |
| Command filter, utils, tool | `filter/`, `utils/`, `tool/` | static tables | lookups, retry helpers, a coarse 1 s clock | everything |

**How they interact.**  One goroutine per client connection runs a strictly
sequential cycle; inside it `Cluster.Proc` sends multi-key commands to the
scatter-gather engine (which may fan out to 6 goroutines) and single-key
commands to `ForwardMsg`.  Every forward borrows a `Conn` from a `Db`
(`GetConnect`), writes, reads one reply and returns it (`putConn`).  Each
`Db` has two timer goroutines; each `Cluster` has a refresh goroutine that
swaps the slot table pointer.

**What is hard.**
* Many goroutines share each pool's channels and counter with the reaper and
  the asynchronous tail of `initDb`; the counter is updated atomically, the
  channels by channel operations, the status without any lock.
* Connections fail: read deadlines expire (the `Conn` is marked *sick* but not
  closed), the backend restarts (EOF), pings fail.  What happens to the
  connection afterwards decides whether later callers get correct replies.
* Redirect chains (MOVED/ASK) with a per-connection ASKING flag.
* Scatter-gather workers share the named return `err` without a lock.
* Numeric edges: an `int32` round-robin counter, a 16384-slot table built
  from untrusted ranges cast to `uint16`, retry counts, `maxConnNum`.

**What makes each correct.**
* Pool: a connection is lent to one caller at a time; `curWorkConnNum`
  counts exactly the connections the pool owns and stays ≤ `maxConnNum`;
  every request returns; a caller reads the reply to *its* request; a closed
  connection is not lent again; after a backend restart the pool heals.
* Node: the round-robin index is always a valid slave index.
* Cluster: a request is answered by the node owning the slot after at most 3
  redirects; an ASK redirect is preceded by ASKING on the target connection;
  a refresh installs only a complete table and readers see a whole table.
* Scatter-gather: the reply keeps key order; an error in any sub-request
  fails the whole request; serial and concurrent paths agree.
* Codec: `decode(encode(m)) = m`, null bulk/array distinct from empty.
* Hash ring: dispatch returns the first point ≥ the hash, wrapping.

## 2. Plan

Ordered by importance.  The project keeps at most twelve runs, so later
components are composed into the modules and runs that already exercise the
code that calls them, rather than given runs of their own.

1. **ConnPool** (done): `Db` + `Conn` with concurrent callers of
   `ProcCmdMsg`, the reaper, the asynchronous `initDb` tail, read timeouts,
   backend crash/restart, ageing.  The healing liveness property
   (`initConnNum = maxConnNum`, backend restarted and stable ⇒ eventually a
   working connection) is checked as `pool_no_heal`, and it fails.
2. **ScatterGather** (done): `MsetProc`/`MgetProc`/`procDelOrExists` over an
   abstract `ForwardMsg` whose outcome is nondeterministic; both branches;
   the shared `err` race.
3. **ClusterRedirect** (done, includes the slot table): `refresh`,
   `addSlots`, `isValid`, `forwardMsg`, `forwardMsgToDb` with the
   per-connection ASKING flag over a migrating slot, refined into the
   abstract `RedirectedRequest` (bounded sends, every request answered).
4. **Codec** (done): encode/decode, constructors, a pipelined stream;
   checked composed into ClientSession (item 7).
5. **NodeBalance** (done), composed into ClusterRedirect: `GetDb` picks the master
   for writes and `normalBalance` a slave otherwise, with `lastSalveIndex` as
   an `int32` (wrapping at 2^31); `SendReadOnly` and its sticky flag on
   slave connections.
6. **hashSlot / Ketama** (done), as operators checked against a reference
   definition inside an existing MC module: hash-tag extraction over a
   3-letter alphabet (CRC16 abstracted to a table) and `KetamaDispatch`
   (least point ≥ hash, else the first) over all sorted continua of size ≤ 3.
7. **ClientSession** (done): the stage machine of `clientHandler` (receive →
   parse → route → backend → respond), composed with two Codec streams,
   plus the server's client map (`addClient`, the timer's
   `clearClosedClients`/`clearIdleClients`).
8. **Refinement** (done): ClientSession into SequentialSession (item 7)
   and ClusterRedirect into RedirectedRequest (item 3).
9. **Config** (done): `InitConfig` on every command line of up to three
   arguments, checked against the precedence its tests state.

## 3. Modules and runs

### ConnPool (`ConnPool.tla`, `MC_ConnPool.tla`)

State ↔ code:

| Variable | Code |
|---|---|
| `initConnChan`, `extraConnChan` | the two buffered channels, FIFO, capacity `maxConnNum` |
| `curWorkConnNum` | `Db.curWorkConnNum` |
| `connStatus[c]` | `Conn.status` (`"none"` = never dialled) |
| `sock[c]` | the peer side: `"broken"` after a backend crash (reads see EOF) |
| `age[c]` | `UnixTime() - activeTime` against `pingInterval` (10 s) and `maxIdleTime` (300 s): Fresh / Stale / Idle |
| `pending[c]` | requests written on the socket whose reply has not been read |
| `pc`, `phase`, `tries`, `held`, `sent`, `got` | one goroutine in `ProcCmdMsg` per client: program point, first/second `popConn`, tries left, the borrowed `Conn`, request number, reply read |
| `rpc`, `rheld`, `rleft` | the `idleConnCheck` timer task |
| `initLeft` | `go utils.Execute(initConnFn, initConnNum - num)` in `initDb` |

Actions: `GetConnect`, `popConn` (one try of `popConnFn`), `popConnFailed`
(the `RetryExecute` giving up), `PingOk`/`PingFail`, `CreateThenPop`
(`createWorkConn(true)` then the second `popConn`), `WriteMsg`, `ReadReply`,
`PutConn`; reaper `IdleConnCheck`, `ReapPop`, `ReapRelease`, `ReapCreate`;
`InitCreate`; environment `Tick`, `BackendCrash`, `BackendRestart`.

Abstractions: `Db.status` is not a variable — `healthCheck` returns at
`db.go:114` without pinging once `checkConn` is set, so `CloseDb` (the only
writer of `DbStatusDown`) is never called, and `DbStatusReload` is never
assigned.  `busy` only chooses the order of the two channel arguments of a
`select`, which picks a ready case at random anyway.  Time only ages idle
connections (a loan lasts at most the 3 s deadlines, under `pingInterval`).
A write to a healthy socket does not fail; a dial fails exactly when the
backend is down.

Runs:

| Run | Config | Shows |
|---|---|---|
| `pool_reap` | `ConnPool_reap.cfg` | initConnNum 1 < maxConnNum 2: the reaper closes idle extras; `ExclusiveLoan`, `CountMatchesPool` hold |
| `pool_live` | `ConnPool_live.cfg` | initConnNum = maxConnNum = 2, initDb's async tail and reaper creation; `TypeOK`, `CountMatchesPool` hold and every started `ProcCmdMsg` returns (`RequestsComplete`) |
| `pool_stale_reply` | `ConnPool_stale.cfg` | violation of `ReplyMatchesRequest`: after a read timeout the sick connection, still holding the late reply, is put back; the next caller reads the previous caller's reply |
| `pool_no_heal` | `ConnPool_heal.cfg` | violation of `PoolHeals`: initConnNum = maxConnNum = 2; after a crash and restart the pool never again owns a connection with a working socket, under `HealSpec` (`Spec` plus weak fairness of the timer tasks, initDb's tail and `Tick`) |

Bounds: 2 callers, 1 request each (a second caller suffices to read a
foreign reply; 2 requests each took 9 minutes for no new behaviour class),
2 connections, `popConn` tries 2 and 1 instead of 10 and 3 (the number of
tries only repeats the same try), 1 backend crash, ages Fresh/Stale/Idle.
Symmetry over callers and connections only in `pool_reap`; `pool_live` and
`pool_no_heal` check temporal properties, and `pool_stale_reply` runs
without it.

Fairness: each client goroutine, once inside `ProcCmdMsg`, is weakly fair
(the Go scheduler runs runnable goroutines; every blocking point in
`ProcCmdMsg` is bounded by a deadline or a try count).  Starting a request,
the timer tasks and the environment are not fair.  `pool_no_heal` checks
`HealSpec`, which adds weak fairness of `idleConnCheck` (a `TimerTask`
every 60 s), initDb's goroutine and `Tick` (time passes).  It does not need
fairness for starting requests: the counterexample would be the same with
any amount of traffic, because nothing ever removes a closed connection
from a pool at `maxConnNum`.

### ScatterGather (`ScatterGather.tla`, `MC_ScatterGather.tla`)

One multi-key request of `src/backend/command/process.go`.  Keys are
argument positions 1..`NumKeys`; the value stored under key k is k, so an
MGET reply can be checked against the request.

| Variable | Code |
|---|---|
| `cmd`, `shardOf` | `arr[0]` and `be.GetNodeIndexByKey` of each key (any assignment of keys to shards) |
| `pc`, `todo` | the request goroutine: grouping, the serial `range groupedMsg` loop (map order: any), waiting on workers |
| `err`, `msgAck` | the named returns, written by workers without a lock |
| `respMap`, `ackNum`, `inner` | MGET's `respMap`, DEL's serial sum and each worker's `innerNum` |
| `wpc`, `wleft`, `wcur`, `wack`, `ch` | worker goroutines: program point, its `parts[i]`, current group, its local `ack`, the buffered `goRet` channel |
| `outcome` | history: what each group's `ForwardMsg` returned (ok, error reply, transport error) |

Actions: `Split` (grouping and the branch on `len(groupedMsg) < CriticaNum`;
round-robin dealing in map order, with MgetProc's reuse of `i`),
`SerialForward`, `SerialEnd`, and per worker `Call` (the assignment to the
shared `err`), `Check` (the later read of `err`, then use of `ack`),
`SendErr`, `SendOk` (each enabled only while the channel, made with
`GoroutineNums` slots, has room: nothing receives before `wg.Wait`
returns), and `Gather` (`wg.Wait`, `range ch` in send order: the first
entry with an error returns it; for DEL an entry `goRet{nil, nil}`,
sent by a failed worker that read `err` as nil, makes `c.s.GetInt()`
panic, which ends in `pc = "panicked"`: `clientHandler` recovers and
closes the client).  The data race on
`err` is modelled by separating the write from each later read.

| Run | Config | Shows |
|---|---|---|
| `sg_request` | `ScatterGather.cfg` | MGET replies in key order (`MgetKeyOrder`); a DEL that returns an integer had no failed group and returns the full sum, in the worker branch because a failed worker's send either carries an error or panics the gather loop (`DelSum`); every request returns, so no worker's send finds the channel full (`RequestReturns`) |
| `sg_lost_error` | `ScatterGather_lost.cfg` | violation of `ErrorSurfaced`: a worker's transport error is overwritten with nil by another worker and MSET returns OK |
| `sg_worker_panic` | `ScatterGather_panic.cfg` | violation of `NoWorkerPanic`: a worker reads nil `err` after its own failed call and dereferences the nil ack (`ack.IsArray()`), a panic no `recover` catches |

Bounds: 3 keys, 3 shards, `GoroutineNums` 2 and `CriticaNum` 3 instead of
6 and 6.  With 3 groups the worker branch is taken, and 2 workers give a
worker with two groups and one with one: a shared variable written by one
worker and read by another needs no more.  Fairness: weak fairness on the
request goroutine and on each worker, which the Go scheduler gives to
runnable goroutines; a worker blocked on a full channel is not enabled,
so fairness does not carry it: `RequestReturns` holds only because each
worker sends once.

### ClusterRedirect (`ClusterRedirect.tla`, `RedirectedRequest.tla`, `MC_ClusterRedirect.tla`)

The cluster backend: the slot table and the request path with redirects.
The redis cluster is the environment: slot owners, a slot migrating key by
key to an importing node, server ASKING state cleared after one command.

| Variable | Code |
|---|---|
| `table`, `installed` | `c.slots` (slot → node) and the CLUSTER SLOTS reply it was built from |
| `askingFlag`, `readonlyFlag` | `Conn.flag & askingFlag` / `& readonlyFlag` of each pooled connection |
| `lastSalveIndex` | `Node.lastSalveIndex`, an `int32` that wraps at 2^31 |
| `cpc`, `key`, `write`, `target`, `isAsking`, `redirect` | one request in `forwardMsg`: its key, whether `filter` classes it a write, its node, `isAsking`, `redirectTime` |
| `sends`, `lastReply`, `prevReply`, `result` | history: commands sent, the last two replies, the result returned by `Proc` |
| `owner`, `importing`, `migrated` | the cluster's view (environment) |

Actions: `Refresh` (`refresh`: build with `addSlots`, check `isValid`,
install or keep the old table), `ForwardMsg` (slot lookup), `forwardMsg`
(one hop: `GetDb` on the target node, `GetConnect`, `SendReadOnly` on a
replica connection, `SendAsking` if asked, the command, the reply;
MOVED/ASK retarget, `Exceeded` ends with an error), `forwardMsgToDbFails`
(GetConnect, READONLY, ASKING or the command fails; the deferred `PutConn`
returns the connection with the flags of the steps that succeeded),
`Return`; environment `StartMigration`, `MigrateKey`, `FinishMigration`.
Nodes are in master/slave mode: `GetDb` sends writes to the master and
reads to slave `normalBalance() + 1` (Go's truncated `%` of the wrapped
`int32` counter), advancing `lastSalveIndex` on every hop, the failing ones
included.  A replica serves a read of a slot its master owns only once
READONLY was sent on that connection; otherwise it answers MOVED.

| Run | Config | Shows |
|---|---|---|
| `cluster_safe` | `ClusterRedirect_safe.cfg` | the forwarding path implements `RedirectedRequest` (`RequestsRedirectBounded`): at most `RedirectTime + 1` sends per request, the redirect error exactly on the (`RedirectTime + 1`)-th redirect and no send after it, and every request in flight eventually answered; the installed table always covers every slot whatever reply the refresh gets (`TableComplete`); without a slot migration no request exhausts the redirects, reads to replicas included (`ExceedOnlyUnderMigration`); the hashing operators of `Hashing` agree with their reference definitions (`HashTagRule`, `DispatchAgrees`) |
| `cluster_sticky_asking` | `ClusterRedirect_ask.cfg` | violation of `AskHonoured`: ASKING is sent once per connection and never again, so a second ASK over the same connection is answered MOVED |

Bounds: 2 nodes, n1 with a master and 2 replicas (so the round robin
visits both and wraps) and n2 with a master and 1 replica, one connection
per pool (so the second request reuses the connection and its flags), 2
slots, 2 keys "a" and "a{a}" which share the hash tag "a" and so, through
`hashSlot`, slot 0, 2 clients with 1 request each (read or write),
`RedirectTime` 2 instead of the code's 3 (so a request fails on its 3rd
redirect, after 3 sends; the count check is the same comparison whatever
the constant, and 3 made the refinement check too slow), 1 migration,
1 refresh (the refresh can still race the migration either way), 6 CLUSTER SLOTS replies (complete, overlapping,
incomplete, out of range, unknown address, right count with a slot
missing).

**Refinement and fairness.**  `RedirectedRequest` is the promise of spec
4.4(b) and 8 for every client, with only the number of sends kept: `Start`
(the table maps the slot), `NoRoute` (it does not: `errSlot` after 0
sends), `Redirected` and `Served` (one more send), `ConnFailed`, and
`GiveUp` (only when all `MaxHops` sends are used), with weak fairness of
each client's `Forward` steps.  `Req` instantiates it with `MaxHops <-
RedirectTime + 1` and the client's `cpc`, `sends`, `result` and `done`;
redirect targets, replicas, READONLY/ASKING and the table are hidden.
`cluster_safe` checks `FairSpec`, which adds weak fairness of each client's
`forwardMsg \/ forwardMsgToDbFails`: the client goroutine is never parked
for good, since every send has a dial, write and read deadline
(conn.go:86-150) and either answers or errors.  Without that fairness the
liveness half fails (a client stops in the middle of a request).
The migration, refresh and other environment steps need no fairness.  Overlapping ranges pass `isValid`
(the later range wins); the spec asks for every slot assigned exactly once,
but a real server never sends overlapping ranges, so no run checks it.
The `int32` wrap of `lastSalveIndex` is in the model but 2^31 reads are out
of TLC's reach.  One observation has no property: once a key has moved to
the importing node, a read routed by a stale table to the old owner's
replica is answered from the replica (as a missing key) rather than
redirected, since a READONLY replica serves any slot its master owns.

### Hashing (`Hashing.tla`, checked from `MC_ClusterRedirect.tla`)

Pure operators.  `hashSlot` (`clusters/hash.go`) takes the bytes between
the first `{` and the first `}` after it when that part is not empty, else
the whole key, then `Crc16(buf) & mask`; `utils.Crc16` is not in `src/`, so
it is a constant function (in the MC an injective code of the bytes).
`KetamaDispatch` (`hashkit/ketama.go`) is the binary search of the sorted
continuum for the first point whose value is not below the hash, wrapping
to the first point; the continuum comes from MD5, so every sorted continuum
is input.  `RefHashTag` and `RefDispatch` are reference definitions written
from the rules (a set of brace pairs, a linear walk of the ring), and the
invariants `HashTagRule` and `DispatchAgrees` of `cluster_safe` compare the
code with them over every key of up to 4 bytes from `{a, {, }}` with masks
1 and 1023, and every sorted continuum of up to 3 points over 2 shards and
values 0..3, with hashes 0..4 (4 is above every point, so it wraps).  These
bounds contain `{}`, `{{a}`, `a{}}`, a brace pair after another, ties
between points and a hash equal to a point.  The constant parts are
evaluated once; each invariant also ties the clients' keys to the checked
domain.

### Codec (`Codec.tla`, checked from `MC_ClientSession.tla`)

The RESP codec as operators: `writeMsg`, `writeBulkString`, `writeArray`,
`writeInt` and `Int64ToString` encode; `readMsgFromReader`, `readToCRLF`,
`readGeneric`, `readBulkStrings`, `readArray` and `BytesToInt64` decode into
"ok" (message, unread bytes), "more" (the bufio reader would block) or
"err".  A `Msg` keeps the Go struct's `value` and `array` with their nil-ness
(null bulk string and null array are distinct from empty ones).  The state
is one connection: `wire` (bytes flushed, not yet consumed), `sent`,
`recv`, `rerr`.  `WriteMsg(m)` writes a message and `ReadMsg` decodes one
message off the stream or fails.  The module has no run of its own:
ClientSession instantiates it twice (`In` for the client's requests, `Out`
for the proxy's replies), so every frame the session reads or writes goes
through the modelled codec, and `FramesPreserved` of the reply stream is
checked as `ReplyFramesPreserved`.

### ClientSession (`ClientSession.tla`, `SequentialSession.tla`, `MC_ClientSession.tla`)

One client connection (`client.go`) and its entry in the server's client
map (`server.go`).  `pc` is where `clientHandler`'s goroutine is; `stage`,
`curReq`, `args`, `response`, `backend`, `beCache` and `curIndex` are the
`Client` fields of the same names; `served` records, per request read, the
backend outcome and which backend was called; `listed` is the client's
entry in `Server.clients`.  The peer writes whole requests, reads replies
and may hang up at any time.

| Action | Code |
|---|---|
| `Accept` | `Server.Run`: `Accept`, `NewClient`, `addClient`, `go clientHandler` |
| `CmdReceive` | blocks for a whole message; EOF, a bad frame or a non-bulk-string array closes the client |
| `CmdParse` | null array → close; empty array → `args[0]` panics, recovered, close; unknown command → error reply echoing the name; `PING` → `PONG` |
| `NodeRoute` | fewer than 2 args → error reply; `GetIndex(args[1])`, reuse of `backend` for the same index, else `beCache`, else `GetBackend`; unknown index → close |
| `BackendProc(out)` | `backend.Proc` returns a reply, nil, or an error (close without a reply) |
| `Response` | nil → "Err empty response"; `WriteMsg`/`Flush`, which fail once the peer is gone |
| `ClearClients(idle)` | a tick of `timerTask`: `clearClosedClients` and `clearIdleClients` |

| Run | Config | Shows |
|---|---|---|
| `session_frames` | `ClientSession.cfg` | the i-th reply on the client's stream is the answer the loop owes the i-th request, and a request that reached a backend reached the one its key's index names (`RepliesAnswerRequests`); the reply stream parses back into the replies written (`ReplyFramesPreserved`); every request is answered or the connection closed (`AllAnswered`); the loop implements `SequentialSession` (`RequestsServedInTurn`) |
| `session_crlf_injection` | `ClientSession_inject.cfg` | violation of `RepliesAnswerRequests`: an unknown command name containing CR LF is echoed into the error reply and the client reads a different reply |

**Refinement.**  `SequentialSession` is the abstract promise of spec
section 5 for one connection: a strictly sequential receive → backend call
→ respond cycle.  It counts requests taken (`nIn`) and replies written
(`nOut`), and keeps the set of requests sent to a backend (`called`) and
whether the connection has ended.  It has four actions:

* `Take`: the next request is read only when every earlier one has its
  reply.
* `Call`: the current request goes to a backend at most once, before its
  reply.
* `Reply`: at most one reply per request.
* `Stop`: the connection may end at any point.

Weak fairness on `Serve` says an outstanding request is eventually answered
or the connection ended.  `ClientSession` instantiates it as `Sequential`
with this mapping:

* `nIn` is `Len(got)`;
* `nOut` is `Len(resps)`, the replies written to the reply stream;
* `called` is the set of requests whose `served` entry is done;
* `ended` is `pc = "closed"`.

`RequestsServedInTurn` (`Sequential!Spec`) is checked as a property.  A step
that reads and rejects a request maps to `Take` with `ended' = TRUE`; a
failed `Proc` maps to `Call` with `ended' = TRUE`.  The peer's steps,
`Accept` and the timer are stuttering steps.

`Answer` is written from the code's branches, not from the action bodies:
which request shapes are dropped, which are answered by the proxy itself,
and which carry the backend's outcome.

Bounds: two pipelined requests out of nine (GET with keys in the default
index, in a registered index `a:` and an unregistered `b:`; PING; an
unknown command; GET without a key; an empty array; a null array; an
integer), nine backend replies (empty and number-like texts, null and
empty bulk strings, a null array, a flat and a nested array), an error and
a nil.  Two requests make the second one meet the first one's cached
`curIndex`/`backend`; three requests exceed 15 minutes, so switching back
to an index cached in `beCache` but not current is not reached.
Fairness: weak fairness on each step of `clientHandler` (one goroutine per
client, never blocked except in `CmdReceive`, where the read is enabled
only when a frame is complete or the peer is gone), on the peer's reads,
on `Accept` (the accept loop runs until `Server.Close`, which nothing
calls) and on the timer task (`time.Tick` every `timerTaskInterval`).
Idleness: `maxClientIdleTime` is 300 s and backend calls time out in
seconds, so the timer can find the client idle only while it waits in
`CmdReceive`.

### Config (`Config.tla`, `MC_Config.tla`)

Start-up: `config.InitConfig` run once on `os.Args[1:]`.  The command line is
the input, chosen in `Init` from every sequence of at most `MaxArgs`
arguments.  An argument is a record `[dash, name, val]` standing for the
string of `dash` dashes, the name and `=val`.  A setting's value is a
literal (`zero`, `dflt`, `file`, `true`, the pprof address) or the string of
an argument.

| Variable | Code |
|---|---|
| `argv` | `os.Args[1:]` |
| `conf` | the `conf` local: the server file found by the hand scan |
| `cfg` | `Cfg.dbConfPath`, `*Cfg.server`, `*Cfg.log`, keyed by flag name |
| `flags` | what `fs.Parse` set (the flag package's `actual` map) |
| `pc`, `exit` | the step of `InitConfig`; how start-up ended (usage, version, error, panic) |

Actions, in the code's order:
* `ScanConfigFlag` is the hand scan `StringInSlice("-config")`, else `HasPrefixWithInSlice("-config=")`.
* `LoadServerFile` is `parseServerConfFromFile`, then `mergeServerConf` and `mergeLogConf`.
* `ParseCmdLine` is `fs.Parse`, then -help, the error exit and -version.
* `MergeFlags` is `mergeWithFlags`, with the `v[0]` panic on an empty argument.
* `LoadBackends` is the db file check, whose content is not modelled.

Go's flag parsing is the recursive operator `ParseArgs`, translated from
`flag.FlagSet.parseOne`.  It stops at the first non-flag argument or at `--`.
It accepts one or two dashes, `=value` or the next argument as the value,
and a bool flag with no value.  An unknown name, a bad value or a missing
value is an error.

| Run | Config | Shows |
|---|---|---|
| `config_flag_precedence` | `Config.cfg` | violation of `ConfigPrecedence`: a setting written with two dashes, e.g. `--log-level=0` in TLC's trace (`--server-port=0` goes the same way), is set by the flag package and then dropped by `mergeWithFlags`, which strips only one `-` |

`ConfigPrecedence` is the order `TestInitConfigWithFileAndFlags` states.  A
setting the flag package parsed has that value.  Any other setting keeps
the value the -config file gives it, if the flag package saw one.  Defaults
are left unconstrained.

Bounds: at most 3 arguments over five flag names (an int, a string, a bool,
-config, -version), the words `0` (a number) and `x` (a string, and the one
readable server file), and the empty string.  That is about 61,000 command
lines, and the run takes seconds.  Three arguments are enough for a file, a
non-flag word and a later flag.

Beyond the reported trace, each other mechanism was confirmed separately
with TLC, by excluding the inputs that reach the earlier ones:
* `-config=x` loses the file's `pprof_enable`;
* `-config=x -log-level -server-port` resets the port to its default;
* `-config=x 0 -server-port=0` likewise resets the port to its default.

No fairness: start-up is a finite sequence of steps, so the run sets
`CHECK_DEADLOCK FALSE`.

## 4. Not modelled

See `PROJECT.json` "components" for the reason per component: several clients
sharing the server map (each touches only its own entry), `Server.Close`
and `AddAspect` (never called), the aspect hooks of `plugin.go` (all return
nil), the backend config files (`parseBackendConfFromFile`, JSON
decoding of the backend types; the reload functions have no caller), the
command table (used as an abstract read/write classification),
the stress tool, and the `Slice` type (referenced by `slice/process.go` and
`route.go` but absent from `src/`).

## 5. Findings

Each is the counterexample of a violation run; `PROJECT.json` "findings"
gives the full account.

1. `pool_stale_reply` (conn.go:139, db.go:385): after a read timeout the
   connection goes back to the pool with the late reply still in the socket;
   the next caller receives the previous caller's reply.
2. `pool_no_heal` (db.go:283, db.go:285): a connection closed after a
   failed write, read or ping is put back into the pool and still counted.
   It is lent out again without a ping while it is younger than
   `pingInterval`.  With initConnNum = maxConnNum no replacement is ever
   dialled, so after a backend restart every request fails until the proxy
   itself restarts.
3. `sg_lost_error` (process.go:71): the workers' unsynchronised writes to
   the named return `err` let a success overwrite a failure.  MSET and
   MGET then report success (the trace is MSET).  DEL never returns a
   partial count: its gather loop reaches the failed worker's
   `goRet{nil, nil}` and `c.s.GetInt()` panics on nil, which
   `clientHandler`'s recover turns into closing the client.
4. `sg_worker_panic` (process.go:155): the same race makes a failed worker
   dereference its nil ack.
5. `config_flag_precedence` (config.go:330, 326): `mergeWithFlags`
   re-scans the raw command line instead of using what `fs.Parse` read.
   * `--name=v` is dropped, although help.go advertises `--` forms.
   * Any other flag word `fs.Parse` did not read resets that setting to
     its default over the -config file's value.  That covers a flag after
     a non-flag argument, and a value that looks like a flag.
   * The file's pprof settings are never copied.
6. `cluster_sticky_asking` (conn.go:208): the per-connection ASKING flag is
   never cleared, so a second ASK over the same connection loops on MOVED
   until the redirect limit.
7. `session_crlf_injection` (client.go:164): an unknown command name with
   CR LF, echoed into the error reply, forges a second reply on the client's
   stream.

Not a run, but a divergence the model shows: when `backend.Proc` fails
(client.go:226), `clientHandler` closes the connection without writing an
error reply, and any request pipelined behind it is lost.  Spec section 7
says a user-visible failure is a single encoded Error message.  The model
follows the code (`Answer` owes no reply).

Also not a run:

* MSET (process.go:52, 56).  `MsetProc` treats an error reply from a shard
  as success.  The serial loop returns only the last group's reply, and
  the worker branch always returns OK.  Spec section 4.5 says that any
  sub-command error aborts MSET, and the code marks this with a todo.  In
  the model, `SerialEnd` and `SendOk` return OK.
* Empty argument at start-up (config.go:327).  `ncache ""` makes
  `mergeWithFlags` read `v[0]` of the empty string, and start-up panics.
  `MergeFlags` reaches `exit = "panic"`.
* pprof defaults.  The `-pprof-enable` flag is declared "default true",
  but `Cfg` starts with pprof off, and only the flag itself turns it on.
