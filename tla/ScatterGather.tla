---------------------------- MODULE ScatterGather ----------------------------
(***************************************************************************)
(* The scatter-gather engine of src/backend/command/process.go: one       *)
(* multi-key request (MSET, MGET or DEL/EXISTS) split into one            *)
(* sub-command per shard index, forwarded either serially (fewer than     *)
(* CriticaNum groups) or by GoroutineNums worker goroutines, and the      *)
(* replies reassembled.                                                    *)
(*                                                                         *)
(* Keys are the argument positions 1..NumKeys of the request; for MSET a  *)
(* position stands for a key/value pair.  The value stored under the key  *)
(* at position k is k itself, so an MGET reply can be checked against the *)
(* request.  Each call of be.ForwardMsg has one of three outcomes:        *)
(*   "ok"       the expected reply (OK, an array of values, an integer),  *)
(*   "errReply" a reply that is a Redis error message (err == nil),       *)
(*   "fail"     a transport error (reply nil, err != nil).                *)
(*                                                                         *)
(* In the worker branch the closures assign the function's named returns  *)
(* `err` (and for MSET `msgAck`) without a lock, and read `err` again in  *)
(* `if ...; err != nil` and in `ch <- goRet{nil, err}`.  This data race is *)
(* modelled by making the assignment and each later read separate steps:  *)
(* a read sees the value of whichever worker wrote last, which covers     *)
(* both what the compiler may keep in a register (its own write) and what *)
(* it may load again.                                                      *)
(***************************************************************************)
EXTENDS Integers, FiniteSets, Sequences, SequencesExt, Functions

CONSTANTS
    NumKeys,        \* number of key arguments of the request
    Shards,         \* node indexes returned by GetNodeIndexByKey
    NoErr,          \* the nil error
    GoroutineNums,  \* process.go:11
    CriticaNum,     \* process.go:12
    Cmds            \* subset of {"MSET", "MGET", "DEL"} to explore

ASSUME NumKeys \in Nat \ {0} /\ GoroutineNums \in Nat \ {0}
ASSUME CriticaNum >= GoroutineNums /\ NoErr \notin Shards
ASSUME Cmds \subseteq {"MSET", "MGET", "DEL"}

Keys == 1..NumKeys
Workers == 0..(GoroutineNums - 1)
Outcomes == {"ok", "errReply", "fail"}

(* protocol.Msg values: every payload is a sequence of integers.  In an   *)
(* MGET array 0 is the null bulk string (values are the positions >= 1). *)
Msg(k, v) == [kind |-> k, val |-> v]
NilMsg == Msg("nil", <<>>)
OkMsg == Msg("str", <<>>)
ErrMsg == Msg("err", <<>>)
IntMsg(n) == Msg("int", <<n>>)
NullBulkString == 0

VARIABLES
    cmd,        \* the command name arr[0]
    shardOf,    \* GetNodeIndexByKey for each key
    pc,         \* the request goroutine
    todo,       \* groups not yet visited by the serial range loop
    err,        \* the named return err, shared with the workers
    msgAck,     \* the named return msgAck, shared with MSET workers
    retErr,     \* the error returned to Cluster.Proc
    respMap,    \* MGET: key position -> value (0 = absent)
    ackNum,     \* DEL: serial running sum
    outcome,    \* history: what ForwardMsg returned for each group
    wpc,        \* worker goroutines' program points
    wleft,      \* parts[w] not yet visited
    wcur,       \* group of the worker's current ForwardMsg
    wack,       \* the worker's local ack
    inner,      \* DEL: the worker's innerNum
    ch          \* the goRet channel: [s, n, err] per goRet, s = (c.s # nil)

vars == <<cmd, shardOf, pc, todo, err, msgAck, retErr, respMap, ackNum,
          outcome, wpc, wleft, wcur, wack, inner, ch>>
wvars == <<wpc, wleft, wcur, wack, inner, ch>>

Groups == {shardOf[k] : k \in Keys}
KeysOf(g) == {k \in Keys : shardOf[k] = g}
(* Position of key k inside the sub-command of its group (1-based): the  *)
(* grouping loop appends the keys in request order.                      *)
PosInGroup(k) == Cardinality({j \in KeysOf(shardOf[k]) : j <= k})

(* The reply ForwardMsg gives to the sub-command of group g: the        *)
(* backend's answer, not a translation of the cluster code.               *)
Reply(g, o) ==
    IF o = "fail" THEN NilMsg
    ELSE IF o = "errReply" THEN ErrMsg
    ELSE CASE cmd = "MSET" -> OkMsg
           [] cmd = "MGET" -> Msg("arr", [i \in 1..Cardinality(KeysOf(g)) |->
                                CHOOSE k \in KeysOf(g) : PosInGroup(k) = i])
           [] cmd = "DEL"  -> IntMsg(Cardinality(KeysOf(g)))

(* Sub-reply value for key k taken from an array reply of its group. *)
FillOffByOne(g, ack) ==
    [k \in Keys |-> IF k \in KeysOf(g) /\ PosInGroup(k) + 1 <= Len(ack.val)
                    THEN ack.val[PosInGroup(k) + 1] ELSE respMap[k]]

(* respMap[keyMsg] = msgAckSplit.GetArray()[i] for the keys of group g. *)
Fill(g, ack) ==
    [k \in Keys |-> IF k \in KeysOf(g) THEN ack.val[PosInGroup(k)]
                    ELSE respMap[k]]

(* The final loop of MgetProc over arr[1:]. *)
Assemble == Msg("arr", [k \in Keys |-> respMap[k]])

(* msg.GetInt() of a reply: BytesToInt64 of an error text fails and      *)
(* GetInt returns 0.                                                      *)
GetInt(m) == IF m.kind = "int" THEN m.val[1] ELSE 0

TypeOK ==
    /\ cmd \in Cmds
    /\ shardOf \in [Keys -> Shards]
    /\ pc \in {"split", "serial", "spawned", "done", "panicked", "crashed"}
    /\ todo \subseteq Shards
    /\ err \in Shards \cup {NoErr}
    /\ retErr \in Shards \cup {NoErr}
    /\ msgAck.kind \in {"nil", "str", "err", "int", "arr"}
    /\ respMap \in [Keys -> 0..NumKeys]
    /\ ackNum \in 0..NumKeys
    /\ outcome \in [Shards -> Outcomes \cup {"none"}]
    /\ wpc \in [Workers -> {"idle", "call", "check", "senderr", "sendok", "done"}]
    /\ wleft \in [Workers -> SUBSET Shards]
    /\ wcur \in [Workers -> Shards \cup {NoErr}]
    /\ inner \in [Workers -> 0..NumKeys]
    /\ ch \in Seq([s : BOOLEAN, n : 0..NumKeys, err : Shards \cup {NoErr}])

Init ==
    /\ cmd \in Cmds
    /\ shardOf \in [Keys -> Shards]
    /\ pc = "split"
    /\ todo = {}
    /\ err = NoErr
    /\ msgAck = NilMsg
    /\ retErr = NoErr
    /\ respMap = [k \in Keys |-> NullBulkString]
    /\ ackNum = 0
    /\ outcome = [g \in Shards |-> "none"]
    /\ wpc = [w \in Workers |-> "idle"]
    /\ wleft = [w \in Workers |-> {}]
    /\ wcur = [w \in Workers |-> NoErr]
    /\ wack = [w \in Workers |-> NilMsg]
    /\ inner = [w \in Workers |-> 0]
    /\ ch = <<>>

-----------------------------------------------------------------------------
(* The grouping loop and the branch on len(groupedMsg).  In the worker    *)
(* branch the groups are dealt round-robin to parts[] in map iteration    *)
(* order, which Go randomises: any ordering of the groups.  MgetProc      *)
(* reuses the loop counter i of its grouping loop, which then equals      *)
(* len(arr), as the first index.                                          *)
Split ==
    /\ pc = "split"
    /\ IF Cardinality(Groups) < CriticaNum
       THEN /\ pc' = "serial"
            /\ todo' = Groups
            /\ UNCHANGED wvars
       ELSE /\ pc' = "spawned"
            /\ \E order \in SetToSeqs(Groups) :
                 LET first == IF cmd = "MGET" THEN NumKeys + 1 ELSE 0
                 IN  wleft' = [w \in Workers |->
                                 {order[j] : j \in {j \in 1..Len(order) :
                                     (first + j - 1) % GoroutineNums = w}}]
            /\ wpc' = [w \in Workers |-> "call"]
            /\ UNCHANGED <<todo, wcur, wack, inner, ch>>
    /\ UNCHANGED <<cmd, shardOf, err, msgAck, retErr, respMap, ackNum, outcome>>

(* One iteration of the serial `for index, tempMsg = range groupedMsg`:  *)
(* a transport error returns at once; MSET keeps the reply as msgAck;    *)
(* MGET and DEL skip a reply of the wrong type.                           *)
SerialForward ==
    /\ pc = "serial"
    /\ \E g \in todo, o \in Outcomes :
         LET ack == Reply(g, o) IN
         /\ outcome' = [outcome EXCEPT ![g] = o]
         /\ err' = IF o = "fail" THEN g ELSE NoErr
         /\ todo' = todo \ {g}
         /\ IF o = "fail"
            THEN /\ pc' = "done"
                 /\ msgAck' = NilMsg
                 /\ retErr' = g
                 /\ UNCHANGED <<respMap, ackNum>>
            ELSE /\ msgAck' = IF cmd = "MSET" THEN ack ELSE msgAck
                 /\ respMap' = IF cmd = "MGET" /\ ack.kind = "arr"
                               THEN Fill(g, ack) ELSE respMap
                 /\ ackNum' = IF cmd = "DEL" /\ ack.kind = "int"
                              THEN ackNum + GetInt(ack) ELSE ackNum
                 /\ UNCHANGED <<pc, retErr>>
    /\ UNCHANGED <<cmd, shardOf, wvars>>

(* After the serial loop: MSET returns the last reply, MGET assembles     *)
(* the reply in key order, DEL returns the sum.                           *)
SerialEnd ==
    /\ pc = "serial"
    /\ todo = {}
    /\ pc' = "done"
    /\ msgAck' = CASE cmd = "MSET" -> msgAck
                   [] cmd = "MGET" -> Assemble
                   [] cmd = "DEL"  -> IntMsg(ackNum)
    /\ retErr' = IF cmd = "MSET" THEN NoErr ELSE err
    /\ UNCHANGED <<cmd, shardOf, todo, err, respMap, ackNum, outcome, wvars>>

-----------------------------------------------------------------------------
(* Worker w: `ack, err = be.ForwardMsg(index, msg)` for the next group   *)
(* of its part (map order: any).  The assignment to the shared err (and  *)
(* for MSET to the shared msgAck) is this step.                           *)
Call(w) ==
    /\ pc = "spawned"
    /\ wpc[w] = "call"
    /\ \E g \in wleft[w], o \in Outcomes :
         /\ outcome' = [outcome EXCEPT ![g] = o]
         /\ err' = IF o = "fail" THEN g ELSE NoErr
         /\ msgAck' = IF cmd = "MSET" THEN Reply(g, o) ELSE msgAck
         /\ wcur' = [wcur EXCEPT ![w] = g]
         /\ wack' = [wack EXCEPT ![w] = Reply(g, o)]
    /\ wpc' = [wpc EXCEPT ![w] = "check"]
    /\ UNCHANGED <<cmd, shardOf, pc, todo, retErr, respMap, ackNum,
                   wleft, inner, ch>>

(* make(chan goRet, GoroutineNums): a send blocks while the buffer is    *)
(* full, and nothing receives before wg.Wait() returns.                   *)
ChanCap == GoroutineNums

CanSend == Len(ch) < ChanCap

VisitedKeepsGroup(w, g) == wleft

(* The range loop over parts[w] moves past group g. *)
Visited(w, g) == [wleft EXCEPT ![w] = @ \ {g}]

AddInnerNumOverwrites(w, ack) == [inner EXCEPT ![w] = GetInt(ack)]

(* innerNum += ack.GetInt() *)
AddInnerNum(w, ack) == [inner EXCEPT ![w] = @ + GetInt(ack)]

(* `err != nil` reads the shared err.  When it reads nil the worker uses  *)
(* its ack: MGET calls ack.IsArray() and DEL ack.GetInt(), both of which  *)
(* dereference a nil *Msg after a transport error and panic; the panic   *)
(* is not recovered in the worker goroutine and ends the process.         *)
Check(w) ==
    /\ pc = "spawned"
    /\ wpc[w] = "check"
    /\ LET ack == wack[w]
           g == wcur[w] IN
       IF err # NoErr
       THEN /\ wpc' = [wpc EXCEPT ![w] = "senderr"]
            /\ UNCHANGED <<pc, respMap, wleft, inner>>
       ELSE IF cmd # "MSET" /\ ack.kind = "nil"
       THEN /\ pc' = "crashed"
            /\ UNCHANGED <<wpc, respMap, wleft, inner>>
       ELSE /\ respMap' = IF cmd = "MGET" /\ ack.kind = "arr"
                          THEN Fill(g, ack) ELSE respMap
            /\ inner' = IF cmd = "DEL" THEN AddInnerNum(w, ack) ELSE inner
            /\ wleft' = Visited(w, g)
            /\ wpc' = [wpc EXCEPT ![w] = IF wleft'[w] = {} THEN "sendok"
                                                          ELSE "call"]
            /\ UNCHANGED pc
    /\ UNCHANGED <<cmd, shardOf, todo, err, msgAck, retErr, ackNum, outcome,
                   wcur, wack, ch>>

SendErrNoReturn(w) ==
    /\ pc = "spawned"
    /\ wpc[w] = "senderr"
    /\ CanSend
    /\ ch' = Append(ch, [s |-> FALSE, n |-> 0, err |-> err])
    /\ wleft' = Visited(w, wcur[w])
    /\ wpc' = [wpc EXCEPT ![w] = IF wleft'[w] = {} THEN "sendok" ELSE "call"]
    /\ UNCHANGED <<cmd, shardOf, pc, todo, err, msgAck, retErr, respMap,
                   ackNum, outcome, wcur, wack, inner>>

(* `ch <- goRet{nil, err}; return` (deferred wg.Done) reads err again. *)
SendErr(w) ==
    /\ pc = "spawned"
    /\ wpc[w] = "senderr"
    /\ CanSend
    /\ ch' = Append(ch, [s |-> FALSE, n |-> 0, err |-> err])
    /\ wpc' = [wpc EXCEPT ![w] = "done"]
    /\ UNCHANGED <<cmd, shardOf, pc, todo, err, msgAck, retErr, respMap,
                   ackNum, outcome, wleft, wcur, wack, inner>>

(* `ch <- goRet{..., nil}` after the loop: DEL sends the message         *)
(* NewIntegerMsg(innerNum), MSET and MGET send goRet{nil, nil}.          *)
SendOk(w) ==
    /\ pc = "spawned"
    /\ wpc[w] = "sendok"
    /\ CanSend
    /\ ch' = Append(ch, [s |-> cmd = "DEL", n |-> inner[w], err |-> NoErr])
    /\ wpc' = [wpc EXCEPT ![w] = "done"]
    /\ UNCHANGED <<cmd, shardOf, pc, todo, err, msgAck, retErr, respMap,
                   ackNum, outcome, wleft, wcur, wack, inner>>

(* wg.Wait(), close(ch), `for c := range ch` in send order: on the first *)
(* c.err != nil return nil and the shared err; DEL's c.s.GetInt() on a    *)
(* goRet{nil, nil} (an error send that read err as nil) dereferences nil  *)
(* and panics, which clientHandler's recover turns into closing the      *)
(* client; otherwise the aggregate.                                       *)
Gather ==
    LET stop == SelectInSeq(ch, LAMBDA c : c.err # NoErr \/ (cmd = "DEL" /\ ~c.s))
    IN  /\ pc = "spawned"
        /\ \A w \in Workers : wpc[w] = "done"
        /\ \/ /\ stop # 0
              /\ ch[stop].err # NoErr
              /\ pc' = "done"
              /\ msgAck' = NilMsg
              /\ retErr' = err
           \/ /\ stop # 0
              /\ ch[stop].err = NoErr
              /\ pc' = "panicked"
              /\ UNCHANGED <<msgAck, retErr>>
           \/ /\ stop = 0
              /\ pc' = "done"
              /\ msgAck' = CASE cmd = "MSET" -> OkMsg
                              [] cmd = "MGET" -> Assemble
                              [] cmd = "DEL"  ->
                                   IntMsg(FoldSeq(LAMBDA c, t : c.n + t, 0, ch))
              /\ retErr' = IF cmd = "MSET" THEN NoErr ELSE err
        /\ UNCHANGED <<cmd, shardOf, todo, err, respMap, ackNum, outcome, wvars>>

(* The request has returned, its panic has closed the client, or the     *)
(* process has died. *)
Terminated ==
    /\ pc \in {"done", "panicked", "crashed"}
    /\ UNCHANGED vars

Next ==
    \/ Split \/ SerialForward \/ SerialEnd \/ Gather
    \/ \E w \in Workers : Call(w) \/ Check(w) \/ SendErr(w) \/ SendOk(w)
    \/ Terminated

Fairness ==
    /\ WF_vars(Split \/ SerialForward \/ SerialEnd \/ Gather)
    /\ \A w \in Workers : WF_vars(Call(w) \/ Check(w) \/ SendErr(w) \/ SendOk(w))

Spec == Init /\ [][Next]_vars /\ Fairness

-----------------------------------------------------------------------------
(* MGET key order: whenever MgetProc returns an array, its i-th element   *)
(* is the value of the i-th key if that key's group was answered with a  *)
(* well-formed array, and the null bulk string otherwise, whatever the   *)
(* grouping, the map iteration order and the worker interleaving.        *)
MgetKeyOrder ==
    (pc = "done" /\ cmd = "MGET" /\ msgAck.kind = "arr") =>
        msgAck.val = [k \in Keys |-> IF outcome[shardOf[k]] = "ok"
                                     THEN k ELSE NullBulkString]

(* DEL/EXISTS sum: whenever procDelOrExists returns an integer, no       *)
(* sub-dispatch failed and the integer is the sum of the integer          *)
(* sub-replies of all groups (a non-integer sub-reply counts 0), in the   *)
(* serial loop and across the workers' innerNum and the goRet channel.   *)
(* In the worker branch this rests on the race on err: a failed worker   *)
(* sends goRet{nil, err}, which either carries an error or makes the      *)
(* gather loop dereference a nil c.s, so a partial sum is never returned. *)
DelSum ==
    (pc = "done" /\ cmd = "DEL" /\ msgAck.kind = "int") =>
        /\ \A g \in Groups : outcome[g] # "fail"
        /\ msgAck.val[1] = MapThenSumSet(LAMBDA g : IF outcome[g] = "ok"
                                                    THEN Cardinality(KeysOf(g))
                                                    ELSE 0, Groups)

(* Error propagation (spec 4.5 step 5): if any sub-dispatch of the       *)
(* request failed with a transport error, the request returns an error.  *)
ErrorSurfaced ==
    (pc = "done" /\ \E g \in Groups : outcome[g] = "fail") => retErr # NoErr

(* A worker goroutine never panics: a panic there is not recovered and   *)
(* ends the whole proxy.                                                  *)
NoWorkerPanic == pc # "crashed"

(* Every request returns (or the process dies): wg.Wait() is released    *)
(* because every worker reaches its deferred wg.Done(), which needs each *)
(* worker's send on the GoroutineNums-slot channel, read only after       *)
(* wg.Wait(), to find a free slot: one send per worker and no more.       *)
RequestReturns == <>(pc \in {"done", "panicked", "crashed"})

=============================================================================
