------------------------------ MODULE ConnPool ------------------------------
(***************************************************************************)
(* The per-endpoint connection pool Db (src/backend/nodes/db.go) and the   *)
(* Conn it lends out (src/backend/nodes/conn.go).                          *)
(*                                                                         *)
(* Callers run Db.ProcCmdMsg: GetConnect (popConn with 10 tries, then one  *)
(* createWorkConn, then popConn with 3 tries), write the request, read one *)
(* reply, putConn.  The idle-connection reaper (idleConnCheck) and the     *)
(* asynchronous tail of initDb run beside them.  The backend may crash     *)
(* (every open socket sees EOF) and come back; reads may time out; time    *)
(* passes and ages the connections' activeTime.                            *)
(*                                                                         *)
(* Db.status stays DbStatusUP: CloseDb is only called from healthCheck,    *)
(* whose "err == nil ||" short-circuit (db.go:114) returns before any ping *)
(* once checkConn is set, so status is not a variable here.                *)
(***************************************************************************)
EXTENDS Integers, Sequences, FiniteSets, SequencesExt, Functions

CONSTANTS
  Clients,              \* goroutines calling ProcCmdMsg concurrently
  Conns,                \* identities of the TCP connections the pool may own
  NoConn,               \* "no connection held"
  InitConnNum,          \* Db.initConnNum
  MaxConnNum,           \* Db.maxConnNum, capacity of both channels
  FirstTries,           \* popConn tries before createWorkConn (10)
  SecondTries,          \* popConn tries after createWorkConn (3)
  TaskCloseIdleConnNum, \* connections the reaper inspects per round (3)
  MaxRequests,          \* bound: requests each client issues
  MaxCrashes            \* bound: backend crashes

ASSUME /\ Cardinality(Conns) = MaxConnNum
       /\ NoConn \notin Conns
       /\ InitConnNum \in 1..MaxConnNum
       /\ {FirstTries, SecondTries, TaskCloseIdleConnNum} \subseteq Nat \ {0}
       /\ {MaxRequests, MaxCrashes} \subseteq Nat

\* UnixTime() - activeTime of a connection, abstracted to the two thresholds
\* the code compares it with: pingInterval (10 s) and maxIdleTime (300 s).
Fresh == 0
Stale == 1
Idle  == 2

\* A request is tagged by its client and its number; <<>> is "no reply read".
Tags == Clients \X (1..MaxRequests)

VARIABLES
  initConnChan, extraConnChan, \* the two buffered free lists (FIFO)
  curWorkConnNum,              \* Db.curWorkConnNum
  connStatus,                  \* Conn.status, or "none" if never dialled
  sock,                        \* the peer side of the socket: "ok" | "broken"
  age,                         \* abstracted UnixTime() - Conn.activeTime
  pending,                     \* requests written whose reply is still unread
  backendUp, crashes,          \* the redis endpoint
  pc, phase, tries, held, sent, got,  \* the callers of ProcCmdMsg
  rpc, rheld, rleft,           \* the idleConnCheck timer task
  initLeft                     \* connections initDb still creates asynchronously

pool    == <<initConnChan, extraConnChan, curWorkConnNum>>
conn    == <<connStatus, sock, age, pending>>
env     == <<backendUp, crashes>>
callers == <<pc, phase, tries, held, sent, got>>
reaper  == <<rpc, rheld, rleft>>
vars    == <<pool, conn, env, callers, reaper, initLeft>>

\* Connections the pool accounts for: idle in a channel or on loan.
Owned == (ToSet(initConnChan) \cup ToSet(extraConnChan)
          \cup Range(held) \cup {rheld}) \ {NoConn}

\* Occurrences of c among the free lists and the borrowers.
Places(c) ==
  Len(SelectSeq(initConnChan, LAMBDA x : x = c))
  + Len(SelectSeq(extraConnChan, LAMBDA x : x = c))
  + Cardinality({cl \in Clients : held[cl] = c})
  + (IF rheld = c THEN 1 ELSE 0)

TypeOK ==
  /\ initConnChan \in Seq(Conns) /\ extraConnChan \in Seq(Conns)
  /\ curWorkConnNum \in 0..MaxConnNum
  /\ connStatus \in [Conns -> {"none", "connected", "sick", "closed"}]
  /\ sock \in [Conns -> {"ok", "broken"}]
  /\ age \in [Conns -> {Fresh, Stale, Idle}]
  /\ pending \in [Conns -> Seq(Tags)]
  /\ backendUp \in BOOLEAN /\ crashes \in 0..MaxCrashes
  /\ pc \in [Clients -> {"idle", "pop", "ping", "create", "write", "read", "put"}]
  /\ phase \in [Clients -> {1, 2}]
  /\ tries \in [Clients -> 0..FirstTries + SecondTries]
  /\ held \in [Clients -> Conns \cup {NoConn}]
  /\ sent \in [Clients -> 0..MaxRequests]
  /\ got \in [Clients -> Tags \cup {<<>>}]
  /\ rpc \in {"idle", "reap", "release", "create"}
  /\ rheld \in Conns \cup {NoConn}
  /\ rleft \in 0..(TaskCloseIdleConnNum + MaxConnNum)
  /\ initLeft \in 0..InitConnNum

-----------------------------------------------------------------------------
(* Pool helpers                                                            *)

\* putConn: to the init channel while it holds fewer than initConnNum,
\* otherwise to the extra channel; a send on a full channel blocks.
putConn(c) ==
  IF Len(initConnChan) < InitConnNum
  THEN /\ Len(initConnChan) < MaxConnNum
       /\ initConnChan' = Append(initConnChan, c)
       /\ UNCHANGED extraConnChan
  ELSE /\ Len(extraConnChan) < MaxConnNum
       /\ extraConnChan' = Append(extraConnChan, c)
       /\ UNCHANGED initConnChan

\* NewConn/Connect: a fresh socket with activeTime = now.
newDbConn(c) ==
  /\ connStatus' = [connStatus EXCEPT ![c] = "connected"]
  /\ sock' = [sock EXCEPT ![c] = "ok"]
  /\ age' = [age EXCEPT ![c] = Fresh]
  /\ pending' = [pending EXCEPT ![c] = <<>>]

\* Mutant of createWorkConn: the count is raised before the dial and not
\* lowered when the dial fails.
createWorkConnCountsFailedDial ==
  \/ /\ curWorkConnNum < MaxConnNum
     /\ backendUp
     /\ \E c \in Conns \ Owned :
          /\ newDbConn(c)
          /\ putConn(c)
     /\ curWorkConnNum' = curWorkConnNum + 1
  \/ /\ curWorkConnNum < MaxConnNum /\ ~backendUp
     /\ curWorkConnNum' = curWorkConnNum + 1
     /\ UNCHANGED <<initConnChan, extraConnChan, conn>>
  \/ /\ curWorkConnNum >= MaxConnNum
     /\ UNCHANGED <<pool, conn>>

\* createWorkConn(true): under connCreateMutex, refuse at maxConnNum, dial,
\* count the connection and put it in a channel.  A dial to a down backend
\* fails and leaves everything unchanged.
createWorkConn ==
  \/ /\ curWorkConnNum < MaxConnNum
     /\ backendUp
     /\ \E c \in Conns \ Owned :
          /\ newDbConn(c)
          /\ putConn(c)
     /\ curWorkConnNum' = curWorkConnNum + 1
  \/ /\ curWorkConnNum >= MaxConnNum \/ ~backendUp
     /\ UNCHANGED <<pool, conn>>

\* Mutant of closeWorkConn: the atomic decrement is left out.
closeWorkConnKeepsCount(c) ==
  /\ connStatus' = [connStatus EXCEPT ![c] = "closed"]
  /\ UNCHANGED curWorkConnNum

\* closeWorkConn: close the socket and decrement the count.
closeWorkConn(c) ==
  /\ connStatus' = [connStatus EXCEPT ![c] = "closed"]
  /\ curWorkConnNum' = curWorkConnNum - 1

-----------------------------------------------------------------------------
(* Init: initDb has created max(1, initConnNum/4) connections synchronously *)
(* and left the rest to "go utils.Execute(initConnFn, ...)".               *)

SyncInitNum == IF InitConnNum \div 4 > 1 THEN InitConnNum \div 4 ELSE 1

Init ==
  /\ initConnChan \in {s \in [1..SyncInitNum -> Conns] : IsInjective(s)}
  /\ extraConnChan = <<>>
  /\ curWorkConnNum = SyncInitNum
  /\ connStatus = [c \in Conns |->
                     IF c \in ToSet(initConnChan) THEN "connected" ELSE "none"]
  /\ sock = [c \in Conns |-> "ok"]
  /\ age = [c \in Conns |-> Fresh]
  /\ pending = [c \in Conns |-> <<>>]
  /\ backendUp = TRUE /\ crashes = 0
  /\ pc = [cl \in Clients |-> "idle"]
  /\ phase = [cl \in Clients |-> 1]
  /\ tries = [cl \in Clients |-> 0]
  /\ held = [cl \in Clients |-> NoConn]
  /\ sent = [cl \in Clients |-> 0]
  /\ got = [cl \in Clients |-> <<>>]
  /\ rpc = "idle" /\ rheld = NoConn /\ rleft = 0
  /\ initLeft = InitConnNum - SyncInitNum

-----------------------------------------------------------------------------
(* A caller of ProcCmdMsg (db.go:379).                                     *)

Goto(cl, l) == pc' = [pc EXCEPT ![cl] = l]

\* GetConnect: status is up; popConn(first, second, 10, 0).
GetConnect(cl) ==
  /\ pc[cl] = "idle"
  /\ sent[cl] < MaxRequests
  /\ Goto(cl, "pop")
  /\ phase' = [phase EXCEPT ![cl] = 1]
  /\ tries' = [tries EXCEPT ![cl] = FirstTries]
  /\ sent' = [sent EXCEPT ![cl] = @ + 1]
  /\ got' = [got EXCEPT ![cl] = <<>>]
  /\ UNCHANGED <<pool, conn, env, held, reaper, initLeft>>

\* Take c out of a channel: a connection idle longer than pingInterval is
\* pinged before it is handed out.
Take(cl, c) ==
  /\ held' = [held EXCEPT ![cl] = c]
  /\ Goto(cl, IF age[c] = Fresh THEN "write" ELSE "ping")

\* Mutant of popConn: the retry loop runs one try too many (i <= retryTimes).
popConnExtraTry(cl) ==
  /\ pc[cl] = "pop"
  /\ tries[cl] >= 0
  /\ \/ /\ initConnChan = <<>> /\ extraConnChan = <<>>
        /\ tries' = [tries EXCEPT ![cl] = @ - 1]
        /\ UNCHANGED <<pool, pc, held>>
     \/ /\ initConnChan /= <<>>
        /\ initConnChan' = Tail(initConnChan)
        /\ Take(cl, Head(initConnChan))
        /\ UNCHANGED <<extraConnChan, curWorkConnNum, tries>>
     \/ /\ extraConnChan /= <<>>
        /\ extraConnChan' = Tail(extraConnChan)
        /\ Take(cl, Head(extraConnChan))
        /\ UNCHANGED <<initConnChan, curWorkConnNum, tries>>
  /\ UNCHANGED <<conn, env, phase, sent, got, reaper, initLeft>>

\* One try of popConnFn: a select over both channels, which picks any ready
\* one (so the busy-biased order of the two arguments has no effect), and
\* fails the try when both are empty.
popConn(cl) ==
  /\ pc[cl] = "pop"
  /\ tries[cl] > 0
  /\ \/ /\ initConnChan = <<>> /\ extraConnChan = <<>>
        /\ tries' = [tries EXCEPT ![cl] = @ - 1]
        /\ UNCHANGED <<pool, pc, held>>
     \/ /\ initConnChan /= <<>>
        /\ initConnChan' = Tail(initConnChan)
        /\ Take(cl, Head(initConnChan))
        /\ UNCHANGED <<extraConnChan, curWorkConnNum, tries>>
     \/ /\ extraConnChan /= <<>>
        /\ extraConnChan' = Tail(extraConnChan)
        /\ Take(cl, Head(extraConnChan))
        /\ UNCHANGED <<initConnChan, curWorkConnNum, tries>>
  /\ UNCHANGED <<conn, env, phase, sent, got, reaper, initLeft>>

\* RetryExecute gave up: after the first popConn GetConnect creates one
\* connection; after the second it returns errNoIdleConn and ProcCmdMsg
\* returns without putConn.
popConnFailed(cl) ==
  /\ pc[cl] = "pop"
  /\ tries[cl] = 0
  /\ Goto(cl, IF phase[cl] = 1 THEN "create" ELSE "idle")
  /\ UNCHANGED <<pool, conn, env, phase, tries, held, sent, got, reaper, initLeft>>

\* Conn.Ping succeeds only on an open socket with nothing unread on it:
\* a stale reply would be read instead of PONG.
PingOk(cl) ==
  LET c == held[cl] IN
  /\ pc[cl] = "ping"
  /\ connStatus[c] /= "closed"
  /\ sock[c] = "ok"
  /\ pending[c] = <<>>
  /\ age' = [age EXCEPT ![c] = Fresh]
  /\ Goto(cl, "write")
  /\ UNCHANGED <<pool, connStatus, sock, pending, env, phase, tries, held, sent, got, reaper, initLeft>>

\* Mutant of PingFail: err is not set, so the connection just put back is
\* also handed to the caller.
PingFailKeepsConn(cl) ==
  LET c == held[cl] IN
  /\ pc[cl] = "ping"
  /\ connStatus' = [connStatus EXCEPT ![c] = "closed"]
  /\ putConn(c)
  /\ Goto(cl, "write")
  /\ UNCHANGED <<curWorkConnNum, sock, age, pending, env, phase, tries, held, sent, got, reaper, initLeft>>

\* Mutant of PingFail: the failed ping does not use up a try.
PingFailNoTry(cl) ==
  LET c == held[cl] IN
  /\ pc[cl] = "ping"
  /\ connStatus' = [connStatus EXCEPT ![c] = "closed"]
  /\ putConn(c)
  /\ held' = [held EXCEPT ![cl] = NoConn]
  /\ Goto(cl, "pop")
  /\ UNCHANGED <<curWorkConnNum, sock, age, pending, env, phase, tries, sent, got, reaper, initLeft>>

\* Any ping error (closed conn, EOF, stale reply, timeout) closes the Conn;
\* popConnFn then calls putConn(conn) and the try fails.
PingFail(cl) ==
  LET c == held[cl] IN
  /\ pc[cl] = "ping"
  /\ connStatus' = [connStatus EXCEPT ![c] = "closed"]
  /\ putConn(c)
  /\ held' = [held EXCEPT ![cl] = NoConn]
  /\ tries' = [tries EXCEPT ![cl] = @ - 1]
  /\ Goto(cl, "pop")
  /\ UNCHANGED <<curWorkConnNum, sock, age, pending, env, phase, sent, got, reaper, initLeft>>

\* GetConnect: createWorkConn(true), then popConn(first, second, 3, 10).
CreateThenPop(cl) ==
  /\ pc[cl] = "create"
  /\ createWorkConn
  /\ Goto(cl, "pop")
  /\ phase' = [phase EXCEPT ![cl] = 2]
  /\ tries' = [tries EXCEPT ![cl] = SecondTries]
  /\ UNCHANGED <<env, held, sent, got, reaper, initLeft>>

\* msg.WriteMsg(conn.bw) through Conn.Write: errConnectClosed on a closed
\* Conn; on a broken socket either the write fails (sick, then Close) or the
\* kernel accepts it; a written request awaits its reply on the socket.
WriteMsg(cl) ==
  LET c == held[cl] IN
  /\ pc[cl] = "write"
  /\ \/ /\ connStatus[c] = "closed"
        /\ Goto(cl, "put")
        /\ UNCHANGED conn
     \/ /\ connStatus[c] /= "closed"
        /\ sock[c] = "broken"
        /\ connStatus' = [connStatus EXCEPT ![c] = "closed"]
        /\ Goto(cl, "put")
        /\ UNCHANGED <<sock, age, pending>>
     \/ /\ connStatus[c] /= "closed"
        /\ pending' = [pending EXCEPT ![c] = Append(@, <<cl, sent[cl]>>)]
        /\ age' = [age EXCEPT ![c] = Fresh]
        /\ Goto(cl, "read")
        /\ UNCHANGED <<connStatus, sock>>
  /\ UNCHANGED <<pool, env, phase, tries, held, sent, got, reaper, initLeft>>

\* protocol.NewMsgFromReader(conn.br) through Conn.Read: EOF closes the
\* Conn; a reply read is the oldest one unread on the socket; a read
\* deadline that expires marks the Conn sick and leaves the reply unread.
ReadReply(cl) ==
  LET c == held[cl] IN
  /\ pc[cl] = "read"
  /\ \/ /\ sock[c] = "broken"
        /\ connStatus' = [connStatus EXCEPT ![c] = "closed"]
        /\ UNCHANGED <<age, pending, got>>
     \/ /\ sock[c] = "ok"
        /\ pending[c] /= <<>>
        /\ got' = [got EXCEPT ![cl] = Head(pending[c])]
        /\ pending' = [pending EXCEPT ![c] = Tail(@)]
        /\ age' = [age EXCEPT ![c] = Fresh]
        /\ UNCHANGED connStatus
     \/ /\ sock[c] = "ok"
        /\ connStatus' = [connStatus EXCEPT ![c] = "sick"]
        /\ UNCHANGED <<age, pending, got>>
  /\ Goto(cl, "put")
  /\ UNCHANGED <<pool, sock, env, phase, tries, held, sent, reaper, initLeft>>

\* ProcCmdMsg ends with this.putConn(conn), whatever the outcome.
PutConn(cl) ==
  /\ pc[cl] = "put"
  /\ putConn(held[cl])
  /\ held' = [held EXCEPT ![cl] = NoConn]
  /\ Goto(cl, "idle")
  /\ UNCHANGED <<curWorkConnNum, conn, env, phase, tries, sent, got, reaper, initLeft>>

ProcCmdMsg(cl) ==
  \/ GetConnect(cl) \/ popConn(cl) \/ popConnFailed(cl)
  \/ PingOk(cl) \/ PingFail(cl) \/ CreateThenPop(cl)
  \/ WriteMsg(cl) \/ ReadReply(cl) \/ PutConn(cl)

-----------------------------------------------------------------------------
(* idleConnCheck (db.go:155), run by utils.TimerTask every 60 s.  It reads *)
(* curWorkConnNum once; above initConnNum it inspects up to 3 connections  *)
(* of the extra channel, closing those idle beyond maxIdleTime and putting *)
(* back the others; below it, it creates the missing connections.  The     *)
(* busy percentage it also computes only reorders the two arguments of a   *)
(* select that treats them alike, so it is left out.                       *)

IdleConnCheck ==
  /\ rpc = "idle"
  /\ curWorkConnNum /= InitConnNum
  /\ IF curWorkConnNum > InitConnNum
     THEN rpc' = "reap" /\ rleft' = TaskCloseIdleConnNum
     ELSE rpc' = "create" /\ rleft' = InitConnNum - curWorkConnNum
  /\ UNCHANGED <<pool, conn, env, callers, rheld, initLeft>>

\* "select { case conn := <-extraConnChan: ... default: return nil }"
ReapPop ==
  /\ rpc = "reap"
  /\ \/ /\ extraConnChan = <<>>
        /\ rpc' = "idle"
        /\ UNCHANGED <<extraConnChan, rheld>>
     \/ /\ extraConnChan /= <<>>
        /\ rheld' = Head(extraConnChan)
        /\ extraConnChan' = Tail(extraConnChan)
        /\ rpc' = "release"
  /\ UNCHANGED <<initConnChan, curWorkConnNum, conn, env, callers, rleft, initLeft>>

ReapRelease ==
  /\ rpc = "release"
  /\ \/ /\ age[rheld] = Idle
        /\ closeWorkConn(rheld)
        /\ UNCHANGED <<initConnChan, extraConnChan>>
     \/ /\ age[rheld] /= Idle
        /\ putConn(rheld)
        /\ UNCHANGED <<curWorkConnNum, connStatus>>
  /\ rheld' = NoConn
  /\ rleft' = rleft - 1
  /\ rpc' = IF rleft = 1 THEN "idle" ELSE "reap"
  /\ UNCHANGED <<sock, age, pending, env, callers, initLeft>>

\* utils.Execute(createWorkConn(true), initConnNum - curWorkConnNum)
ReapCreate ==
  /\ rpc = "create"
  /\ createWorkConn
  /\ rleft' = rleft - 1
  /\ rpc' = IF rleft = 1 THEN "idle" ELSE "create"
  /\ UNCHANGED <<env, callers, rheld, initLeft>>

\* The goroutine initDb leaves behind: go utils.Execute(initConnFn, n).
InitCreate ==
  /\ initLeft > 0
  /\ createWorkConn
  /\ initLeft' = initLeft - 1
  /\ UNCHANGED <<env, callers, reaper>>

-----------------------------------------------------------------------------
(* Environment                                                             *)

\* Time passes for a connection idle in a free list: its last successful
\* I/O gets older.  A loan lasts at most the 3 s deadlines, well under the
\* 10 s pingInterval, so ageing during a loan is left out.
Tick(c) ==
  /\ c \in ToSet(initConnChan) \cup ToSet(extraConnChan)
  /\ age[c] < Idle
  /\ age' = [age EXCEPT ![c] = @ + 1]
  /\ UNCHANGED <<pool, connStatus, sock, pending, env, callers, reaper, initLeft>>

\* The redis endpoint dies: every socket dialled so far sees EOF.
BackendCrash ==
  /\ backendUp
  /\ crashes < MaxCrashes
  /\ backendUp' = FALSE
  /\ crashes' = crashes + 1
  /\ sock' = [c \in Conns |-> IF connStatus[c] = "none" THEN sock[c] ELSE "broken"]
  /\ UNCHANGED <<pool, connStatus, age, pending, callers, reaper, initLeft>>

BackendRestart ==
  /\ ~backendUp
  /\ backendUp' = TRUE
  /\ UNCHANGED <<pool, conn, crashes, callers, reaper, initLeft>>

\* Every caller has issued its bounded number of requests.
Finished ==
  /\ \A cl \in Clients : pc[cl] = "idle" /\ sent[cl] = MaxRequests
  /\ UNCHANGED vars

Next ==
  \/ \E cl \in Clients : ProcCmdMsg(cl)
  \/ IdleConnCheck \/ ReapPop \/ ReapRelease \/ ReapCreate
  \/ InitCreate
  \/ \E c \in Conns : Tick(c)
  \/ BackendCrash \/ BackendRestart
  \/ Finished

\* Each caller is a goroutine that the Go scheduler keeps running: once it
\* has started a request every step of ProcCmdMsg is weakly fair.  Starting
\* a request, the timers and the environment get no fairness.
Fairness ==
  \A cl \in Clients :
    WF_vars(ProcCmdMsg(cl) /\ pc[cl] /= "idle")

Spec == Init /\ [][Next]_vars /\ Fairness

\* The timer tasks and initDb's tail are goroutines that keep running, and
\* time keeps passing for an idle connection.
TimerFairness ==
  /\ WF_vars(IdleConnCheck \/ ReapPop \/ ReapRelease \/ ReapCreate)
  /\ WF_vars(InitCreate)
  /\ \A c \in Conns : WF_vars(Tick(c))

HealSpec == Spec /\ TimerFairness

-----------------------------------------------------------------------------
(* Properties                                                              *)

\* A connection is never in two places at once: idle in a free list and on
\* loan, twice in the free lists, or on loan to two callers.  popConnFn's
\* ping-failure path, putConn, the reaper's pop/put and createWorkConn's put
\* all move connections between the channels concurrently.
ExclusiveLoan == \A c \in Conns : Places(c) <= 1

\* curWorkConnNum counts exactly the connections the pool owns (idle or on
\* loan), so the maxConnNum limit checked by createWorkConn bounds them:
\* createWorkConn, closeWorkConn in the reaper and the loans interleave.
CountMatchesPool ==
  /\ curWorkConnNum = Cardinality(Owned)
  /\ curWorkConnNum <= MaxConnNum

\* Every request a caller starts returns (with a reply or an error) and the
\* caller is ready again: popConn's bounded retries, a blocked channel send
\* or a stuck reaper never hold a caller forever.
RequestsComplete == \A cl \in Clients : (pc[cl] /= "idle") ~> (pc[cl] = "idle")

\* The reply a caller reads is the reply to the request it wrote on that
\* connection (Conn.HandleMsg / ProcCmdMsg: write one request, read one
\* reply), as spec section 5 requires by closing a connection whose read
\* timed out.
ReplyMatchesRequest ==
  \A cl \in Clients : got[cl] \in {<<>>, <<cl, sent[cl]>>}

\* After a backend crash, once the backend is back, the pool eventually owns
\* a connection whose socket works again (spec section 4.2: a connection
\* that fails its ping is discarded, and the reaper opens new connections
\* when the live count falls under initConnNum).
PoolHeals ==
  (backendUp /\ crashes = MaxCrashes) ~> (\E c \in Owned : sock[c] = "ok")

=============================================================================
