---------------------------- MODULE ClientSession ----------------------------
(***************************************************************************)
(* One client connection of the proxy (src/server/client.go): the loop of *)
(* clientHandler calls CmdReceive, CmdParse, NodeRoute, BackendProc and    *)
(* Response in turn, each returning at once unless `stage` names it, and  *)
(* any error closes the connection.  Routing is route.GetIndex and         *)
(* route.GetBackend over the backend registry, with the client's beCache   *)
(* and curIndex.  A backend's Proc is the environment: it returns a reply, *)
(* nil and no error (as MsetProc can), or an error.                        *)
(*                                                                         *)
(* The two directions of the TCP connection are two instances of Codec:   *)
(* the client writes whole requests with writeMsg and the session decodes  *)
(* them with readMsgFromReader; the session writes replies and the client  *)
(* decodes them.  The server's aspect hooks (postCommandReceiveHandler...) *)
(* return nil: the client is not closed inside the loop and no aspect is   *)
(* ever added (AddAspect appends only while the server is stopped).        *)
(***************************************************************************)
EXTENDS Integers, Sequences, SequencesExt, TLC

CONSTANTS
  Requests,     \* messages the client may write (any RESP a client can send)
  MaxReqs,      \* requests written on the connection
  Replies,      \* messages a backend's Proc may return
  CmdTable,     \* the keys of filter's cmdMap (upper case)
  PingCmd,      \* "PING"
  Registry,     \* route.BackendMap: index -> backend
  DefaultIndex, \* "default"
  None          \* nil backend

VARIABLES
  inWire, reqs, got, inErr,        \* client -> proxy stream (Codec instance)
  outWire, resps, replies, outErr, \* proxy -> client stream (Codec instance)
  pc,          \* the next call of clientHandler's loop, or "closed"
  stage,       \* Client.stage
  curReq,      \* Client.curReq
  args,        \* Client.args (byte strings)
  response,    \* Client.response (None = nil)
  backend,     \* Client.backend
  beCache,     \* Client.beCache: index -> backend
  curIndex,    \* Client.curIndex
  served,      \* per request read: the backend that served it and Proc's outcome
  hangup,      \* the client has closed its side of the connection
  listed       \* the client is in Server.clients

In == INSTANCE Codec WITH wire <- inWire, sent <- reqs, recv <- got, rerr <- inErr,
        Texts <- {}, Ints <- {}, Items <- {}, MaxLen <- 0, MaxWrites <- MaxReqs
Out == INSTANCE Codec WITH wire <- outWire, sent <- resps, recv <- replies, rerr <- outErr,
        Texts <- {}, Ints <- {}, Items <- {}, MaxLen <- 0, MaxWrites <- MaxReqs

inVars == <<inWire, reqs, got, inErr>>
outVars == <<outWire, resps, replies, outErr>>
sessVars == <<pc, stage, curReq, args, response, backend, beCache, curIndex, served>>
vars == <<inVars, outVars, sessVars, hangup, listed>>

(* Fixed texts of the error replies: one symbol each, as they hold no CR,  *)
(* LF or length the decoder looks at.                                      *)
UnknownCmdFmt == <<"ERR unknown command '">>
WrongArgsFmt == <<"ERR wrong number of arguments for '">>
WrongArgsEnd == <<"' command">>
EmptyResponse == In!NewErrorMsg(<<"Err empty response">>)
MsgPONG == In!NewSimpleStringMsg(<<"PONG">>)

Lower == <<"a","b","c","d","e","f","g","h","i","j","k","l","m",
           "n","o","p","q","r","s","t","u","v","w","x","y","z">>
Upper == <<"A","B","C","D","E","F","G","H","I","J","K","L","M",
           "N","O","P","Q","R","S","T","U","V","W","X","Y","Z">>
MapBytes(s, from, to) ==
  [i \in 1..Len(s) |-> IF \E j \in DOMAIN from : from[j] = s[i]
                       THEN to[CHOOSE j \in DOMAIN from : from[j] = s[i]] ELSE s[i]]
ToUpper(s) == MapBytes(s, Lower, Upper)
ToLower(s) == MapBytes(s, Upper, Lower)

(* Msg.IsBulkStringArray: an array (null or empty included) of bulk strings *)
IsBulkStringArray(m) ==
  m.mtype = "*" /\ \A i \in DOMAIN m.array : m.array[i].mtype = "$"

(* route.GetIndex: the lower-cased part before the first ':', else "default" *)
(* Msg.Args on a bulk-string array that is not null: the values in order *)
Args(m) == [i \in DOMAIN m.array |-> m.array[i].value]

(* filter.IsValidCmd: the command is a key of cmdMap *)
IsValidCmd(cmd) == cmd \in CmdTable

GetIndex(key) ==
  LET pos == SelectInSeq(key, LAMBDA b : b = ":")
  IN IF pos = 0 THEN DefaultIndex ELSE ToLower(SubSeq(key, 1, pos - 1))

(* NodeRoute's lookup: the current backend when the index is unchanged, *)
(* else beCache, else route.GetBackend (None when not registered).       *)
RouteReusesBackend(index) ==
  IF backend # None THEN backend
  ELSE IF index \in DOMAIN beCache THEN beCache[index]
  ELSE IF index \in DOMAIN Registry THEN Registry[index] ELSE None

Route(index) ==
  IF index = curIndex /\ backend # None THEN backend
  ELSE IF index \in DOMAIN beCache THEN beCache[index]
  ELSE IF index \in DOMAIN Registry THEN Registry[index] ELSE None

(* What backend.Proc may return: a reply, nil with no error, or an error. *)
Outcomes ==
  {[msg |-> r, err |-> FALSE] : r \in Replies} \cup
  {[msg |-> None, err |-> FALSE], [msg |-> None, err |-> TRUE]}

NotServed == [msg |-> None, err |-> FALSE, be |-> None, done |-> FALSE]

-----------------------------------------------------------------------------
Init ==
  /\ inWire = <<>> /\ reqs = <<>> /\ got = <<>> /\ inErr = FALSE
  /\ outWire = <<>> /\ resps = <<>> /\ replies = <<>> /\ outErr = FALSE
  /\ pc = "accept"
  /\ stage = "receive"
  /\ curReq = None
  /\ args = <<>>
  /\ response = None
  /\ backend = None
  /\ beCache = [i \in {} |-> None]
  /\ curIndex = <<>>
  /\ served = <<>>
  /\ hangup = FALSE
  /\ listed = FALSE

(* client.Close() after an error, in the deferred call of clientHandler *)
Close ==
  /\ pc' = "closed"
  /\ UNCHANGED <<stage, curReq, args, response, backend, beCache, curIndex, served>>

(* CmdReceive: block until a whole message is buffered; EOF once the     *)
(* client is gone; a malformed frame or a message that is not an array of *)
(* bulk strings (errInvalidRequest) ends the connection.                  *)
CmdReceive ==
  LET r == In!readMsgFromReader(inWire)
  IN /\ pc = "receive"
     /\ r.st # "more" \/ hangup
     /\ IF r.st = "ok"
          THEN /\ got' = Append(got, r.msg)
               /\ inWire' = r.rest
               /\ served' = Append(served, NotServed)
               /\ IF IsBulkStringArray(r.msg)
                    THEN /\ curReq' = r.msg
                         /\ stage' = "parse"
                         /\ pc' = "parse"
                    ELSE /\ pc' = "closed"
                         /\ UNCHANGED <<stage, curReq>>
               /\ UNCHANGED <<inErr, args, response, backend, beCache, curIndex>>
          ELSE /\ inErr' = (r.st = "err")
               /\ Close
               /\ UNCHANGED <<inWire, got>>
     /\ UNCHANGED <<reqs, outVars, hangup, listed>>

(* CmdParse (stage is always processParse here): Args fails on a null    *)
(* array, args[0] of an empty one panics and clientHandler's recover      *)
(* closes the client; an unknown command or PING is answered at once.     *)
CmdParse ==
  LET a == curReq.array
      cmd == ToUpper(a[1].value)
  IN /\ pc = "parse"
     /\ IF curReq.anil \/ a = <<>>
          THEN Close
          ELSE /\ args' = Args(curReq)
               /\ CASE ~IsValidCmd(cmd) ->
                        /\ response' = In!NewErrorMsg(UnknownCmdFmt \o cmd \o <<"'">>)
                        /\ stage' = "response"
                     [] cmd = PingCmd ->
                        /\ response' = MsgPONG
                        /\ stage' = "response"
                     [] OTHER ->
                        /\ stage' = "route"
                        /\ UNCHANGED response
               /\ pc' = "route"
               /\ UNCHANGED <<curReq, backend, beCache, curIndex, served>>
     /\ UNCHANGED <<inVars, outVars, hangup, listed>>

(* NodeRoute: fewer than 2 arguments is answered with an error; else the *)
(* backend of GetIndex(args[1]) from Route, cached in beCache; an index   *)
(* missing from the registry (GetBackend's error) closes the client.      *)
NodeRoute ==
  /\ pc = "route"
  /\ IF stage # "route"
       THEN /\ pc' = "backend"
            /\ UNCHANGED <<stage, curReq, args, response, backend, beCache, curIndex, served>>
       ELSE IF Len(args) < 2
       THEN /\ response' = In!NewErrorMsg(WrongArgsFmt \o ToUpper(args[1]) \o WrongArgsEnd)
            /\ stage' = "response"
            /\ pc' = "backend"
            /\ UNCHANGED <<curReq, args, backend, beCache, curIndex, served>>
       ELSE LET index == GetIndex(args[2])
                be == Route(index)
            IN IF be = None
               THEN Close
               ELSE /\ backend' = be
                    /\ beCache' = beCache @@ (index :> be)
                    /\ curIndex' = index
                    /\ stage' = "backend"
                    /\ pc' = "backend"
                    /\ UNCHANGED <<curReq, args, response, served>>
  /\ UNCHANGED <<inVars, outVars, hangup, listed>>

(* BackendProc: this.response, err = this.backend.Proc(this.curReq); an  *)
(* error closes the client without a reply.                               *)
BackendProc(out) ==
  /\ pc = "backend"
  /\ IF stage # "backend"
       THEN /\ pc' = "response"
            /\ UNCHANGED <<stage, response, served>>
       ELSE /\ served' = [served EXCEPT ![Len(served)] =
                                 [msg |-> out.msg, err |-> out.err, be |-> backend, done |-> TRUE]]
            /\ IF out.err
                 THEN /\ pc' = "closed"
                      /\ UNCHANGED <<stage, response>>
                 ELSE /\ response' = out.msg
                      /\ stage' = "response"
                      /\ pc' = "response"
  /\ UNCHANGED <<curReq, args, backend, beCache, curIndex, inVars, outVars, hangup, listed>>

\* mutant: the stage is not reset to processReceive, so the loop responds again
ResponseNoReset ==
  LET msg == IF response = None THEN EmptyResponse ELSE response
  IN /\ pc = "response"
     /\ response' = msg
     /\ UNCHANGED stage
     /\ \/ /\ Out!WriteMsg(msg)
           /\ pc' = "response"
        \/ /\ hangup
           /\ pc' = "closed"
           /\ UNCHANGED outVars
     /\ UNCHANGED <<curReq, args, backend, beCache, curIndex, served, inVars, hangup, listed>>

(* Response (stage is always processResponse here): a nil response       *)
(* becomes "Err empty response"; WriteMsg and Flush, which fail once the *)
(* client is gone; the stage returns to processReceive either way.       *)
Response ==
  LET msg == IF response = None THEN EmptyResponse ELSE response
  IN /\ pc = "response"
     /\ response' = msg
     /\ stage' = "receive"
     /\ \/ /\ Out!WriteMsg(msg)
           /\ pc' = "receive"
        \/ /\ hangup
           /\ pc' = "closed"
           /\ UNCHANGED outVars
     /\ UNCHANGED <<curReq, args, backend, beCache, curIndex, served, inVars, hangup, listed>>

(* Server.Run: Accept, NewClient (the server is never stopped: nothing   *)
(* calls Server.Close), addClient, go clientHandler, whose                 *)
(* postFrontConnectHandler passes.                                         *)
Accept ==
  /\ pc = "accept"
  /\ pc' = "receive"
  /\ listed' = TRUE
  /\ UNCHANGED <<inVars, outVars, stage, curReq, args, response, backend, beCache,
                 curIndex, served, hangup>>

(* A tick of Server.timerTask: clearClosedClients deletes the client once *)
(* closed, clearIdleClients once its last interaction is older than       *)
(* maxClientIdleTime, which can be the case while it waits for a request. *)
ClearClients(idle) ==
  /\ listed
  /\ idle => pc = "receive"
  /\ listed' = ~(pc = "closed" \/ idle)
  /\ UNCHANGED <<inVars, outVars, sessVars, hangup>>

(* The client: writes a whole request, reads a reply, or goes away. *)
ClientWrite(m) ==
  /\ ~hangup /\ pc # "closed"
  /\ In!WriteMsg(m)
  /\ UNCHANGED <<outVars, sessVars, hangup, listed>>

ClientRead ==
  /\ ~hangup
  /\ Out!ReadMsg
  /\ UNCHANGED <<inVars, sessVars, hangup, listed>>

Hangup ==
  /\ ~hangup
  /\ hangup' = TRUE
  /\ UNCHANGED <<inVars, outVars, sessVars, listed>>

(* The connection is closed and the client has read all it will get. *)
Done ==
  /\ pc = "closed"
  /\ hangup \/ Out!readMsgFromReader(outWire).st = "more"
  /\ UNCHANGED vars

Next ==
  \/ CmdReceive \/ CmdParse \/ NodeRoute
  \/ \E out \in Outcomes : BackendProc(out)
  \/ Response
  \/ \E m \in Requests : ClientWrite(m)
  \/ Accept \/ \E idle \in BOOLEAN : ClearClients(idle)
  \/ ClientRead \/ Hangup \/ Done

(* clientHandler's goroutine is runnable whenever its next call can      *)
(* complete (CmdReceive once a message or EOF is there), and the client   *)
(* reads what is sent to it.  The server accepts the pending connection   *)
(* and its timer task ticks every timerTaskInterval seconds, forever.     *)
Spec ==
  /\ Init /\ [][Next]_vars
  /\ WF_vars(CmdReceive) /\ WF_vars(CmdParse) /\ WF_vars(NodeRoute)
  /\ WF_vars(\E out \in Outcomes : BackendProc(out))
  /\ WF_vars(Response) /\ WF_vars(ClientRead)
  /\ WF_vars(Accept) /\ WF_vars(\E idle \in BOOLEAN : ClearClients(idle))
-----------------------------------------------------------------------------
TypeOK ==
  /\ pc \in {"accept", "receive", "parse", "route", "backend", "response", "closed"}
  /\ stage \in {"receive", "parse", "route", "backend", "response"}
  /\ Len(reqs) <= MaxReqs /\ Len(got) <= Len(reqs) /\ Len(served) = Len(got)
  /\ backend \in Range(Registry) \cup {None}
  /\ \A i \in 1..Len(replies) : Out!WellFormed(replies[i])

(* What the proxy owes the client for request req, given what the backend *)
(* did with it (s): the reply of the code's stage machine, read as one    *)
(* rule per request, or Dropped when the connection is closed instead.    *)
Dropped == "dropped"

Answer(req, s) ==
  LET a == req.array
      cmd == ToUpper(a[1].value)
  IN CASE ~IsBulkStringArray(req) \/ req.anil \/ a = <<>> -> Dropped
       [] ~IsValidCmd(cmd) -> In!NewErrorMsg(UnknownCmdFmt \o cmd \o <<"'">>)
       [] cmd = PingCmd -> MsgPONG
       [] Len(a) < 2 -> In!NewErrorMsg(WrongArgsFmt \o cmd \o WrongArgsEnd)
       [] GetIndex(a[2].value) \notin DOMAIN Registry \/ s.err -> Dropped
       [] s.msg = None -> EmptyResponse
       [] OTHER -> s.msg

(* Each request is answered in order: the client decodes, as its i-th    *)
(* reply, exactly the answer to its i-th request (through both codecs,    *)
(* the stage machine and the shared Client fields); every request Proc    *)
(* served went to the registry's backend for its key's index, whatever    *)
(* beCache and curIndex held from earlier requests; and the connection    *)
(* is closed only by the client going away or by a request it drops.      *)
RepliesAnswerRequests ==
  /\ Len(replies) <= Len(reqs)
  /\ \A i \in 1..Len(replies) : i <= Len(served) /\ replies[i] = Answer(reqs[i], served[i])
  /\ \A i \in 1..Len(served) :
        served[i].done =>
          LET index == GetIndex(got[i].array[2].value)
          IN index \in DOMAIN Registry /\ served[i].be = Registry[index]
  /\ pc = "closed" =>
        \/ hangup
        \/ Len(got) > 0 /\ Answer(got[Len(got)], served[Len(got)]) = Dropped

(* Replies are framed: the client decodes exactly the messages the proxy *)
(* wrote, in order, null bulk strings and null arrays kept apart from     *)
(* empty ones, and never fails to parse (decode(encode(m)) = m, spec 9).  *)
ReplyFramesPreserved == Out!FramesPreserved

(* Every request the client writes is eventually answered or the         *)
(* connection closed: no stage of the loop waits for what never comes,    *)
(* and the reader never waits for bytes of a reply the proxy wrote.       *)
AllAnswered ==
  \A i \in 1..MaxReqs : (Len(reqs) >= i) ~> (Len(replies) >= i \/ pc = "closed")


(* The loop keeps spec 5's ordering promise: read as counts, the requests *)
(* clientHandler has taken (got), the replies Response has written        *)
(* (resps), the requests Proc served and whether the client is closed     *)
(* behave as SequentialSession allows.  Request N+1 is not read before    *)
(* reply N is written, Proc is called at most once per request and before *)
(* its reply, no request gets two replies, and an outstanding request is  *)
(* eventually answered or the connection closed.                          *)
Sequential == INSTANCE SequentialSession
  WITH nIn <- Len(got),
       nOut <- Len(resps),
       called <- {i \in DOMAIN served : served[i].done},
       ended <- pc = "closed"

RequestsServedInTurn == Sequential!Spec
====
