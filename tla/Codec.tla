------------------------------- MODULE Codec -------------------------------
(***************************************************************************)
(* The RESP wire codec of src/protocol: the Msg constructors of msg.go,    *)
(* writeMsg and readMsgFromReader of redis.go, and the integer formatting  *)
(* and parsing of utils/covert.go.  A byte is a one-character string and a *)
(* byte stream a sequence of them.                                         *)
(*                                                                         *)
(* The state machine is one connection: a goroutine writes messages built *)
(* by the constructors and AppendMsg (WriteMsg flushes a whole message),   *)
(* and the peer's reader decodes them one at a time off                    *)
(* the same stream.  When the bytes read so far end inside a message, the  *)
(* bufio reader blocks for more (ReadMsg is not enabled); a malformed      *)
(* frame is an error that ends the connection.                             *)
(***************************************************************************)
EXTENDS Integers, Sequences, SequencesExt

CONSTANTS
  Texts,       \* byte strings given to NewSimpleStringMsg, NewErrorMsg, NewBulkStringMsg
  Ints,        \* int64 values given to NewIntegerMsg
  Items,       \* messages AppendMsg may append to an array
  MaxLen,      \* bound on the length of an array under construction
  MaxWrites    \* bound on the messages written on the connection

CR == "\r"
LF == "\n"
Digit == <<"0", "1", "2", "3", "4", "5", "6", "7", "8", "9">>
DigitChars == Range(Digit)
DigitValue(d) == CHOOSE v \in 0..9 : Digit[v + 1] = d

(* MsgType constants of redis.go *)
t_simple_string == "+"
t_error == "-"
t_integer == ":"
t_bulk_string == "$"
t_array == "*"

(***************************************************************************)
(* A Msg: mtype, value and array as in the Go struct; vnil / anil say     *)
(* that value / array is the nil slice (a null bulk string, a null array,  *)
(* or the field a variant does not use).                                   *)
(***************************************************************************)
getMsg(mtype) ==
  [mtype |-> mtype, value |-> <<>>, vnil |-> TRUE, array |-> <<>>, anil |-> TRUE]

NewSimpleStringMsg(text) == [getMsg(t_simple_string) EXCEPT !.value = text, !.vnil = FALSE]
NewErrorMsg(text) == [getMsg(t_error) EXCEPT !.value = text, !.vnil = FALSE]
NewBulkStringMsg(b) == [getMsg(t_bulk_string) EXCEPT !.value = b, !.vnil = FALSE]
NullBulkString == getMsg(t_bulk_string)
NewArrayMsgNil == getMsg(t_array)

\* append to a nil slice allocates: the array is no longer null
AppendMsg(m, x) == [m EXCEPT !.array = Append(@, x), !.anil = FALSE]

(***************************************************************************)
(* utils.Int64ToString and utils.BytesToInt64 (the fast path for short     *)
(* inputs and strconv.ParseInt accept the same strings below 2^63).        *)
(***************************************************************************)
RECURSIVE Digits(_)
Digits(n) == IF n < 10 THEN <<Digit[n + 1]>>
             ELSE Digits(n \div 10) \o <<Digit[(n % 10) + 1]>>

Int64ToString(i) == IF i < 0 THEN <<"-">> \o Digits(-i) ELSE Digits(i)

NewIntegerMsg(n) == [getMsg(t_integer) EXCEPT !.value = Int64ToString(n), !.vnil = FALSE]

BytesToInt64(b) ==
  LET signed == b /= <<>> /\ b[1] \in {"-", "+"}
      ds == IF signed THEN Tail(b) ELSE b
      mag == FoldLeft(LAMBDA acc, d : acc * 10 + DigitValue(d), 0, ds)
  IN [ok |-> ds /= <<>> /\ \A j \in 1..Len(ds) : ds[j] \in DigitChars,
      n  |-> IF signed /\ b[1] = "-" THEN -mag ELSE mag]

(***************************************************************************)
(* Encoder: writeMsg and its helpers.                                      *)
(***************************************************************************)
writeBytesWithCRLF(value) == value \o <<CR, LF>>

writeInt(i) == writeBytesWithCRLF(Int64ToString(i))

\* mutant: the length line counts the CRLF terminator's first byte
writeBulkStringLenOffByOne(value, isNil) ==
  IF isNil THEN writeInt(-1)
  ELSE writeInt(Len(value) + 1) \o writeBytesWithCRLF(value)

writeBulkString(value, isNil) ==
  IF isNil THEN writeInt(-1)
  ELSE writeInt(Len(value)) \o writeBytesWithCRLF(value)

RECURSIVE writeMsg(_)
\* mutant: a nil array is written as an empty one
writeArrayNilAsEmpty(array, isNil) ==
  IF isNil THEN writeInt(0)
  ELSE writeInt(Len(array)) \o FoldLeft(LAMBDA acc, m : acc \o writeMsg(m), <<>>, array)

writeArray(array, isNil) ==
  IF isNil THEN writeInt(-1)
  ELSE writeInt(Len(array)) \o FoldLeft(LAMBDA acc, m : acc \o writeMsg(m), <<>>, array)

writeMsg(m) ==
  <<m.mtype>> \o
    CASE m.mtype \in {t_simple_string, t_integer, t_error} -> writeBytesWithCRLF(m.value)
      [] m.mtype = t_bulk_string -> writeBulkString(m.value, m.vnil)
      [] m.mtype = t_array -> writeArray(m.array, m.anil)

(***************************************************************************)
(* Decoder: readMsgFromReader and its helpers.  A result is "ok" with the  *)
(* message and the unread bytes, "more" when the stream ends inside the    *)
(* message (ReadBytes / ReadFull would block), or "err".                   *)
(***************************************************************************)
Ok(m, rest) == [st |-> "ok", msg |-> m, rest |-> rest]
Stop(st) == [st |-> st, msg |-> NullBulkString, rest |-> <<>>]

(* An intermediate result is bound once by a set former,                  *)
(* CHOOSE r \in {F(x) : x \in {e}} : TRUE, so that it is computed once     *)
(* even where TLC does not cache LET definitions (inside ENABLED).         *)

\* the line ends at the first LF (index i, 0 if none), which must follow CR
lineAt(s, i) ==
  CASE i = 0 -> [st |-> "more", buf |-> <<>>, rest |-> <<>>]
    [] i - 2 < 0 \/ s[i - 1] /= CR -> [st |-> "err", buf |-> <<>>, rest |-> <<>>]
    [] OTHER -> [st |-> "ok", buf |-> SubSeq(s, 1, i - 2), rest |-> SubSeq(s, i + 1, Len(s))]

readToCRLF(s) ==
  CHOOSE l \in {lineAt(s, i) : i \in {SelectInSeq(s, LAMBDA x : x = LF)}} : TRUE

\* mutant: an empty line leaves value nil, as getMsg made it
readGenericNilWhenEmpty(s, mtype) ==
  CHOOSE res \in {IF l.st /= "ok" THEN Stop(l.st)
                  ELSE Ok([getMsg(mtype) EXCEPT !.value = l.buf, !.vnil = (l.buf = <<>>)], l.rest)
                  : l \in {readToCRLF(s)}} : TRUE

readGeneric(s, mtype) ==
  CHOOSE res \in {IF l.st /= "ok" THEN Stop(l.st)
                  ELSE Ok([getMsg(mtype) EXCEPT !.value = l.buf, !.vnil = FALSE], l.rest)
                  : l \in {readToCRLF(s)}} : TRUE

\* mutant: waits for one byte more than the body and its CRLF
bulkBodyWaitsOneMore(l, p) ==
  LET n == p.n
      r == l.rest
  IN CASE l.st /= "ok" -> Stop(l.st)
       [] ~p.ok \/ n < -1 -> Stop("err")
       [] n = -1 -> Ok(NullBulkString, r)
       [] Len(r) < n + 3 -> Stop("more")
       [] r[n + 1] /= CR \/ r[n + 2] /= LF -> Stop("err")
       [] OTHER -> Ok(NewBulkStringMsg(SubSeq(r, 1, n)), SubSeq(r, n + 3, Len(r)))

\* readBulkStrings after its length line l, parsed as p
bulkBody(l, p) ==
  LET n == p.n
      r == l.rest
  IN CASE l.st /= "ok" -> Stop(l.st)
       [] ~p.ok \/ n < -1 -> Stop("err")
       [] n = -1 -> Ok(NullBulkString, r)
       [] Len(r) < n + 2 -> Stop("more")
       [] r[n + 1] /= CR \/ r[n + 2] /= LF -> Stop("err")
       [] OTHER -> Ok(NewBulkStringMsg(SubSeq(r, 1, n)), SubSeq(r, n + 3, Len(r)))

readBulkStrings(s) ==
  CHOOSE res \in {bulkBody(l, BytesToInt64(l.buf)) : l \in {readToCRLF(s)}} : TRUE

RECURSIVE readMsgFromReader(_), readElems(_, _, _), nextElem(_, _, _), arrayBody(_, _)

\* readArray after its count line l, parsed as p
arrayBody(l, p) ==
  CASE l.st /= "ok" -> Stop(l.st)
    [] ~p.ok \/ p.n < -1 -> Stop("err")
    [] p.n = -1 -> Ok(NewArrayMsgNil, l.rest)
    [] OTHER -> readElems(l.rest, p.n, <<>>)

readArray(s) ==
  CHOOSE res \in {arrayBody(l, BytesToInt64(l.buf)) : l \in {readToCRLF(s)}} : TRUE

\* one turn of the loop of readArray: stop on an error, else store the element
nextElem(e, k, acc) ==
  IF e.st /= "ok" THEN e ELSE readElems(e.rest, k - 1, Append(acc, e.msg))

\* the loop of readArray: msgArray = make([]*Msg, msgLen), filled in order
readElems(s, k, acc) ==
  IF k = 0 THEN Ok([getMsg(t_array) EXCEPT !.array = acc, !.anil = FALSE], s)
  ELSE CHOOSE r \in {nextElem(e, k, acc) : e \in {readMsgFromReader(s)}} : TRUE

readMsgFromReader(s) ==
  IF s = <<>> THEN Stop("more")
  ELSE CASE Head(s) \in {t_simple_string, t_integer, t_error} -> readGeneric(Tail(s), Head(s))
         [] Head(s) = t_bulk_string -> readBulkStrings(Tail(s))
         [] Head(s) = t_array -> readArray(Tail(s))
         [] OTHER -> Stop("err")
-----------------------------------------------------------------------------
(***************************************************************************)
(* One connection: the writer's message under construction, the bytes     *)
(* flushed and not yet consumed by the reader, what was written and what  *)
(* was read, and whether the reader failed.                                *)
(***************************************************************************)
VARIABLES wire, sent, recv, rerr
vars == <<wire, sent, recv, rerr>>

Scalars ==
  {NewSimpleStringMsg(t) : t \in Texts} \cup {NewErrorMsg(t) : t \in Texts}
    \cup {NewIntegerMsg(n) : n \in Ints}
    \cup {NewBulkStringMsg(t) : t \in Texts} \cup {NullBulkString}

\* NewArrayMsg(nil) followed by AppendMsg of each element, as in process.go
Built(elems) == FoldLeft(AppendMsg, NewArrayMsgNil, elems)

Arrays == {Built(e) : e \in BoundedSeq(Items, MaxLen) \ {<<>>}}

\* the messages a goroutine can construct: scalars, NewArrayMsg(nil), arrays
\* of up to MaxLen items, and such an array wrapped as the first element of
\* another (NewArrayMsg(nil).AppendMsg(arr))
Constructible ==
  Scalars \cup {NewArrayMsgNil} \cup Arrays \cup {AppendMsg(NewArrayMsgNil, a) : a \in Arrays}

Init ==
  /\ wire = <<>>
  /\ sent = <<>>
  /\ recv = <<>>
  /\ rerr = FALSE

\* Msg.WriteMsg: writeMsg into the bufio.Writer, then Flush
WriteMsg(m) ==
  /\ Len(sent) < MaxWrites
  /\ wire' = wire \o writeMsg(m)
  /\ sent' = Append(sent, m)
  /\ UNCHANGED <<recv, rerr>>

\* NewMsgFromReader on the peer: one message off the stream, or an error
ReadMsg ==
  LET r == readMsgFromReader(wire)
  IN /\ ~rerr
     /\ r.st /= "more"
     /\ IF r.st = "ok"
          THEN /\ recv' = Append(recv, r.msg)
               /\ wire' = r.rest
               /\ UNCHANGED rerr
          ELSE /\ rerr' = TRUE
               /\ UNCHANGED <<wire, recv>>
     /\ UNCHANGED sent

\* the writer has written its messages and the reader has nothing to read
Idle ==
  /\ Len(sent) = MaxWrites
  /\ rerr \/ readMsgFromReader(wire).st = "more"
  /\ UNCHANGED vars

Next == (\E m \in Constructible : WriteMsg(m)) \/ ReadMsg \/ Idle

\* the reader goroutine is blocked in Read whenever bytes are pending
Spec == Init /\ [][Next]_vars /\ WF_vars(ReadMsg)

-----------------------------------------------------------------------------
ByteSet == {CR, LF, t_simple_string, t_error, t_integer, t_bulk_string, t_array}
             \cup DigitChars \cup UNION {Range(t) : t \in Texts}

(* Type invariant.  Besides the shapes of the state, a decoded simple     *)
(* string, error or integer always carries a non-nil value: GetSimpleString, *)
(* GetError and GetValueBytes report ErrorUncompletedMsg on a nil value.   *)
WellFormed(m) ==
  /\ m.mtype \in {t_simple_string, t_error, t_integer, t_bulk_string, t_array}
  /\ m.mtype \in {t_simple_string, t_error, t_integer} => ~m.vnil
  /\ m.mtype /= t_array => m.anil /\ m.array = <<>>

TypeOK ==
  /\ wire \in Seq(ByteSet)
  /\ rerr \in BOOLEAN
  /\ Len(sent) <= MaxWrites
  /\ \A i \in 1..Len(recv) : WellFormed(recv[i])

(* Framing: every message the reader takes off the stream is the message  *)
(* written at that position, with null bulk strings and null arrays kept  *)
(* apart from empty ones, and the reader never fails on what writeMsg      *)
(* wrote (spec 9: decode(encode(m)) = m, here over a pipelined stream).    *)
FramesPreserved ==
  /\ ~rerr
  /\ Len(recv) <= Len(sent)
  /\ recv = SubSeq(sent, 1, Len(recv))

(* Every message written is eventually decoded: the reader never waits    *)
(* for bytes the writer will not send.                                     *)
AllRead == \A i \in 1..MaxWrites : (Len(sent) >= i) ~> (Len(recv) >= i \/ rerr)
=============================================================================
