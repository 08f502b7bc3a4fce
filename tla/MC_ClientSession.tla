------------------------- MODULE MC_ClientSession -------------------------
(* A client connection writing two requests, over a registry of two       *)
(* backends ("default" and "a"), with keys of each and of an unregistered *)
(* index, and backend replies of every shape the codec frames.            *)
EXTENDS ClientSession

CONSTANTS b1, b2

Bulk(t) == In!NewBulkStringMsg(t)
Cmd(elems) == In!Built([i \in DOMAIN elems |-> Bulk(elems[i])])

get == <<"g", "e", "t">>
ping == <<"p", "i", "n", "g">>
unknown == <<"x">>
injected == <<"x", In!CR, In!LF, "+">>
k == <<"k">>
ak == <<"A", ":", "k">>
bk == <<"b", ":", "k">>

MCDefault == <<"d", "e", "f", "a", "u", "l", "t">>
MCRegistry == (MCDefault :> b1) @@ (<<"a">> :> b2)
MCCmdTable == {<<"G", "E", "T">>, <<"P", "I", "N", "G">>}
MCPing == <<"P", "I", "N", "G">>

(* GET of each index, PING, an unknown command, GET without a key, and    *)
(* what no command parser accepts: an empty array, a null array, an       *)
(* integer.                                                               *)
MCRequests ==
  {Cmd(<<get, k>>), Cmd(<<get, ak>>), Cmd(<<get, bk>>), Cmd(<<ping>>),
   Cmd(<<unknown>>), Cmd(<<get>>),
   [In!NewArrayMsgNil EXCEPT !.anil = FALSE], In!NewArrayMsgNil, In!NewIntegerMsg(10)}

(* The unknown command name carries CR LF. *)
MCInjectRequests == {Cmd(<<injected>>)}

(* Replies of each type: an empty simple string, an error, integers,      *)
(* empty and null bulk strings, a null array, an array with a null        *)
(* element, and an array nested in another.                                *)
MCReplies ==
  {In!NewSimpleStringMsg(<<>>), In!NewErrorMsg(<<"-", "1">>), In!NewIntegerMsg(-1),
   Bulk(<<>>), Bulk(<<"-", "1">>), In!NullBulkString, In!NewArrayMsgNil,
   In!Built(<<In!NullBulkString, In!NewIntegerMsg(10)>>),
   In!AppendMsg(In!NewArrayMsgNil, In!Built(<<Bulk(<<"-", "1">>)>>))}
=============================================================================
