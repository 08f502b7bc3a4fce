------------------------- MODULE SequentialSession -------------------------
(***************************************************************************)
(* What one client connection of the proxy promises, as spec.md section 5 *)
(* states it: a strictly sequential receive -> backend call -> respond      *)
(* cycle, with requests fully ordered.  Request N+1 is not taken, let alone *)
(* sent to a backend, until request N's reply has been written back; each  *)
(* request is sent to a backend at most once and answered at most once;   *)
(* the proxy may end the connection at any point, and while a request is   *)
(* outstanding it eventually answers it or ends the connection.            *)
(*                                                                         *)
(* Only the order is specified, so requests and replies are counted, not   *)
(* kept: nIn requests taken, nOut replies written, called the requests     *)
(* sent to a backend, ended once the connection is closed.                 *)
(***************************************************************************)
EXTENDS Naturals

VARIABLES nIn, nOut, called, ended

avars == <<nIn, nOut, called, ended>>

Init ==
  /\ nIn = 0
  /\ nOut = 0
  /\ called = {}
  /\ ended = FALSE

(* Take the next request, only once the previous one has its reply; the   *)
(* proxy may refuse it on arrival and end the connection.                 *)
Take ==
  /\ ~ended
  /\ nOut = nIn
  /\ nIn' = nIn + 1
  /\ ended' \in BOOLEAN
  /\ UNCHANGED <<nOut, called>>

(* Send the current request to a backend, once, before its reply; a       *)
(* failed call may end the connection.                                    *)
Call ==
  /\ ~ended
  /\ nOut < nIn
  /\ nIn \notin called
  /\ called' = called \cup {nIn}
  /\ ended' \in BOOLEAN
  /\ UNCHANGED <<nIn, nOut>>

(* Write the one reply to the current request. *)
Reply ==
  /\ ~ended
  /\ nOut < nIn
  /\ nOut' = nOut + 1
  /\ UNCHANGED <<nIn, called, ended>>

(* End the connection. *)
Stop ==
  /\ ~ended
  /\ ended' = TRUE
  /\ UNCHANGED <<nIn, nOut, called>>

Next == Take \/ Call \/ Reply \/ Stop

(* An outstanding request is eventually answered or the connection ended. *)
Serve == nOut < nIn /\ (Reply \/ Stop)

Spec == Init /\ [][Next]_avars /\ WF_avars(Serve)
=============================================================================
