------------------------- MODULE RedirectedRequest -------------------------
(***************************************************************************)
(* What the cluster backend promises for the requests of its clients, as  *)
(* spec.md section 4.4(b) and the redirect-bounding case of section 8     *)
(* state it.  A request is looked up in the slot table (an absent slot     *)
(* fails it at once); it is then sent, and every MOVED or ASK answer sends *)
(* it once more, to the node named.  It ends served, failed by a           *)
(* connection error, or, once the maximum number of redirects is used up,  *)
(* failed with the redirect error: with a maximum of 3 it fails on the    *)
(* 4th redirect, after exactly MaxHops = 4 sends, and is never sent again. *)
(* A request in flight is eventually answered one way or the other.       *)
(*                                                                         *)
(* Only the number of sends is specified, not where they go.  Clients are *)
(* independent: each step is a step of one client.                        *)
(***************************************************************************)
EXTENDS Naturals

CONSTANTS
    Clients,
    MaxHops,        \* sends a request may take: the redirect maximum + 1
    MaxRequests     \* requests each client makes

VARIABLES
    phase,          \* client -> "idle" or "fwd" (a request in flight)
    hops,           \* client -> sends of its current request
    outcome,        \* client -> how its last request ended ("none" before any)
    count           \* client -> requests ended

avars == <<phase, hops, outcome, count>>

Init ==
    /\ phase = [c \in Clients |-> "idle"]
    /\ hops = [c \in Clients |-> 0]
    /\ outcome = [c \in Clients |-> "none"]
    /\ count = [c \in Clients |-> 0]

Finish(c, r) ==
    /\ outcome' = [outcome EXCEPT ![c] = r]
    /\ phase' = [phase EXCEPT ![c] = "idle"]
    /\ count' = [count EXCEPT ![c] = @ + 1]

(* A new request whose slot the table maps to a node. *)
Start(c) ==
    /\ phase[c] = "idle"
    /\ count[c] < MaxRequests
    /\ phase' = [phase EXCEPT ![c] = "fwd"]
    /\ hops' = [hops EXCEPT ![c] = 0]
    /\ UNCHANGED <<outcome, count>>

(* A new request whose slot the table does not map. *)
NoRoute(c) ==
    /\ phase[c] = "idle"
    /\ count[c] < MaxRequests
    /\ hops' = [hops EXCEPT ![c] = 0]
    /\ Finish(c, "errSlot")

(* One more send that is answered with a redirect. *)
Redirected(c) ==
    /\ phase[c] = "fwd"
    /\ hops[c] < MaxHops
    /\ hops' = [hops EXCEPT ![c] = @ + 1]
    /\ UNCHANGED <<phase, outcome, count>>

(* One more send that is served. *)
Served(c) ==
    /\ phase[c] = "fwd"
    /\ hops[c] < MaxHops
    /\ hops' = [hops EXCEPT ![c] = @ + 1]
    /\ Finish(c, "ok")

(* A connection error before the request is sent again. *)
ConnFailed(c) ==
    /\ phase[c] = "fwd"
    /\ hops[c] < MaxHops
    /\ Finish(c, "errConn")
    /\ UNCHANGED hops

(* The redirects are used up: the request fails without another send. *)
GiveUp(c) ==
    /\ phase[c] = "fwd"
    /\ hops[c] = MaxHops
    /\ Finish(c, "errExceed")
    /\ UNCHANGED hops

(* A request in flight keeps being forwarded until it ends. *)
Forward(c) ==
    Redirected(c) \/ Served(c) \/ ConnFailed(c) \/ GiveUp(c)

Next == \E c \in Clients : Start(c) \/ NoRoute(c) \/ Forward(c)

Spec == Init /\ [][Next]_avars /\ \A c \in Clients : WF_avars(Forward(c))

=============================================================================
