-------------------------------- MODULE Mux --------------------------------
(***************************************************************************)
(* What the daemon promises its clients and the backend, without sockets,  *)
(* buffers to be filled, lists, events or timers.                          *)
(*                                                                         *)
(* Every client has one session: HTTP, then websocket, then over.  The     *)
(* daemon queues for a client the answer to its request and then frames;   *)
(* what is queued is delivered in that order or lost with the session.     *)
(* One queue goes to the backend, fed by the clients in websocket mode.    *)
(* Data of the backend goes only to clients the backend has heard of.      *)
(***************************************************************************)
EXTENDS Integers, Sequences

CONSTANTS
    Clients,    \* the peers that may connect
    Cap         \* the most frames queued for one receiver

VARIABLES
    phase,      \* of every client's session: idle, http, ws or over
    leaving,    \* clients whose session is being closed
    out,        \* what is queued for each client
    up,         \* the backend's queue: a client per message
    heard       \* clients the backend has received a message of

vars == <<phase, leaving, out, up, heard>>

Frames == {"101", "400", "data", "ping", "pong", "close"}

Init ==
    /\ phase = [c \in Clients |-> "idle"]
    /\ leaving = {}
    /\ out = [c \in Clients |-> <<>>]
    /\ up = <<>>
    /\ heard = {}

Accept(c) ==
    /\ phase[c] = "idle"
    /\ phase' = [phase EXCEPT ![c] = "http"]
    /\ UNCHANGED <<leaving, out, up, heard>>

\* f is queued for c.
Push(c, f) == /\ Len(out[c]) < Cap
              /\ out' = [out EXCEPT ![c] = Append(@, f)]

\* The first thing a client gets is the answer to its request.  After a 400 it
\* gets nothing else.
Upgrade(c) ==
    /\ phase[c] = "http" /\ c \notin leaving /\ out[c] = <<>>
    /\ phase' = [phase EXCEPT ![c] = "ws"]
    /\ Push(c, "101")
    /\ UNCHANGED <<leaving, up, heard>>

Reject(c) ==
    /\ phase[c] = "http" /\ c \notin leaving /\ out[c] = <<>>
    /\ leaving' = leaving \cup {c}
    /\ Push(c, "400")
    /\ UNCHANGED <<phase, up, heard>>

\* Control frames go to a client that is not being closed.  The close frame is
\* the last of them, and there is one.
Control(c) ==
    /\ phase[c] = "ws" /\ c \notin leaving
    /\ \/ \E f \in {"ping", "pong"} : Push(c, f) /\ UNCHANGED leaving
       \/ Push(c, "close") /\ leaving' = leaving \cup {c}
    /\ UNCHANGED <<phase, up, heard>>

\* The backend's data may still follow a close frame.
Down(c) ==
    /\ phase[c] = "ws" /\ c \in heard
    /\ Push(c, "data")
    /\ UNCHANGED <<phase, leaving, up, heard>>

Up(c) ==
    /\ phase[c] = "ws"
    /\ Len(up) < Cap
    /\ up' = Append(up, c)
    /\ UNCHANGED <<phase, leaving, out, heard>>

\* The receiver takes the first k.
Deliver(c) ==
    /\ \E k \in 1 .. Len(out[c]) :
          out' = [out EXCEPT ![c] = SubSeq(@, k + 1, Len(@))]
    /\ UNCHANGED <<phase, leaving, up, heard>>

DeliverUp ==
    /\ \E k \in 1 .. Len(up) : /\ up' = SubSeq(up, k + 1, Len(up))
                               /\ heard' = heard \cup {up[i] : i \in 1 .. k}
    /\ UNCHANGED <<phase, leaving, out>>

\* A session ends for good.
End(c) ==
    /\ phase[c] \in {"http", "ws"}
    /\ phase' = [phase EXCEPT ![c] = "over"]
    /\ leaving' = leaving \ {c}
    /\ out' = [out EXCEPT ![c] = <<>>]
    /\ UNCHANGED <<up, heard>>

\* The connection to the backend is lost, with what was queued for it.
LoseBackend ==
    /\ up' = <<>>
    /\ UNCHANGED <<phase, leaving, out, heard>>

Next == \/ \E c \in Clients : \/ Accept(c) \/ Upgrade(c) \/ Reject(c)
                              \/ Control(c) \/ Down(c) \/ Up(c)
                              \/ Deliver(c) \/ End(c)
        \/ DeliverUp \/ LoseBackend

Spec == Init /\ [][Next]_vars

=============================================================================
