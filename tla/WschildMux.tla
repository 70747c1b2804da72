----------------------------- MODULE WschildMux -----------------------------
(***************************************************************************)
(* The daemon of Wschild implements the multiplexer of Mux.                *)
(***************************************************************************)
EXTENDS Wschild

\* A session is the protocol its socket speaks; it is over once the socket is
\* closed.
phase == [c \in Clients |-> IF Open(c) THEN sk[c].proto
                            ELSE IF peer[c] = "gone" THEN "over" ELSE "idle"]

\* Any of the three flags of closing.
leaving == {c \in Clients :
               sk[c].flags \cap {"closing", "close", "close_on_write"} # {}}

out == [c \in Clients |-> sk[c].sendbuf]

Abstract == INSTANCE Mux WITH Cap <- SendCap, up <- sk[Backend].sendbuf,
                              heard <- known

\* Whatever buffers, lists, events, timers and peers do, clients and backend see
\* a multiplexer: the answer to the request first and nothing after a 400, one
\* close frame and no ping or pong behind it, every queue in order, messages to
\* the backend from upgraded clients only, data to clients it has heard of only,
\* and nothing for a session that is over.
ImplementsMux == Abstract!Spec

=============================================================================
