------------------------------ MODULE Wschild ------------------------------
(***************************************************************************)
(* The wsd daemon: one thread, one epoll loop (event_loop), any number of  *)
(* websocket clients and the single backend socket pp2sk onto which their  *)
(* frames are multiplexed.                                                 *)
(*                                                                         *)
(* Every iteration of the loop takes the sockets of work_list through      *)
(* their protocol (try_recv), then the open sockets through the timeouts   *)
(* (check_timeouts), and then serves one batch of epoll events.  The       *)
(* clients, the backend and the kernel act between any two steps of it.    *)
(*                                                                         *)
(* Abstraction.  A buffer is a sequence of tokens: one per HTTP request,   *)
(* websocket frame or PROXY v2 message, of one unit of buffer space each.  *)
(* Frames are those with a 7-bit length; backend messages are not empty.   *)
(* Clocks are abstracted to "has this timestamp been set": a timeout whose *)
(* timestamp is set may or may not have expired.                           *)
(***************************************************************************)
EXTENDS Integers, Sequences, FiniteSets, SequencesExt

CONSTANTS
    Clients,        \* the peers that may connect, each one once
    Backend,        \* the socket pp2sk
    Listener,       \* the listening socket lsk
    Freed,          \* a list node whose memory has been freed
    NULL,           \* no socket
    ClientToks,     \* what clients send, a subset of HttpToks and WsToks
    BackendFrags,   \* the incomplete messages a read from the backend may end in
    SendCap,        \* room in a sendbuf, in tokens
    RecvCap,        \* room in a recvbuf, in tokens
    NetCap,         \* bound: tokens in flight towards one socket
    FhostnameNum,   \* number of forwarding hosts, wsd_cfg->fhostname_num
    MaxSk,          \* descriptors left for accepted sockets
    IdleTimeout,    \* is -i given?
    PingInterval,   \* is -n given?
    Booted          \* has CLOCK_MONOTONIC passed closing_handshake_timeout?

Sockets == Clients \cup {Backend}

\* Requests http_recv accepts, answers with a 400 and fails to tokenise, and
\* one whose terminating blank line has not arrived.
HttpToks == {"req", "badreq", "badtok", "frag"}

\* Websocket frames: by opcode (a trailing p marks a control or unknown frame
\* that carries a payload), one that violates section 5.2, one not yet complete.
WsToks == {"data", "close", "ping", "pingp", "pong", "pongp", "unknown",
           "unknownp", "bad", "frag"}

\* What a recvbuf holds.  "hdr" is at most a PROXY header, "frag" a message
\* short of payload, a client a whole message for it, and "raw" the payload of
\* a frame whose header has been consumed.
Partial == {"hdr", "frag"}
RecvToks == Clients \cup HttpToks \cup WsToks \cup Partial \cup {"raw"}

\* What a sendbuf holds; the backend's holds a client per message from it.
SentToks == Clients \cup {"101", "400", "data", "ping", "pong", "close"}

Protos == {"free", "http", "ws", "pp2"}
Events == {"IN", "OUT"}
Flags == {"closing", "close", "close_on_write",
          "ts_last_io", "ts_closing_handshake_start"}
Peers == {"none", "syn", "up", "fin", "refused", "gone"}
Halted == {"stopped", "exit", "ub"}
PCs == {"loop", "try_recv", "decode", "check_timeouts", "epoll_wait",
        "events", "shutdown"} \cup Halted

ASSUME SocketsAssumption ==
    /\ IsFiniteSet(Clients)
    /\ Backend \notin Clients
    /\ {Listener, Freed, NULL} \cap Sockets = {}
    /\ Freed # Listener /\ Freed # NULL /\ Listener # NULL
    /\ Clients \cap (HttpToks \cup WsToks \cup Partial \cup {"raw"}) = {}

ASSUME CapsAssumption ==
    /\ SendCap \in Nat \ {0}
    /\ RecvCap \in Nat \ {0}
    /\ NetCap \in Nat \ {0}
    /\ FhostnameNum \in Nat \ {0}
    /\ MaxSk \in Nat

ASSUME InputsAssumption ==
    /\ ClientToks \subseteq HttpToks \cup WsToks
    /\ BackendFrags \subseteq Partial

VARIABLES
    sk,         \* the sk_t of every socket; proto "free" when it does not exist
    work_list,  \* sockets with input pending
    pc,         \* where the daemon is
    todo,       \* what the running loop over a list or a batch still visits
    cur,        \* the socket whose frames are being decoded
    frames,     \* has this recv decoded a frame?
    num,        \* index of the current forwarding host
    net,        \* input the kernel holds for a socket
    peer,       \* the other end of a socket's connection
    known       \* clients whose messages have reached the backend

daemon == <<sk, work_list, pc, todo, cur, frames, num>>
vars == <<daemon, net, peer, known>>

Sk == [proto : Protos, events : SUBSET Events, flags : SUBSET Flags,
       retries : 0 .. FhostnameNum,
       sendbuf : Seq(SentToks), recvbuf : Seq(RecvToks)]

-----------------------------------------------------------------------------
(* Socket records                                                          *)

\* memset and sk_init: a new socket is watched for input and has no flags.
SkInit(p) == [proto |-> p, events |-> {"IN"}, flags |-> {}, retries |-> 0,
              sendbuf |-> <<>>, recvbuf |-> <<>>]

SkDestroyed == [proto |-> "free", events |-> {}, flags |-> {}, retries |-> 0,
                sendbuf |-> <<>>, recvbuf |-> <<>>]

\* Members of sk_list, the clients among them also of sk_hash.
Open(s) == sk[s].proto # "free"
sk_list == {s \in Sockets : Open(s)}

turn_on_events(r, e) == [r EXCEPT !.events = @ \cup e]
turn_off_events(r, e) == [r EXCEPT !.events = @ \ e]
Flag(r, f) == [r EXCEPT !.flags = @ \cup f]
ts_last_io_set(r) == Flag(r, {"ts_last_io"})

\* Room for one more frame in sendbuf.
Fits(r) == Len(r.sendbuf) < SendCap

\* Append a frame to sendbuf and watch for writability.
Queue(r, t) == turn_on_events([r EXCEPT !.sendbuf = Append(@, t)], {"OUT"})

\* New input completes the fragment a buffer ends in.
Join(b, q) == IF b # <<>> /\ q # <<>> /\ Last(b) \in Partial
              THEN Front(b) \o q
              ELSE b \o q

\* A recv on this socket would process the head of its recvbuf.
Decodable(r) == r.recvbuf # <<>> /\ Head(r.recvbuf) \notin Partial \cup {"raw"}

Init ==
    /\ sk = [s \in Sockets |-> SkDestroyed]
    /\ work_list = {}
    /\ pc = "loop"
    /\ todo = {}
    /\ cur = NULL
    /\ frames = FALSE
    /\ num = 0
    /\ net = [s \in Sockets |-> <<>>]
    /\ peer = [s \in Sockets |-> "none"]
    /\ known = {}

-----------------------------------------------------------------------------
(* Closing sockets                                                         *)

\* Mutation of sk_close: the socket stays in work_list.
M_sk_close(skv, c, wl, next) ==
    /\ sk' = [skv EXCEPT ![c] = SkDestroyed]
    /\ work_list' = wl
    /\ pc' = IF Freed \in wl THEN "ub" ELSE next
    /\ peer' = [peer EXCEPT ![c] = "gone"]
    /\ net' = [net EXCEPT ![c] = <<>>]

\* sk_close: unlink from sk_list, sk_hash and work_list, free.  The walk over
\* the work_list dereferences every node of it.
sk_close(skv, c, wl, next) ==
    /\ sk' = [skv EXCEPT ![c] = SkDestroyed]
    /\ work_list' = wl \ {c}
    /\ pc' = IF Freed \in wl THEN "ub" ELSE next
    /\ peer' = [peer EXCEPT ![c] = "gone"]
    /\ net' = [net EXCEPT ![c] = <<>>]

\* pp2_close unlinks from sk_list only: a node in work_list is left dangling.
pp2_close(skv, wl, next) ==
    /\ sk' = [skv EXCEPT ![Backend] = SkDestroyed]
    /\ work_list' = IF Backend \in wl THEN (wl \ {Backend}) \cup {Freed} ELSE wl
    /\ pc' = next
    /\ peer' = [peer EXCEPT ![Backend] = "none"]
    /\ net' = [net EXCEPT ![Backend] = <<>>]

\* ops->close
Close(skv, s, wl, next) ==
    IF s = Backend THEN pp2_close(skv, wl, next) ELSE sk_close(skv, s, wl, next)

\* A step that updates sockets only and goes on at next.
Keep(skv, wl, next) ==
    /\ sk' = skv
    /\ work_list' = wl
    /\ pc' = next
    /\ UNCHANGED <<peer, net>>

\* A failed A, AN or AZ, or SIGPIPE: the process is gone.
Exit == Keep(sk, work_list, "exit")

\* A read or call through a freed or NULL pointer.
Undefined == Keep(sk, work_list, "ub")

-----------------------------------------------------------------------------
(* try_recv                                                                *)

\* One step of the loop over todo is done with s.
Visited(s) == /\ todo' = todo \ {s}
              /\ UNCHANGED <<num, known>>

\* Mutation of TryRecvReturn: a socket that must try again is forgotten.
M_TryRecvReturn(skv, s, rv) ==
    /\ todo' = todo \ {s}
    /\ cur' = NULL
    /\ frames' = FALSE
    /\ IF rv \in {"ok", "EINPUT", "EAGAIN"} \/ "close_on_write" \in skv[s].flags
       THEN Keep(skv, work_list \ {s}, "try_recv")
       ELSE Close(skv, s, work_list \ {s}, "try_recv")

\* What try_recv does with the result rv of recv on s, which left the sockets
\* at skv.
TryRecvReturn(skv, s, rv) ==
    /\ todo' = todo \ {s}
    /\ cur' = NULL
    /\ frames' = FALSE
    /\ IF rv \in {"ok", "EINPUT"} THEN Keep(skv, work_list \ {s}, "try_recv")
       ELSE IF rv = "EAGAIN" THEN Keep(skv, work_list, "try_recv")
       ELSE IF "close_on_write" \in skv[s].flags
            THEN Keep(skv, work_list \ {s}, "try_recv")
            ELSE Close(skv, s, work_list \ {s}, "try_recv")

\* The walk over the work_list reaches a freed node.
TryRecvFreed ==
    /\ pc = "try_recv"
    /\ Freed \in todo
    /\ Undefined
    /\ UNCHANGED <<todo, cur, frames, num, known>>

\* try_recv reaches the socket s.
TryRecv(s) ==
    /\ pc = "try_recv"
    /\ s \in todo
    /\ Open(s)

\* AN(skb_rdsz(sk->recvbuf)), the first line of every recv.
RecvNothing(s) ==
    /\ TryRecv(s)
    /\ sk[s].recvbuf = <<>>
    /\ Exit
    /\ UNCHANGED <<todo, cur, frames, num, known>>

-----------------------------------------------------------------------------
(* http_recv and ws_decode_handshake: one call, one step                    *)

HttpRecv(s) ==
    /\ TryRecv(s)
    /\ sk[s].proto = "http"
    /\ sk[s].recvbuf # <<>>

\* No blank line yet.
HttpIncomplete(s) ==
    /\ HttpRecv(s)
    /\ Head(sk[s].recvbuf) = "frag"
    /\ TryRecvReturn(sk, s, "EINPUT")
    /\ UNCHANGED <<num, known>>

\* A valid request: 101, and switch into websocket mode.
ws_decode_handshake(r) ==
    Queue([r EXCEPT !.proto = "ws", !.recvbuf = <<>>], "101")

HttpUpgrade(s) ==
    /\ HttpRecv(s)
    /\ Head(sk[s].recvbuf) = "req"
    /\ TryRecvReturn([sk EXCEPT ![s] = ws_decode_handshake(@)], s, "ok")
    /\ UNCHANGED <<num, known>>

\* Mutation of BadRequest: still watched for input.
M_BadRequest(r) ==
    Queue(Flag([r EXCEPT !.recvbuf = <<>>], {"close_on_write"}), "400")

\* An invalid request: 400 (or 500), and close once it is written.
BadRequest(r) ==
    turn_off_events(
        Queue(Flag([r EXCEPT !.recvbuf = <<>>], {"close_on_write"}), "400"),
        {"IN"})

HttpReject(s) ==
    /\ HttpRecv(s)
    /\ Head(sk[s].recvbuf) = "badreq"
    /\ TryRecvReturn([sk EXCEPT ![s] = BadRequest(@)], s, "fatal")
    /\ UNCHANGED <<num, known>>

\* http_header_tok fails: no answer is queued.
HttpGarbled(s) ==
    /\ HttpRecv(s)
    /\ Head(sk[s].recvbuf) = "badtok"
    /\ TryRecvReturn([sk EXCEPT ![s].recvbuf = <<>>], s, "fatal")
    /\ UNCHANGED <<num, known>>

-----------------------------------------------------------------------------
(* ws_recv                                                                 *)

\* The frame loop of ws_recv or pp2_recv starts on s.
StartDecoding(s) ==
    /\ pc' = "decode"
    /\ cur' = s
    /\ frames' = FALSE
    /\ UNCHANGED <<todo, work_list, net, known>>

WsRecv(s) ==
    /\ TryRecv(s)
    /\ sk[s].proto = "ws"
    /\ sk[s].recvbuf # <<>>

\* pp2sk is there.
WsRecvStart(s) ==
    /\ WsRecv(s)
    /\ Open(Backend)
    /\ StartDecoding(s)
    /\ UNCHANGED <<sk, num, peer>>

\* Mutation of next_host: no wrap-around.
M_next_host(k) == num + k

\* The forwarding host after k calls of next_host.
next_host(k) == (num + k) % FhostnameNum

\* pp2sk is NULL: sk_open, moving to the next host while names do not resolve.
SkOpen(s) ==
    /\ WsRecv(s)
    /\ ~Open(Backend)
    /\ \E k \in 0 .. FhostnameNum - 1 : num' = next_host(k)
    /\ sk' = [sk EXCEPT ![Backend] = SkInit("pp2")]
    /\ peer' = [peer EXCEPT ![Backend] = "syn"]
    /\ StartDecoding(s)

\* No name resolves, or socket or connect fails: the client is closed.
SkOpenFails(s) ==
    /\ WsRecv(s)
    /\ ~Open(Backend)
    /\ \E k \in 0 .. FhostnameNum : num' = next_host(k)
    /\ TryRecvReturn(sk, s, "fatal")
    /\ UNCHANGED known

\* Mutation of WsRecvTail: the backend's output is not announced.
M_WsRecvTail(skv) ==
    LET c == skv[cur]
    IN  [skv EXCEPT ![cur] =
            IF "close_on_write" \in c.flags
            THEN turn_on_events(turn_off_events(c, {"IN"}), {"OUT"})
            ELSE IF "close" \in c.flags THEN turn_off_events(c, {"IN"}) ELSE c]

\* The end of ws_recv, once decode_frame has failed.
WsRecvTail(skv) ==
    LET c == skv[cur]
        b == skv[Backend]
        in == IF frames /\ "close_on_write" \in c.flags
              THEN turn_on_events(c, {"IN"}) ELSE c
        off == IF c.flags \cap {"close", "close_on_write"} # {}
               THEN turn_off_events(in, {"IN"}) ELSE in
        out == IF "close_on_write" \in c.flags
               THEN turn_on_events(off, {"OUT"}) ELSE off
    IN  [skv EXCEPT ![cur] = out,
                    ![Backend] = IF frames /\ b.sendbuf # <<>>
                                 THEN turn_on_events(b, {"OUT"}) ELSE b]

WsReturn(skv, rv) ==
    /\ TryRecvReturn(WsRecvTail(skv), cur, rv)
    /\ UNCHANGED <<num, known>>

\* decode_frame returned 0 and left the sockets at skv.
Decoded(skv) ==
    /\ sk' = skv
    /\ frames' = TRUE
    /\ UNCHANGED <<work_list, pc, todo, cur, num, net, peer, known>>

\* ws_decode_frame finds the frame t at the head of recvbuf.  Leftover payload
\* reads as whatever its bytes happen to say, up to where it ends.
WsDecode(t) ==
    /\ pc = "decode"
    /\ sk[cur].proto = "ws"
    /\ sk[cur].recvbuf # <<>>
    /\ LET h == Head(sk[cur].recvbuf)
       IN  t = h \/ (h = "raw" /\ t \in WsToks \ {"pingp", "pongp", "unknownp"})

\* Mutation of Consume: rdpos goes back to the header.
M_Consume(r, t) == r

\* A control or unknown frame: its header is consumed, its payload is not.
Consume(r, t) ==
    [r EXCEPT !.recvbuf =
        (IF t \in {"pingp", "pongp", "unknownp"} THEN <<"raw">> ELSE <<>>) \o Tail(@)]

\* No frame, or not all of it: rdpos is where it was.
WsIncomplete ==
    /\ pc = "decode"
    /\ sk[cur].proto = "ws"
    /\ sk[cur].recvbuf = <<>> \/ WsDecode("frag")
    /\ WsReturn(sk, "EINPUT")

\* A reserved bit, or no mask.
WsBad ==
    /\ WsDecode("bad")
    /\ WsReturn(sk, "fatal")

\* pp2_encode_frame queues the frame for the backend.
PP2Encode ==
    /\ WsDecode("data")
    /\ Fits(sk[Backend])
    /\ Decoded([sk EXCEPT ![cur].recvbuf = Tail(@),
                          ![Backend].sendbuf = Append(@, cur)])

\* pp2_encode_frame finds no room: rdpos is behind the header and stays there.
PP2EncodeAgain ==
    /\ WsDecode("data")
    /\ ~Fits(sk[Backend])
    /\ \E rest \in {<<"raw">>, <<>>} :
          WsReturn([sk EXCEPT ![cur].recvbuf = rest \o Tail(@)], "EAGAIN")

\* ws_finish_closing_handshake: the reply to our close frame.
FinishClosingHandshake ==
    /\ WsDecode("close")
    /\ "closing" \in sk[cur].flags
    /\ Decoded([sk EXCEPT ![cur].recvbuf = <<>>,
                          ![cur].flags = (@ \ {"closing"}) \cup {"close"}])

\* ws_finish_closing_handshake: the peer closes; reply and close once written.
ReplyClose(r) ==
    [Flag(r, {"close_on_write", "closing"}) EXCEPT
        !.recvbuf = <<>>, !.sendbuf = Append(@, "close")]

WsClose ==
    /\ WsDecode("close")
    /\ "closing" \notin sk[cur].flags
    /\ IF Fits(sk[cur])
       THEN Decoded([sk EXCEPT ![cur] = ReplyClose(@)])
       ELSE WsReturn([sk EXCEPT ![cur].recvbuf = <<>>], "fatal")

\* encode_ping_pong_frame and encode_close_frame, with the events.
ws_pong(r) == Queue(r, "pong")
ws_ping(r) == Queue(r, "ping")
ws_start_closing_handshake(r) == Queue(Flag(r, {"closing"}), "close")

\* ws_pong opens with AZ(sk->closing).
WsPing(t) ==
    /\ t \in {"ping", "pingp"}
    /\ WsDecode(t)
    /\ IF "closing" \in sk[cur].flags
       THEN Exit /\ UNCHANGED <<todo, cur, frames, num, known>>
       ELSE LET r == Consume(sk[cur], t)
            IN  IF Fits(r)
                THEN Decoded([sk EXCEPT ![cur] = ws_pong(r)])
                ELSE WsReturn([sk EXCEPT ![cur] = r], "fatal")

WsPong(t) ==
    /\ t \in {"pong", "pongp"}
    /\ WsDecode(t)
    /\ Decoded([sk EXCEPT ![cur] = Consume(@, t)])

\* ws_start_closing_handshake opens with AZ(sk->closing).
WsUnknown(t) ==
    /\ t \in {"unknown", "unknownp"}
    /\ WsDecode(t)
    /\ IF "closing" \in sk[cur].flags
       THEN Exit /\ UNCHANGED <<todo, cur, frames, num, known>>
       ELSE LET r == Consume(sk[cur], t)
            IN  IF Fits(r)
                THEN Decoded([sk EXCEPT ![cur] = ws_start_closing_handshake(r)])
                ELSE WsReturn([sk EXCEPT ![cur] = r], "fatal")

-----------------------------------------------------------------------------
(* pp2_recv                                                                *)

PP2RecvStart ==
    /\ TryRecv(Backend)
    /\ sk[Backend].recvbuf # <<>>
    /\ StartDecoding(Backend)
    /\ UNCHANGED <<sk, num, peer>>

PP2Return(skv, rv) ==
    /\ TryRecvReturn(skv, Backend, rv)
    /\ UNCHANGED <<num, known>>

PP2Decode ==
    /\ pc = "decode"
    /\ cur = Backend

\* Up to PP2_HEADER_LEN bytes of anything.
PP2Incomplete ==
    /\ PP2Decode
    /\ sk[Backend].recvbuf \in {<<>>, <<"hdr">>, <<"raw">>, <<"raw", "hdr">>}
    /\ PP2Return(sk, "EINPUT")

\* A header whose payload has not all arrived: the socket stays in work_list.
PP2Again ==
    /\ PP2Decode
    /\ sk[Backend].recvbuf # <<>>
    /\ Head(sk[Backend].recvbuf) = "frag"
    /\ PP2Return(sk, "EAGAIN")

\* More than PP2_HEADER_LEN bytes, and no signature: payload is taken not to
\* start like a header.
PP2Garbled ==
    /\ PP2Decode
    /\ sk[Backend].recvbuf # <<>>
    /\ Head(sk[Backend].recvbuf) = "raw"
    /\ PP2Return(sk, "fatal")

\* Mutation of PP2Message: whose message it is is not looked at.
M_PP2Message(d) ==
    /\ PP2Decode
    /\ sk[Backend].recvbuf # <<>>
    /\ Head(sk[Backend].recvbuf) \in Clients

\* A whole message for the client d is at the head of recvbuf.
PP2Message(d) ==
    /\ PP2Decode
    /\ sk[Backend].recvbuf # <<>>
    /\ Head(sk[Backend].recvbuf) = d

\* d is not in sk_hash.
PP2Drop(d) ==
    /\ PP2Message(d)
    /\ ~Open(d)
    /\ Decoded([sk EXCEPT ![Backend].recvbuf = Tail(@)])

\* ws_encode_frame, for the client's record r and the backend's record b.
ws_encode_frame(r, b) ==
    IF "IN" \in b.events THEN Queue(r, "data")
                         ELSE turn_on_events(Queue(r, "data"), {"IN"})

\* encode_frame is NULL before the handshake.
PP2Forward(d) ==
    /\ PP2Message(d)
    /\ Open(d)
    /\ IF sk[d].proto # "ws"
       THEN Undefined /\ UNCHANGED <<todo, cur, frames, num, known>>
       ELSE IF Fits(sk[d])
       THEN Decoded([sk EXCEPT ![Backend].recvbuf = Tail(@),
                               ![d] = ws_encode_frame(@, sk[Backend])])
       ELSE PP2Return([sk EXCEPT ![Backend].recvbuf = <<"raw">> \o Tail(@)],
                      "EAGAIN")

-----------------------------------------------------------------------------
(* check_timeouts                                                          *)

CheckTimeouts(s) ==
    /\ pc = "check_timeouts"
    /\ s \in todo
    /\ Visited(s)
    /\ UNCHANGED <<cur, frames>>

\* Mutation of check_timeout: sockets being closed are checked, too.
M_check_timeout(r) == "ts_last_io" \in r.flags

\* check_timeout may report that nothing was read or written for too long.
check_timeout(r) ==
    /\ "ts_last_io" \in r.flags
    /\ r.flags \cap {"closing", "close", "close_on_write"} = {}

\* The idle timeout has expired: start the closing handshake and arm its
\* timeout, or close a socket that has none or no room for a close frame.
IdleTimedOut(s) ==
    /\ CheckTimeouts(s)
    /\ IdleTimeout
    /\ check_timeout(sk[s])
    /\ IF sk[s].proto = "ws" /\ Fits(sk[s])
       THEN Keep([sk EXCEPT ![s] =
                     Flag(ws_start_closing_handshake(@),
                          {"ts_closing_handshake_start"})],
                 work_list, "check_timeouts")
       ELSE Close(sk, s, work_list, "check_timeouts")

\* Mutation of ClosingTimedOut: a timestamp never set is taken for "not armed".
M_ClosingTimedOut(s) ==
    /\ CheckTimeouts(s)
    /\ {"closing", "ts_closing_handshake_start"} \subseteq sk[s].flags
    /\ Close(sk, s, work_list, "check_timeouts")

\* check_closing_handshake_timeout.  A timestamp never set reads as the boot.
ClosingTimedOut(s) ==
    /\ CheckTimeouts(s)
    /\ "closing" \in sk[s].flags
    /\ Close(sk, s, work_list, "check_timeouts")

\* The ping interval has expired.  proto->ping is pp2_nop for the backend, and
\* NULL for a client before the handshake.
Ping(s) ==
    /\ CheckTimeouts(s)
    /\ PingInterval
    /\ check_timeout(sk[s])
    /\ IF sk[s].proto = "http" THEN Undefined
       ELSE Keep(IF s # Backend /\ Fits(sk[s])
                 THEN [sk EXCEPT ![s] = ws_ping(@)] ELSE sk,
                 work_list, "check_timeouts")

\* Nothing has expired.
NoTimeout(s) ==
    /\ CheckTimeouts(s)
    /\ "closing" \in sk[s].flags =>
          "ts_closing_handshake_start" \in sk[s].flags \/ ~Booted
    /\ Keep(sk, work_list, "check_timeouts")

-----------------------------------------------------------------------------
(* epoll events                                                            *)

Readable(s) == net[s] # <<>> \/ peer[s] \in {"fin", "refused"}

\* Mutation of Ready: no EPOLLRDHUP.
M_Ready == {s \in sk_list : \/ "IN" \in sk[s].events /\ Readable(s)
                            \/ "OUT" \in sk[s].events}

\* Sockets epoll_wait may report; whether OUT is among their events is left to
\* the handlers below.
Ready == {s \in sk_list : \/ "IN" \in sk[s].events /\ Readable(s)
                          \/ "OUT" \in sk[s].events
                          \/ peer[s] \in {"fin", "refused"}}

Pending == {c \in Clients : peer[c] = "syn"}

epoll_wait ==
    /\ pc = "epoll_wait"
    /\ pc' = "events"
    /\ todo' = Ready \cup (IF Pending = {} THEN {} ELSE {Listener})
    /\ UNCHANGED <<sk, work_list, cur, frames, num, net, peer, known>>

\* sk_accept; AZ aborts the daemon when it has no descriptor for the client.
sk_accept(c) ==
    /\ pc = "events"
    /\ Listener \in todo
    /\ c \in Pending
    /\ IF Cardinality(sk_list \ {Backend}) < MaxSk
       THEN /\ sk' = [sk EXCEPT ![c] = SkInit("http")]
            /\ peer' = [peer EXCEPT ![c] = "up"]
            /\ UNCHANGED <<work_list, pc, net>>
       ELSE Exit
    /\ Visited(Listener)
    /\ UNCHANGED <<cur, frames>>

\* on_epoll_event on s: input first, then output, then errors.
OnEvent(s) ==
    /\ pc = "events"
    /\ s \in todo
    /\ todo' = todo \ {s}
    /\ UNCHANGED <<cur, frames>>

OnRead(s) == OnEvent(s) /\ "IN" \in sk[s].events /\ Readable(s)

\* A(!sk->close_on_write) and A(!sk->close), the first lines of on_read.
OnReadAsserts(s) == sk[s].flags \cap {"close", "close_on_write"} = {}

\* What on_read does once sk_read has left s at r; post_read walks the work_list,
\* too.
post_read(r, s) ==
    /\ sk' = [sk EXCEPT ![s] = ts_last_io_set(r)]
    /\ work_list' = work_list \cup {s}
    /\ pc' = IF ~OnReadAsserts(s) THEN "exit"
             ELSE IF Freed \in work_list THEN "ub" ELSE "events"
    /\ UNCHANGED peer

\* recvbuf is full: stop watching for input.
OnReadFull(s) ==
    /\ OnRead(s)
    /\ Len(sk[s].recvbuf) = RecvCap
    /\ post_read(turn_off_events(sk[s], {"IN"}), s)
    /\ UNCHANGED <<num, known, net>>

\* sk_read of the first k tokens that have arrived.
sk_read(r, s, k) == [r EXCEPT !.recvbuf = Join(@, SubSeq(net[s], 1, k))]

\* As much as fits.
OnReadData(s) ==
    LET room == RecvCap - Len(sk[s].recvbuf)
        k == IF Len(net[s]) < room THEN Len(net[s]) ELSE room
    IN  /\ OnRead(s)
        /\ room > 0
        /\ net[s] # <<>>
        /\ post_read(sk_read(sk[s], s, k), s)
        /\ net' = [net EXCEPT ![s] = SubSeq(@, k + 1, Len(@))]
        /\ UNCHANGED <<num, known>>

\* End of file, or the connection was refused.  check_errno looks at errno,
\* which an end of file does not set: any earlier call may have left it at one
\* of the values that mean "try the next host".
OnReadEnd(s) ==
    /\ OnRead(s)
    /\ Len(sk[s].recvbuf) < RecvCap
    /\ net[s] = <<>>
    /\ UNCHANGED known
    /\ \E retry \in {TRUE, peer[s] = "refused"} :
          LET r == ts_last_io_set(sk[s])
          IN  /\ num' = IF retry THEN next_host(1) ELSE num
              /\ IF ~OnReadAsserts(s) THEN Exit
                 ELSE IF retry /\ r.retries + 1 < FhostnameNum
                 THEN /\ sk' = [sk EXCEPT ![s] = [r EXCEPT !.retries = @ + 1]]
                      /\ peer' = [peer EXCEPT ![s] = "fin"]
                      /\ UNCHANGED <<work_list, pc, net>>
                 ELSE Close(sk, s, work_list, "events")

\* sk_write: k tokens are written, or there is nothing to write.
sk_write(r, k) ==
    IF r.sendbuf = <<>> THEN turn_off_events(r, {"OUT"})
    ELSE [r EXCEPT !.sendbuf = SubSeq(@, k + 1, Len(@))]

\* What on_write does after that.
Written(s, k) ==
    LET r == ts_last_io_set(sk_write(sk[s], k))
    IN  IF \/ "close_on_write" \in r.flags /\ r.sendbuf = <<>>
           \/ "close" \in r.flags
        THEN Close(sk, s, work_list, "events")
        ELSE Keep([sk EXCEPT ![s] = r], work_list, "events")

OnWritable(s) ==
    /\ OnEvent(s)
    /\ ~("IN" \in sk[s].events /\ Readable(s))
    /\ "OUT" \in sk[s].events
    /\ peer[s] # "syn"
    /\ UNCHANGED num

\* on_write; a backend that has been sent a message can answer it.
OnWrite(s) ==
    /\ OnWritable(s)
    /\ \E k \in 0 .. Len(sk[s].sendbuf) :
          /\ k = 0 => sk[s].sendbuf = <<>>
          /\ Written(s, k)
          /\ known' = IF s = Backend
                      THEN known \cup {sk[s].sendbuf[i] : i \in 1 .. k} ELSE known

\* write fails on a connection the peer has reset, before epoll_wait or since:
\* an error, or a SIGPIPE.
OnWriteFails(s) ==
    /\ OnWritable(s)
    /\ sk[s].sendbuf # <<>>
    /\ \/ Close(sk, s, work_list, "events")
       \/ Exit
    /\ UNCHANGED known

\* The peer has hung up, and neither input nor output is to be handled.
OnHup(s) ==
    /\ OnEvent(s)
    /\ "IN" \notin sk[s].events
    /\ "OUT" \notin sk[s].events
    /\ Close(sk, s, work_list, "events")
    /\ UNCHANGED <<num, known>>

\* The socket's send queue in the kernel is full, or the connection not up:
\* EPOLLOUT was not reported.
NotWritable(s) ==
    /\ OnEvent(s)
    /\ ~("IN" \in sk[s].events /\ Readable(s))
    /\ "OUT" \in sk[s].events
    /\ IF peer[s] = "fin" THEN Close(sk, s, work_list, "events")
                          ELSE Keep(sk, work_list, "events")
    /\ UNCHANGED <<num, known>>

-----------------------------------------------------------------------------
(* event_loop and wschild_main                                             *)

Goto(next, nodes) ==
    /\ pc' = next
    /\ todo' = nodes
    /\ UNCHANGED <<sk, work_list, cur, frames, num, net, peer, known>>

\* The head of the loop: an iteration, or SIGTERM has set done.
Iterate == pc = "loop" /\ Goto("try_recv", work_list)
Sigterm == pc = "loop" /\ Goto("shutdown", sk_list)

\* A list or a batch has been walked.
TryRecvDone == pc = "try_recv" /\ todo = {} /\ Goto("check_timeouts", sk_list)
TimeoutsDone == pc = "check_timeouts" /\ todo = {} /\ Goto("epoll_wait", {})
EventsDone == pc = "events" /\ todo = {} /\ Goto("loop", {})
ShutdownDone == pc = "shutdown" /\ todo = {} /\ Goto("stopped", {})

\* wschild_main closes the sockets that are left.
Shutdown(s) ==
    /\ pc = "shutdown"
    /\ s \in todo
    /\ Close(sk, s, work_list, "shutdown")
    /\ Visited(s)
    /\ UNCHANGED <<cur, frames>>

-----------------------------------------------------------------------------
(* Clients, backend and kernel.  The daemon sees what they do through epoll_wait *)
(* and the handlers of one batch, which handle a socket once: input or a      *)
(* hang-up that arrives anywhere else in the iteration might as well arrive   *)
(* before the next epoll_wait.  A reset in between is OnWriteFails.           *)

Connect(c) ==
    /\ peer[c] = "none"
    /\ peer' = [peer EXCEPT ![c] = "syn"]
    /\ UNCHANGED <<daemon, net, known>>

\* t arrives for s.
Arrive(s, t) ==
    /\ peer[s] = "up"
    /\ Len(Join(net[s], <<t>>)) <= NetCap
    /\ net' = [net EXCEPT ![s] = Join(@, <<t>>)]
    /\ UNCHANGED <<daemon, peer, known>>

\* A client sends one request, and frames once it has the answer to it (RFC
\* 6455, section 4.1).
ClientSend(c, t) ==
    /\ t \in ClientToks
    /\ \/ /\ sk[c].proto = "http"
          /\ t \in HttpToks
          /\ "close_on_write" \notin sk[c].flags
          /\ Range(sk[c].recvbuf \o net[c]) \subseteq Partial
       \/ /\ sk[c].proto = "ws"
          /\ t \in WsToks
          /\ "101" \notin Range(sk[c].sendbuf)
    /\ Arrive(c, t)

\* The backend answers clients it knows, in as many segments as it likes.
BackendSend(t) ==
    /\ t \in known \cup BackendFrags
    /\ t = "hdr" => LET q == sk[Backend].recvbuf \o net[Backend]
                    IN  q # <<>> => Last(q) # "frag"
    /\ Arrive(Backend, t)

\* The peer closes; a reset loses what it sent last.
PeerClose(s) ==
    /\ peer[s] = "up"
    /\ peer' = [peer EXCEPT ![s] = "fin"]
    /\ \E q \in {net[s], <<>>} : net' = [net EXCEPT ![s] = q]
    /\ UNCHANGED <<daemon, known>>

\* The connection to the backend is established, or refused.
BackendConnect(p) ==
    /\ peer[Backend] = "syn"
    /\ p \in {"up", "refused"}
    /\ peer' = [peer EXCEPT ![Backend] = p]
    /\ UNCHANGED <<daemon, net, known>>

-----------------------------------------------------------------------------
Loop == Iterate \/ Sigterm \/ TryRecvDone \/ TimeoutsDone \/ epoll_wait
            \/ EventsDone \/ ShutdownDone

Recv(s) == \/ RecvNothing(s)
           \/ HttpIncomplete(s) \/ HttpUpgrade(s)
           \/ HttpReject(s) \/ HttpGarbled(s)
           \/ WsRecvStart(s) \/ SkOpen(s) \/ SkOpenFails(s)

WsDecodeFrame == \/ WsIncomplete \/ WsBad
                 \/ PP2Encode \/ PP2EncodeAgain
                 \/ FinishClosingHandshake \/ WsClose
                 \/ \E t \in WsToks : WsPing(t) \/ WsPong(t) \/ WsUnknown(t)

PP2DecodeFrame == \/ PP2Incomplete \/ PP2Again \/ PP2Garbled
                  \/ \E d \in Clients : PP2Drop(d) \/ PP2Forward(d)

Timeouts(s) == \/ IdleTimedOut(s) \/ ClosingTimedOut(s)
               \/ Ping(s) \/ NoTimeout(s)

Event(s) == \/ OnReadFull(s) \/ OnReadData(s) \/ OnReadEnd(s)
            \/ OnWrite(s) \/ OnWriteFails(s) \/ OnHup(s) \/ NotWritable(s)

Daemon == \/ Loop \/ TryRecvFreed \/ PP2RecvStart
          \/ WsDecodeFrame \/ PP2DecodeFrame
          \/ \E c \in Clients : sk_accept(c)
          \/ \E s \in Sockets : \/ Recv(s) \/ Timeouts(s) \/ Event(s)
                                \/ Shutdown(s)

Environment == \/ \E c \in Clients : \/ Connect(c)
                                     \/ \E t \in ClientToks : ClientSend(c, t)
               \/ \E t \in known \cup BackendFrags : BackendSend(t)
               \/ \E s \in Sockets : PeerClose(s)
               \/ \E p \in {"up", "refused"} : BackendConnect(p)

\* Nothing happens to a daemon that is gone.
Gone == pc \in Halted /\ UNCHANGED vars

Next == Daemon \/ (pc = "epoll_wait" /\ Environment) \/ Gone

Spec == Init /\ [][Next]_vars

-----------------------------------------------------------------------------
(* Properties                                                              *)

\* Clients speak HTTP and then websocket, pp2sk the PROXY protocol; a message
\* queued for the backend comes from a client.
TypeOK ==
    /\ sk \in [Sockets -> Sk]
    /\ \A c \in Clients : sk[c].proto # "pp2"
    /\ sk[Backend].proto \in {"free", "pp2"}
    /\ sk[Backend].sendbuf \in Seq(Clients)
    /\ work_list \subseteq Sockets \cup {Freed}
    /\ pc \in PCs
    /\ todo \subseteq Sockets \cup {Listener, Freed}
    /\ cur \in Sockets \cup {NULL}
    /\ frames \in BOOLEAN
    /\ num \in 0 .. FhostnameNum - 1
    /\ net \in [Sockets -> Seq(RecvToks)]
    /\ peer \in [Sockets -> Peers]
    /\ known \subseteq Clients

\* No lost wakeup: a socket with a whole request or frame in its recvbuf is in
\* work_list.  try_recv drops a socket from the list when recv reports EINPUT
\* and only a later read puts it back, so what it leaves behind must be waiting
\* for that read.
NoStrandedInput ==
    \A s \in Sockets : Open(s) /\ Decodable(sk[s]) => s \in work_list

\* No stranded output: outside recv, a socket with something in its sendbuf is
\* watched for EPOLLOUT.  Frames get there from a recv of another socket, from
\* the timeouts and from a handshake, and each of them has to see to it.
NoStrandedOutput ==
    pc \notin {"decode"} \cup Halted =>
        \A s \in Sockets :
            Open(s) /\ sk[s].sendbuf # <<>> => "OUT" \in sk[s].events

\* The assertions at the head of on_read hold whenever it can be called: a
\* socket that is only waiting to be closed is not watched for EPOLLIN.
OnReadAssertsHold ==
    pc \notin {"decode"} \cup Halted =>
        \A s \in Sockets : Open(s) /\ "IN" \in sk[s].events => OnReadAsserts(s)

\* A client's sk_t is in work_list only while it exists: the next walk over the
\* list by try_recv, post_read or sk_close dereferences it.
WorkListOpen == work_list \cap Clients \subseteq sk_list

\* A close frame is queued.
QueuesClose(s) == /\ Len(sk'[s].sendbuf) > Len(sk[s].sendbuf)
                  /\ Last(sk'[s].sendbuf) = "close"

\* At most one close frame is queued per connection, whichever of the idle
\* timeout, an unknown opcode and the peer's own close frame comes first: none
\* is once one of the three flags of closing is set.
OneCloseFrame ==
    [][\A s \in Sockets :
          sk[s].flags \cap {"closing", "close", "close_on_write"} # {}
          => ~QueuesClose(s)]_vars

\* The frame at the head of the recvbuf of c reaches AZ(sk->closing) in ws_pong
\* or ws_start_closing_handshake.
AssertsClosing(c) ==
    /\ "closing" \in sk[c].flags
    /\ sk[c].recvbuf # <<>>
    /\ Head(sk[c].recvbuf) \in {"ping", "pingp", "unknown", "unknownp", "raw"}

\* The handler of s writes.
Writes(s) == /\ todo' = todo \ {s}
             /\ "OUT" \in sk[s].events
             /\ ~("IN" \in sk[s].events /\ Readable(s))
             /\ sk[s].sendbuf # <<>>

\* What can end the daemon other than SIGTERM is known, and is nothing else: a
\* ping or an unknown opcode during a closing handshake, the ping timer of a
\* client still in HTTP, a recv called again after WSD_EAGAIN with nothing left
\* to decode, the freed backend in work_list, running out of descriptors, and a
\* write to a connection that was reset.  So no order of the tokens makes the
\* assertions of on_read fail or calls the encode_frame a client in HTTP does not
\* have.  What is inside a token is not in this list: a Sec-WebSocket-Key longer
\* than the scratch buffer of generate_accept_val overruns it.
CrashCauses ==
    [][pc' \in {"exit", "ub"} /\ pc \notin Halted =>
          \/ pc = "decode" /\ AssertsClosing(cur)
          \/ /\ pc = "check_timeouts" /\ PingInterval
             /\ \E c \in todo \cap Clients : sk[c].proto = "http" /\ todo' = todo \ {c}
          \/ /\ pc = "try_recv"
             /\ \E s \in todo \cap sk_list : sk[s].recvbuf = <<>>
          \/ Freed \in work_list
          \/ /\ pc = "events" /\ todo' = todo \ {Listener}
             /\ Cardinality(sk_list \ {Backend}) >= MaxSk
          \/ pc = "events" /\ \E s \in todo \cap sk_list : Writes(s)]_vars

-----------------------------------------------------------------------------
(* Liveness.  The daemon keeps running.  A closing handshake whose timeout is *)
(* checked over and over has it expire.  A peer that is written to over and   *)
(* over makes room, and answers with a reset if it has closed.                *)

RunSpec == Spec /\ WF_vars(Daemon)

ClosingSpec ==
    RunSpec /\ \A c \in Clients : /\ SF_vars(ClosingTimedOut(c))
                                   /\ SF_vars(OnWrite(c))

HangupSpec ==
    RunSpec /\ \A s \in Sockets : SF_vars(peer[s] = "fin" /\ OnWriteFails(s))

\* Every iteration of event_loop ends: the frame loops of ws_recv and pp2_recv
\* make progress through recvbuf with every frame.
EventLoopTurns == []<>(pc \in {"loop"} \cup Halted)

\* A connection whose peer has hung up or never answered is closed in the end,
\* whatever errno, the retry counter and the events it is watched for are.
DeadPeerReaped ==
    \A s \in Sockets :
        peer[s] \in {"fin", "refused"} ~> (~Open(s) \/ pc \in Halted)

\* A closing handshake and a pending close_on_write come to an end: the socket
\* is closed, or the handshake is complete.
ClosingEnds ==
    \A c \in Clients :
        sk[c].flags \cap {"closing", "close_on_write"} # {}
        ~> (~Open(c) \/ "close" \in sk[c].flags \/ pc \in Halted)

=============================================================================
