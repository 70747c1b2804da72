------------------------------- MODULE Wscat -------------------------------
(***************************************************************************)
(* wscat, the command-line client: one epoll loop over the websocket wssk  *)
(* (plain or TLS) and, once the server has answered the HTTP request, over *)
(* standard input fdin.  It shares event_loop, on_read, on_write and the   *)
(* frame encoders with wsd; there is no work list: post_read calls recv.   *)
(*                                                                         *)
(* Abstraction.  As in Wschild, a buffer is a sequence of tokens, one per  *)
(* request, response or frame.  Standard input is a sequence of pieces, of *)
(* the size of one frame each (32 bytes, or a JSON object), numbered in    *)
(* the order they were typed; an incomplete JSON object is not typed yet.  *)
(***************************************************************************)
EXTENDS Integers, Sequences, FiniteSets, SequencesExt

CONSTANTS
    Options,    \* command lines: records of tls, json, no_handshake, idle
                \* (is -i given?), ping (the argument of -p, or -1) and
                \* repeat (the argument of -R, or -1)
    ServerToks, \* frames the server sends, a subset of WsToks
    SendCap,    \* room in wssk->sendbuf, in tokens
    RecvCap,    \* room in a recvbuf, in tokens
    NetCap,     \* bound: tokens in flight towards wssk
    MaxTyped    \* bound: pieces of standard input

\* Responses that end in a blank line and can be tokenised, that cannot be, and
\* one not yet complete.  The status is not looked at.
HttpToks == {"101", "garbled", "frag"}

\* A TLS record that carries no application data is "record" on the net.
\* Frames by opcode; "bad" has a reserved bit, a mask, an unknown opcode or too
\* long a payload; "pingp" has a payload, which is left behind as "raw".
WsToks == {"data", "close", "ping", "pingp", "pong", "bad", "frag"}

ASSUME WscatAssumption ==
    /\ Options \subseteq [tls : BOOLEAN, json : BOOLEAN, no_handshake : BOOLEAN,
                          idle : BOOLEAN, ping : Nat \cup {-1},
                          repeat : Nat \cup {-1}]
    /\ ServerToks \subseteq WsToks
    /\ {SendCap, RecvCap, NetCap} \subseteq Nat \ {0}
    /\ MaxTyped \in Nat

VARIABLES
    opt,        \* the command line
    ws,         \* wssk
    in,         \* fdin
    rep,        \* repeat_last_num, repeat_last_armed and last_input
    done,       \* the event loop is to end
    pc,         \* where the program is
    todo,       \* sockets of the batch of events still to be served
    frames,     \* has this recv decoded a frame?
    net,        \* input the kernel holds for wssk
    peer,       \* the other end of wssk's connection
    typed,      \* pieces typed so far
    eof         \* has standard input been closed?

program == <<opt, ws, in, rep, done, pc, todo, frames>>
vars == <<program, net, peer, typed, eof>>

Frame(op) == [op |-> op, n |-> 0]
Piece(n) == [op |-> "data", n |-> n]
None == [op |-> "none", n |-> 0]

Ops == {"req", "data", "copies", "ping", "pong", "close"}
Frames == [op : Ops, n : 0 .. MaxTyped]
Flags == {"closing", "close", "close_on_write", "ts_last_io"}
Wsk == [recv : {"free", "http", "ws"}, tls : {"off", "handshake", "again", "on"},
        events : SUBSET {"IN", "OUT"}, flags : SUBSET Flags,
        sendbuf : Seq(Frames), recvbuf : Seq(HttpToks \cup WsToks \cup {"raw"})]
Stopped == {"stopped", "exit", "ub"}

TypeOK ==
    /\ opt \in Options
    /\ ws \in Wsk /\ Len(ws.sendbuf) <= SendCap
    /\ in \in [open : BOOLEAN, watched : BOOLEAN, read : 0 .. MaxTyped,
              buf : Seq(1 .. MaxTyped)]
    /\ rep \in [num : -1 .. opt.repeat, armed : BOOLEAN, last : Frames \cup {None}]
    /\ done \in BOOLEAN
    /\ pc \in {"loop", "epoll_wait", "events", "recv", "decode"} \cup Stopped
    /\ todo \subseteq {"wssk", "fdin"}
    /\ frames \in BOOLEAN
    /\ net \in Seq(HttpToks \cup WsToks \cup {"record"})
    /\ peer \in {"syn", "up", "fin", "refused"}
    /\ typed \in 0 .. MaxTyped
    /\ eof \in BOOLEAN

-----------------------------------------------------------------------------
(* wssk                                                                    *)

turn_on(w, e) == [w EXCEPT !.events = @ \cup e]
turn_off(w, e) == [w EXCEPT !.events = @ \ e]
Flag(w, f) == [w EXCEPT !.flags = @ \cup f]
Put(w, f) == [w EXCEPT !.sendbuf = Append(@, f)]

\* Mutation of Fits: off by one.
M_Fits(w) == Len(w.sendbuf) <= SendCap

\* Is there room for one more frame?
Fits(w) == Len(w.sendbuf) < SendCap

\* main: the socket, and the request unless TLS comes first.
WskInit(o) ==
    IF o.tls
    THEN [recv |-> "http", tls |-> "handshake", events |-> {"IN"}, flags |-> {},
          sendbuf |-> <<>>, recvbuf |-> <<>>]
    ELSE [recv |-> "http", tls |-> "off", events |-> {"IN", "OUT"}, flags |-> {},
          sendbuf |-> <<Frame("req")>>, recvbuf |-> <<>>]

WskDestroyed == [recv |-> "free", tls |-> "off", events |-> {}, flags |-> {},
                 sendbuf |-> <<>>, recvbuf |-> <<>>]

Open == ws.recv # "free"

\* The socket's handlers are those of a TLS handshake: the first one, or a
\* renegotiation ("again").
Handshaking == ws.tls \in {"handshake", "again"}

\* Mutation of ws_ping: the frame is not announced.
M_ws_ping(w) == Put(w, Frame("ping"))

\* ws_ping, ws_pong and ws_start_closing_handshake queue a frame and announce it.
ws_ping(w) == turn_on(Put(w, Frame("ping")), {"OUT"})

ws_pong(w) == turn_on(Put(w, Frame("pong")), {"OUT"})
ws_start_closing_handshake(w) ==
    turn_on(Put(Flag(w, {"closing"}), Frame("close")), {"OUT"})

\* The first SSL_do_handshake wants something, or has failed, which main ignores.
Init ==
    /\ opt \in Options
    /\ \E e \in SUBSET {"OUT"} :
          /\ e # {} => opt.tls
          /\ ws = turn_on(WskInit(opt), e)
    /\ in = [open |-> FALSE, watched |-> FALSE, read |-> 0, buf |-> <<>>]
    /\ rep = [num |-> IF opt.repeat > 0 THEN opt.repeat ELSE -1,
              armed |-> FALSE, last |-> None]
    /\ done = FALSE
    /\ pc = "loop"
    /\ todo = {}
    /\ frames = FALSE
    /\ net = <<>>
    /\ peer = "syn"
    /\ typed = 0
    /\ eof = FALSE

\* A step of the program that leaves wssk at w and goes on at next.
Goto(w, next) ==
    /\ ws' = w
    /\ pc' = next
    /\ UNCHANGED <<opt, net, peer, typed, eof>>

\* Mutation of wssk_close: the event loop is not told to end.
M_wssk_close == Goto(WskDestroyed, "events") /\ UNCHANGED done

\* wssk_close.
wssk_close == Goto(WskDestroyed, "events") /\ done' = TRUE

\* A failed A, AN or AZ.
Exit == Goto(ws, "exit") /\ UNCHANGED <<in, rep, done, todo, frames>>

-----------------------------------------------------------------------------
(* Repeating the last input                                                *)

Smaller(a, b) == IF a < b THEN a ELSE b

\* repeat_last queues last_input until repeat_last_num of them are, or there is
\* no room.  In the latter case it goes on copying last_input into its scratch
\* buffer, whose first 32 bytes become the new last_input: several copies of
\* the old one, unless the piece is delimited (JSON).
\* Yields wssk and rep; note that EPOLLOUT is left alone.
repeat_last(w, r) ==
    IF r.last = None THEN <<w, [r EXCEPT !.num = 0]>>
    ELSE LET k == Smaller(SendCap - Len(w.sendbuf), r.num)
             left == r.num - k
         IN  <<[w EXCEPT !.sendbuf = @ \o [i \in 1 .. k |-> r.last]],
               [r EXCEPT !.num = left,
                         !.last = IF left > 0 /\ ~opt.json
                                  THEN [@ EXCEPT !.op = "copies"] ELSE @]>>

-----------------------------------------------------------------------------
(* event_loop and on_iteration                                             *)

\* Mutation of check_timeout: sockets being closed are checked, too.
M_check_timeout(w) == "ts_last_io" \in w.flags

\* check_timeout may report that nothing was read or written for too long.
check_timeout(w) ==
    /\ "ts_last_io" \in w.flags
    /\ w.flags \cap {"closing", "close", "close_on_write"} = {}

\* wssk_ws_ping, wssk_ws_start_closing_handshake: no room ends the program.
TryPing(w, d) == IF Fits(w) THEN <<ws_ping(w), d>> ELSE <<w, TRUE>>
TryClosing(w, d) ==
    IF Fits(w) THEN <<ws_start_closing_handshake(w), d>> ELSE <<w, TRUE>>

\* try_repeating_last, from wssk w and done d: wssk, rep and done.
try_repeating_last(w, d) ==
    IF ~rep.armed \/ "closing" \in w.flags THEN <<w, rep, d>>
    ELSE LET wr == IF rep.num > 0 THEN repeat_last(w, rep) ELSE <<w, rep>>
             all == wr[2].num = 0
             r == IF all THEN [wr[2] EXCEPT !.armed = FALSE] ELSE wr[2]
             wd == IF all /\ ~opt.idle /\ ~opt.no_handshake
                   THEN TryClosing(wr[1], d) ELSE <<wr[1], d>>
         IN  <<wd[1], r, wd[2]>>

\* The ping interval and the idle timeout may have expired.
OnIteration ==
    /\ pc = "loop"
    /\ ~done
    /\ \E p, i \in BOOLEAN :
          /\ p => opt.ping >= 0 /\ check_timeout(ws)
          /\ i => opt.idle /\ check_timeout(ws)
          /\ LET a == IF p THEN TryPing(ws, FALSE) ELSE <<ws, FALSE>>
                 b == IF i /\ ~opt.no_handshake THEN TryClosing(a[1], a[2]) ELSE a
                 c == try_repeating_last(b[1], b[2])
             IN  /\ Goto(c[1], "epoll_wait")
                 /\ rep' = c[2]
                 /\ done' = c[3]
    /\ UNCHANGED <<in, todo, frames>>

Done ==
    /\ pc = "loop"
    /\ done
    /\ Goto(ws, "stopped")
    /\ UNCHANGED <<in, rep, done, todo, frames>>

Readable == net # <<>> \/ peer \in {"fin", "refused"}
\* Sockets epoll_wait may report.
Ready == {s \in {"wssk", "fdin"} :
             IF s = "wssk" THEN /\ Open
                                /\ \/ "IN" \in ws.events /\ Readable
                                   \/ "OUT" \in ws.events
                                   \/ peer \in {"fin", "refused"}
             ELSE in.open /\ (eof \/ (in.watched /\ in.read < typed))}

epoll_wait ==
    /\ pc = "epoll_wait"
    /\ todo' = Ready
    /\ Goto(ws, "events")
    /\ UNCHANGED <<in, rep, done, frames>>

EventsDone ==
    /\ pc = "events"
    /\ todo = {}
    /\ Goto(ws, "loop")
    /\ UNCHANGED <<in, rep, done, todo, frames>>

-----------------------------------------------------------------------------
(* Events of wssk                                                          *)

OnEvent ==
    /\ pc = "events"
    /\ "wssk" \in todo
    /\ todo' = todo \ {"wssk"}

OnRead == OnEvent /\ "IN" \in ws.events /\ Readable

\* A(!sk->close_on_write) and A(!sk->close), the first lines of on_read.
OnReadAsserts == ws.flags \cap {"close", "close_on_write"} = {}

OnReadFails ==
    /\ OnRead
    /\ ~OnReadAsserts
    /\ Goto(ws, "exit")
    /\ UNCHANGED <<in, rep, done, frames>>

\* What on_read does once read has taken k tokens off the net and left wssk at w:
\* post_read calls recv if there is something to receive.
post_read(w, k) ==
    /\ OnReadAsserts
    /\ ws' = Flag(w, {"ts_last_io"})
    /\ net' = SubSeq(net, k + 1, Len(net))
    /\ pc' = IF w.recvbuf = <<>> THEN "events" ELSE "recv"
    /\ frames' = FALSE
    /\ UNCHANGED <<opt, in, rep, done, peer, typed, eof>>

\* sk_read and wssk_tls_read: recvbuf is full.
OnReadFull ==
    /\ OnRead
    /\ ~Handshaking
    /\ Len(ws.recvbuf) = RecvCap
    /\ post_read(turn_off(ws, {"IN"}), 0)

\* New input completes the fragment a buffer ends in.
Join(b, q) == IF b # <<>> /\ q # <<>> /\ Last(b) = "frag" THEN Front(b) \o q ELSE b \o q

\* As much as fits; SSL_read returns one record of application data.
OnReadData ==
    LET room == RecvCap - Len(ws.recvbuf)
        k == Smaller(room, IF ws.tls = "on" THEN 1 ELSE Len(net))
    IN  /\ OnRead
        /\ ~Handshaking
        /\ room > 0
        /\ net # <<>> /\ Head(net) # "record"
        /\ post_read([ws EXCEPT !.recvbuf = Join(@, SubSeq(net, 1, k))], k)

\* End of file or an error: fhostname_num is 0 here, so nothing is retried.
OnReadEnd ==
    /\ OnRead
    /\ ~Handshaking
    /\ Len(ws.recvbuf) < RecvCap
    /\ net = <<>>
    /\ OnReadAsserts
    /\ wssk_close
    /\ UNCHANGED <<in, rep, frames>>

\* wssk_tls_read gets no application data: SSL_ERROR_WANT_READ, or
\* SSL_ERROR_WANT_WRITE, which starts a renegotiation.
TlsReadNothing ==
    /\ OnRead
    /\ ws.tls = "on"
    /\ net # <<>> /\ Head(net) = "record"
    /\ Len(ws.recvbuf) < RecvCap
    /\ \/ post_read(ws, 1)
       \/ post_read(turn_on([ws EXCEPT !.tls = "again"], {"OUT"}), 1)

\* create_http_req; what does not fit is cut off.
create_http_req(w) == IF Fits(w) THEN Put(w, Frame("req")) ELSE w

\* Mutation of wssk_tls_handshake: the event it wants is not watched.
M_wssk_tls_handshake(w) ==
    {w, turn_on(create_http_req([w EXCEPT !.tls = "on"]), {"IN", "OUT"})}

\* wssk_tls_handshake wants to read or to write, or is complete.
wssk_tls_handshake(w) ==
    {turn_on(w, {"IN"}), turn_on(w, {"OUT"}),
     turn_on(create_http_req([w EXCEPT !.tls = "on"]), {"IN", "OUT"})}

\* wssk_tls_handshake_read.
TlsHandshakeRead ==
    /\ OnRead
    /\ Handshaking
    /\ net # <<>> /\ Head(net) = "record"
    /\ \E w \in wssk_tls_handshake(turn_off(ws, {"IN"})) : post_read(w, 1)

\* What on_write does once write has left wssk at w.
Written(w) ==
    /\ IF \/ "close_on_write" \in w.flags /\ w.sendbuf = <<>>
          \/ "close" \in w.flags
       THEN wssk_close
       ELSE Goto(Flag(w, {"ts_last_io"}), "events") /\ UNCHANGED done
    /\ UNCHANGED <<in, rep, frames>>

\* The handshake fails.  wsd_errno is not set: if it is WSD_EAGAIN, of an earlier
\* write of nothing, on_read and on_write go on as if there was nothing to do.
\* Nothing sets it to that before the first handshake is complete.
TlsHandshakeFails ==
    /\ OnEvent
    /\ Handshaking
    /\ \/ /\ "IN" \in ws.events /\ Readable
          /\ OnReadAsserts
          /\ \/ wssk_close /\ UNCHANGED <<in, rep, frames>>
             \/ ws.tls = "again" /\ post_read(turn_off(ws, {"IN"}), 0)
       \/ /\ ~("IN" \in ws.events /\ Readable) /\ "OUT" \in ws.events
          /\ peer # "syn"
          /\ \/ wssk_close /\ UNCHANGED <<in, rep, frames>>
             \/ ws.tls = "again" /\ Written(turn_off(ws, {"OUT"}))

OnWritable ==
    /\ OnEvent
    /\ ~("IN" \in ws.events /\ Readable)
    /\ "OUT" \in ws.events
    /\ peer # "syn"

\* sk_write and wssk_tls_write.
OnWrite ==
    /\ OnWritable
    /\ ~Handshaking
    /\ IF ws.sendbuf = <<>> THEN Written(turn_off(ws, {"OUT"}))
       ELSE \E k \in 1 .. Len(ws.sendbuf) :
               Written([ws EXCEPT !.sendbuf = SubSeq(@, k + 1, Len(@))])

\* SSL_ERROR_WANT_READ: a renegotiation upon write.
TlsWriteRenegotiates ==
    /\ OnWritable
    /\ ws.tls = "on"
    /\ ws.sendbuf # <<>>
    /\ Written(turn_on([ws EXCEPT !.tls = "again"], {"IN"}))

TlsHandshakeWrite ==
    /\ OnWritable
    /\ Handshaking
    /\ \E w \in wssk_tls_handshake(turn_off(ws, {"OUT"})) : Written(w)

\* write fails: an error, or a SIGPIPE.
OnWriteFails ==
    /\ OnWritable
    /\ ~Handshaking
    /\ ws.sendbuf # <<>>
    /\ \/ wssk_close
       \/ Goto(ws, "exit") /\ UNCHANGED done
    /\ UNCHANGED <<in, rep, frames>>

\* The peer has hung up, and neither input nor output is to be handled.
OnHup ==
    /\ OnEvent
    /\ ws.events = {}
    /\ wssk_close
    /\ UNCHANGED <<in, rep, frames>>

\* The socket's send queue in the kernel is full, or the connection not up.
NotWritable ==
    /\ OnEvent
    /\ ~("IN" \in ws.events /\ Readable)
    /\ "OUT" \in ws.events
    /\ IF peer = "fin" THEN wssk_close ELSE Goto(ws, "events") /\ UNCHANGED done
    /\ UNCHANGED <<in, rep, frames>>

-----------------------------------------------------------------------------
(* recv of wssk                                                            *)

\* Mutation of RecvReturn: sk->close is not looked at.
M_RecvReturn(w, fatal) ==
    /\ IF fatal THEN wssk_close
       ELSE Goto(w, "events") /\ UNCHANGED done
    /\ UNCHANGED <<rep, todo>>

\* recv has returned and left wssk at w; the rest of on_read.
RecvReturn(w, fatal) ==
    /\ IF fatal \/ "close" \in w.flags THEN wssk_close
       ELSE Goto(w, "events") /\ UNCHANGED done
    /\ UNCHANGED <<rep, todo>>

HttpRecv(t) ==
    /\ pc = "recv"
    /\ ws.recv = "http"
    /\ Head(ws.recvbuf) = t

HttpIncomplete ==
    /\ HttpRecv("frag")
    /\ RecvReturn(ws, FALSE)
    /\ UNCHANGED <<in, frames>>

HttpGarbled ==
    /\ HttpRecv("garbled")
    /\ RecvReturn([ws EXCEPT !.recvbuf = <<>>], TRUE)
    /\ UNCHANGED <<in, frames>>

\* The response is accepted whatever it says; frames that came with it are lost.
\* AZ(register_for_events(fdin)) fails if standard input is a regular file.
HttpUpgrade ==
    /\ HttpRecv("101")
    /\ \/ /\ RecvReturn([ws EXCEPT !.recv = "ws", !.recvbuf = <<>>], FALSE)
          /\ in' = [in EXCEPT !.open = TRUE, !.watched = TRUE]
          /\ UNCHANGED frames
       \/ Exit

WsRecvStart ==
    /\ pc = "recv"
    /\ ws.recv = "ws"
    /\ Goto(ws, "decode")
    /\ UNCHANGED <<in, rep, done, todo, frames>>

\* Mutation of WsRecvTail: EPOLLIN stays on while a socket is being closed.
M_WsRecvTail(w) ==
    IF frames /\ w.sendbuf # <<>> THEN turn_on(w, {"IN", "OUT"}) ELSE w

\* The end of wssk_ws_recv, once decode_frame has failed.
WsRecvTail(w) ==
    LET out == IF frames /\ w.sendbuf # <<>> THEN turn_on(w, {"OUT"}) ELSE w
        in_ == IF frames /\ "close_on_write" \notin w.flags
               THEN turn_on(out, {"IN"}) ELSE out
    IN  IF w.flags \cap {"close", "close_on_write"} # {}
        THEN turn_off(in_, {"IN"}) ELSE in_

WsReturn(w, fatal) ==
    /\ RecvReturn(WsRecvTail(w), fatal)
    /\ frames' = FALSE
    /\ UNCHANGED in

\* decode_frame returned 0 and left wssk at w.
Decoded(w) ==
    /\ Goto(w, "decode")
    /\ frames' = TRUE
    /\ UNCHANGED <<in, rep, done, todo>>

\* wssk_ws_decode_frame finds the frame t; leftover payload reads as anything.
WsDecode(t) ==
    /\ pc = "decode"
    /\ ws.recvbuf # <<>>
    /\ \/ Head(ws.recvbuf) = t
       \/ Head(ws.recvbuf) = "raw" /\ t \in WsToks \ {"pingp"}

WsIncomplete ==
    /\ pc = "decode"
    /\ ws.recvbuf = <<>> \/ WsDecode("frag")
    /\ WsReturn(ws, FALSE)

WsBad ==
    /\ WsDecode("bad")
    /\ WsReturn(ws, TRUE)

\* AZ(skb_print(stdout)) fails if standard output cannot be written to.
WsData ==
    /\ WsDecode("data")
    /\ \/ Decoded([ws EXCEPT !.recvbuf = Tail(@)])
       \/ Exit

WsPong ==
    /\ WsDecode("pong")
    /\ Decoded([ws EXCEPT !.recvbuf = Tail(@)])

\* -N ignores close frames, with all that follows.
WsCloseIgnored ==
    /\ WsDecode("close")
    /\ opt.no_handshake
    /\ Decoded([ws EXCEPT !.recvbuf = <<>>])

\* ws_finish_closing_handshake: the reply to our close frame.
FinishClosingHandshake ==
    /\ WsDecode("close")
    /\ ~opt.no_handshake
    /\ "closing" \in ws.flags
    /\ Decoded([ws EXCEPT !.recvbuf = <<>>,
                          !.flags = (@ \ {"closing"}) \cup {"close"}])

\* ws_finish_closing_handshake: the server closes; reply and close once written.
ReplyClose ==
    /\ WsDecode("close")
    /\ ~opt.no_handshake
    /\ "closing" \notin ws.flags
    /\ LET w == [ws EXCEPT !.recvbuf = <<>>]
       IN  IF Fits(ws)
           THEN Decoded(Put(Flag(w, {"close_on_write", "closing"}), Frame("close")))
           ELSE WsReturn(w, TRUE)

\* ws_pong opens with AZ(sk->closing).
WsPing ==
    \E t \in {"ping", "pingp"} :
        /\ WsDecode(t)
        /\ LET w == [ws EXCEPT !.recvbuf =
                        (IF t = "pingp" THEN <<"raw">> ELSE <<>>) \o Tail(@)]
           IN  IF "closing" \in ws.flags THEN Exit
               ELSE IF Fits(w) THEN Decoded(ws_pong(w))
               ELSE WsReturn(w, TRUE)

-----------------------------------------------------------------------------
(* Events of fdin                                                          *)

OnStdin ==
    /\ pc = "events"
    /\ "fdin" \in todo
    /\ todo' = todo \ {"fdin"}

\* Mutation of stdin_recv: a piece that was queued stays in recvbuf.
M_stdin_recv(b, k) == SubSeq(b, k, Len(b))

\* What is left of recvbuf when k pieces have been queued.
stdin_recv(b, k) == SubSeq(b, k + 1, Len(b))

\* stdin_recv with the pieces b in recvbuf: stdin_decode_frame remembers each
\* piece as last_input and queues it, until there is no room.
StdinRecv(b, read, watched) ==
    LET k == Smaller(Len(b), SendCap - Len(ws.sendbuf))
        last == IF k < Len(b) THEN b[k + 1] ELSE b[k]
        w == [ws EXCEPT !.sendbuf = @ \o [i \in 1 .. k |-> Piece(b[i])]]
    IN  /\ Goto(IF k > 0 THEN turn_on(w, {"OUT"}) ELSE w, "events")
        /\ in' = [in EXCEPT !.buf = stdin_recv(b, k), !.watched = watched,
                            !.read = read]
        /\ rep' = IF rep.num > 0 THEN [rep EXCEPT !.last = Piece(last)] ELSE rep
        /\ UNCHANGED <<done, frames>>

\* on_read of fdin: as much as fits, then stdin_recv.  A recvbuf that is full is
\* not read into, and fdin is not watched for input any more; this comes before
\* the end of file, if that is reported as input (by a terminal, not by a pipe).
StdinRead ==
    LET k == Smaller(typed - in.read, RecvCap - Len(in.buf))
        b == in.buf \o [i \in 1 .. k |-> in.read + i]
    IN  /\ OnStdin
        /\ in.watched
        /\ in.read < typed \/ (eof /\ Len(in.buf) = RecvCap)
        /\ Open
        /\ StdinRecv(b, in.read + k, k > 0)

\* stdin_close: with -R, repeat the last input, through wssk, which may be NULL.
stdin_close(buf) ==
    LET closes == ~opt.idle /\ opt.ping * 1000 = -1 /\ rep.num = -1
        wr == repeat_last(ws, [rep EXCEPT !.armed = TRUE])
    IN  /\ in' = [in EXCEPT !.open = FALSE, !.watched = FALSE, !.buf = buf]
        /\ IF closes /\ ~opt.no_handshake
           THEN LET c == TryClosing(ws, done)
                IN  Goto(c[1], "events") /\ done' = c[2] /\ UNCHANGED rep
           ELSE IF rep.num > 0
           THEN /\ IF ~Open /\ rep.last # None THEN Goto(ws, "ub")
                   ELSE Goto(wr[1], "events")
                /\ rep' = wr[2]
                /\ UNCHANGED done
           ELSE Goto(ws, "events") /\ UNCHANGED <<rep, done>>
        /\ UNCHANGED frames

\* End of file, or a hang-up while fdin is not watched for input: what is left
\* in recvbuf is lost.
StdinEnd ==
    /\ OnStdin
    /\ eof
    /\ in.watched => in.read = typed
    /\ stdin_close(<<>>)

\* Input, but wssk is gone: stdin_recv fails, and wsd_errno is whatever it was.
StdinReadClosed ==
    /\ OnStdin
    /\ in.watched
    /\ in.read < typed
    /\ ~Open
    /\ \/ stdin_close(<<>>)
       \/ /\ Goto(ws, "events")
          /\ UNCHANGED <<in, rep, done, frames>>

-----------------------------------------------------------------------------
(* The server and the user                                                 *)

Sent(op) == \E i \in 1 .. Len(ws.sendbuf) : ws.sendbuf[i].op = op

\* The server answers the request, and then sends frames.
ServerSend(t) ==
    /\ peer = "up"
    /\ Len(Join(net, <<t>>)) <= NetCap
    /\ \/ t \in HttpToks /\ ws.recv = "http" /\ ws.tls # "handshake" /\ ~Sent("req")
          /\ "101" \notin Range(net \o ws.recvbuf)
       \/ t \in ServerToks /\ (ws.recv = "ws" \/ "101" \in Range(net \o ws.recvbuf))
       \/ t = "record" /\ ws.tls # "off"
    /\ net' = Join(net, <<t>>)
    /\ UNCHANGED <<program, peer, typed, eof>>

\* The connection is established or refused; the server closes it.
ServerConn(p) ==
    /\ \/ peer = "syn" /\ p \in {"up", "refused"}
       \/ peer = "up" /\ p = "fin"
    /\ peer' = p
    /\ UNCHANGED <<program, net, typed, eof>>

Type ==
    /\ ~eof
    /\ typed < MaxTyped
    /\ typed' = typed + 1
    /\ UNCHANGED <<program, net, peer, eof>>

CloseStdin ==
    /\ ~eof
    /\ eof' = TRUE
    /\ UNCHANGED <<program, net, peer, typed>>

-----------------------------------------------------------------------------
WsEvent == \/ OnReadFails \/ OnReadFull \/ OnReadData \/ OnReadEnd
           \/ TlsReadNothing \/ TlsHandshakeRead \/ TlsHandshakeFails
           \/ OnWrite \/ TlsWriteRenegotiates \/ TlsHandshakeWrite
           \/ OnWriteFails \/ OnHup \/ NotWritable

WsRecv == \/ HttpIncomplete \/ HttpGarbled \/ HttpUpgrade
          \/ WsRecvStart \/ WsIncomplete \/ WsBad \/ WsData \/ WsPong
          \/ WsCloseIgnored \/ FinishClosingHandshake \/ ReplyClose \/ WsPing

Stdin == StdinRead \/ StdinEnd \/ StdinReadClosed

Program == OnIteration \/ Done \/ epoll_wait \/ EventsDone
               \/ WsEvent \/ WsRecv \/ Stdin

Environment == \/ \E t \in HttpToks \cup ServerToks \cup {"record"} : ServerSend(t)
               \/ \E p \in {"up", "refused", "fin"} : ServerConn(p)
               \/ Type \/ CloseStdin

Gone == pc \in Stopped /\ UNCHANGED vars

Next == Program \/ (pc = "epoll_wait" /\ Environment) \/ Gone

Spec == Init /\ [][Next]_vars

\* The program keeps running, and a server written to over and over takes
\* something, or answers with a reset if it has closed; nor does a TLS handshake
\* go on for ever with a server that has.
RunSpec == Spec /\ WF_vars(Program) /\ SF_vars(OnWrite)
                /\ SF_vars(peer = "fin" /\ OnWriteFails)
                /\ SF_vars(peer = "fin" /\ TlsHandshakeFails)

-----------------------------------------------------------------------------
(* Properties                                                              *)

\* Where the pieces are among the frames of a sendbuf.
Pieces(b) == {i \in 1 .. Len(b) : b[i].op = "data"}

\* What was typed is sent in that order, no piece twice and none left out, over
\* full buffers and retries: while standard input is open, the pieces in sendbuf
\* and then those in fdin's recvbuf are the last ones read, in sequence.
StdinInOrder ==
    in.open /\ Open =>
        LET b == ws.sendbuf
            queued == in.read - Len(in.buf)
        IN  /\ \A i, j \in Pieces(b) :
                  i < j /\ (\A k \in Pieces(b) : k <= i \/ j <= k) => b[j].n = b[i].n + 1
            /\ \A i \in Pieces(b) : (\A k \in Pieces(b) : k <= i) => b[i].n = queued
            /\ \A i \in 1 .. Len(in.buf) : in.buf[i] = queued + i

\* Whoever queues a frame announces it: between the handlers, a sendbuf that is
\* not empty is watched for EPOLLOUT, unless a TLS handshake has the socket, or
\* -R is given (repeat_last does not announce its frames).
OutputAnnounced ==
    /\ Open /\ ws.sendbuf # <<>> /\ pc \in {"loop", "epoll_wait", "events"}
    /\ ~Handshaking /\ opt.repeat <= 0
    => "OUT" \in ws.events

\* The first TLS handshake always waits for something: each of its steps turns
\* one event off and must turn on the one it wants next.  (A renegotiation that
\* fails while wsd_errno is WSD_EAGAIN turns one off and on none, and can leave
\* wssk watched for nothing, in HTTP as well as in websocket mode.)
TlsHandshakeWaits == Open /\ ws.tls = "handshake" => ws.events # {}

\* No close frame is queued once closing has begun: idle timeout, end of the
\* repeats and the server's close frame can each be first, and all are checked
\* for.
OneCloseFrame ==
    [][ws.flags \cap {"closing", "close", "close_on_write"} # {} =>
          ~(/\ Len(ws'.sendbuf) > Len(ws.sendbuf)
            /\ Last(ws'.sendbuf).op = "close")]_vars

\* What can end wscat other than the end of the event loop, and nothing else: a
\* ping during a closing handshake, standard input that is a regular file, a
\* write to a connection that was reset, standard input that ends in the same
\* batch of events as the connection while -R has input to repeat, a TLS
\* renegotiation while the close frame is being written, and standard output that
\* cannot be written to.  (Memory and the other system calls are taken to be fine.)
CrashCauses ==
    [][pc' \in {"exit", "ub"} /\ pc \notin Stopped =>
          \/ /\ pc = "decode" /\ "closing" \in ws.flags
             /\ Head(ws.recvbuf) \in {"ping", "pingp", "raw"}
          \/ pc = "decode" /\ Head(ws.recvbuf) \in {"data", "raw"}
          \/ pc = "recv" /\ ws.recv = "http" /\ Head(ws.recvbuf) = "101"
          \/ pc = "events" /\ OnWritable /\ ws.sendbuf # <<>>
          \/ pc = "events" /\ ~Open /\ rep.num > 0 /\ rep.last # None
          \/ pc = "events" /\ opt.tls /\ "close_on_write" \in ws.flags]_vars

\* When the server is gone, wscat ends, whatever it is doing.
EndsWithServer == peer \in {"fin", "refused"} ~> pc \in Stopped

\* Once the server's close frame has been answered, or ours has been, wscat ends
\* (over a plain connection).
EndsWhenClosed ==
    (ws.flags \cap {"close", "close_on_write"} # {} /\ ~opt.tls) ~> pc \in Stopped

\* wscat.8 says of -R that it "Repeats last input as many times as specified".
RepeatsSent == (rep.armed /\ rep.num > 0) ~> (rep.num = 0 \/ pc \in Stopped)

=============================================================================
