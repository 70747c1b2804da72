---------------------------- MODULE WscatProofs ----------------------------
(***************************************************************************)
(* The safety properties of wscat, for every set of command lines, every   *)
(* size of the buffers and any amount of input.                            *)
(***************************************************************************)
EXTENDS Wscat, SequenceTheorems, TLAPS

NetToks == HttpToks \cup WsToks

\* A TLS connection stays one, and only there do TLS records arrive; nothing is
\* received before the first handshake is complete.
TlsInv ==
    /\ ws.tls # "off" => opt.tls
    /\ Open /\ opt.tls => ws.tls # "off"
    /\ ~opt.tls => net \in Seq(NetToks)
    /\ ws.tls = "handshake" => /\ ws.recv = "http" /\ ws.recvbuf = <<>>
                              /\ pc \notin {"recv", "decode"}

\* fdin's recvbuf holds what has been read and not queued.
StdinInv ==
    /\ Len(in.buf) <= RecvCap
    /\ in.read <= typed
    /\ in.watched \/ "fdin" \in todo => in.open

\* Nothing is read from standard input, or repeated, before the response; what
\* is repeated was read from it, which has ended.
RepeatInv ==
    /\ ws.recv = "http" => ~in.open /\ ~rep.armed
    /\ ws.recv = "http" => in.read = 0 /\ in.buf = <<>> /\ Pieces(ws.sendbuf) = {}
    /\ rep.armed => ~in.open
    /\ rep.last.op \in {"none", "data", "copies"}

\* A socket that is closed ends the event loop.  After the closing handshake,
\* ws_recv returns at once with nothing left to decode; a plain connection that
\* waits for its last frame to be written is not watched for input.
ClosingInv ==
    /\ ~Open => ws.events = {} /\ ws.tls = "off" /\ done
    /\ pc = "decode" => ws.recv = "ws"
    /\ "close" \in ws.flags => pc \in {"decode"} \cup Stopped /\ ws.recvbuf = <<>>
    /\ "close_on_write" \in ws.flags => ws.flags \cap {"closing", "close"} # {}
    /\ "close_on_write" \in ws.flags /\ ~opt.tls /\ pc \notin {"decode"} \cup Stopped
       => "IN" \notin ws.events

\* ws_recv is going to announce what it has queued.
OutputInv ==
    /\ Open /\ ws.sendbuf # <<>> /\ pc \notin Stopped
    /\ ~Handshaking /\ opt.repeat <= 0
    => "OUT" \in ws.events \/ (pc = "decode" /\ frames)

Inv == /\ TypeOK /\ TlsInv /\ StdinInv /\ RepeatInv /\ ClosingInv /\ OutputInv
       /\ TlsHandshakeWaits /\ StdinInOrder

-----------------------------------------------------------------------------
(* Operations on wssk                                                      *)

\* w is a socket, and differs from v in the named fields at most.
SameBut(w, v, fields) ==
    /\ w \in Wsk
    /\ "recv" \notin fields => w.recv = v.recv
    /\ "tls" \notin fields => w.tls = v.tls
    /\ "events" \notin fields => w.events = v.events
    /\ "flags" \notin fields => w.flags = v.flags
    /\ "sendbuf" \notin fields => w.sendbuf = v.sendbuf
    /\ "recvbuf" \notin fields => w.recvbuf = v.recvbuf

\* Turning events on or off changes nothing else, setting flags neither.
LEMMA Turned ==
    ASSUME NEW w \in Wsk, NEW e \in SUBSET {"IN", "OUT"}
    PROVE  /\ SameBut(turn_on(w, e), w, {"events"})
           /\ turn_on(w, e).events = w.events \cup e
           /\ SameBut(turn_off(w, e), w, {"events"})
           /\ turn_off(w, e).events = w.events \ e
  BY DEF SameBut, Wsk, turn_on, turn_off

\* Setting flags of a socket changes nothing else,
LEMMA Flagged ==
    ASSUME NEW w \in Wsk, NEW f \in SUBSET Flags
    PROVE  /\ SameBut(Flag(w, f), w, {"flags"})
           /\ Flag(w, f).flags = w.flags \cup f
  BY DEF SameBut, Wsk, Flag

\* nor does setting its receive buffer,
LEMMA WithRecvbuf ==
    ASSUME NEW w \in Wsk, NEW b \in Seq(NetToks \cup {"raw"})
    PROVE  /\ SameBut([w EXCEPT !.recvbuf = b], w, {"recvbuf"})
           /\ [w EXCEPT !.recvbuf = b].recvbuf = b
  BY DEF SameBut, Wsk, NetToks

\* its send buffer,
LEMMA WithSendbuf ==
    ASSUME NEW w \in Wsk, NEW b \in Seq(Frames)
    PROVE  /\ SameBut([w EXCEPT !.sendbuf = b], w, {"sendbuf"})
           /\ [w EXCEPT !.sendbuf = b].sendbuf = b
  BY DEF SameBut, Wsk

\* or its TLS state.
LEMMA WithTls ==
    ASSUME NEW w \in Wsk, NEW t \in {"again", "on"}
    PROVE  /\ SameBut([w EXCEPT !.tls = t], w, {"tls"})
           /\ [w EXCEPT !.tls = t].tls = t
  BY DEF SameBut, Wsk

\* The frames the program queues.
LEMMA FrameTypes ==
    /\ \A op \in Ops : Frame(op) \in Frames /\ Frame(op).op = op
    /\ \A n \in 1 .. MaxTyped : Piece(n) \in Frames /\ Piece(n).op = "data"
                                /\ Piece(n).n = n
    /\ None \notin Frames /\ None.op = "none"
  BY WscatAssumption DEF Frame, Piece, None, Frames, Ops

\* w is v with f appended to its sendbuf, where there was room for it.
Puts(w, v, f, more) ==
    /\ SameBut(w, v, more \cup {"sendbuf"})
    /\ w.sendbuf = Append(v.sendbuf, f)
    /\ Len(w.sendbuf) <= SendCap

\* One frame behind those in the send buffer.
LEMMA PutOne ==
    ASSUME NEW w \in Wsk, NEW f \in Frames, Fits(w)
    PROVE  Puts(Put(w, f), w, f, {})
<1>1. Append(w.sendbuf, f) \in Seq(Frames) /\ Len(Append(w.sendbuf, f)) = Len(w.sendbuf) + 1
  BY AppendProperties DEF Wsk
<1>2. Len(w.sendbuf) \in Nat
  BY LenProperties DEF Wsk
<1>3. Put(w, f) = [w EXCEPT !.sendbuf = Append(w.sendbuf, f)]
  BY DEF Put, Wsk
<1>4. SameBut(Put(w, f), w, {"sendbuf"}) /\ Put(w, f).sendbuf = Append(w.sendbuf, f)
  BY <1>1, <1>3, WithSendbuf
<1>5. SendCap \in Nat
  BY WscatAssumption
<1> QED BY <1>1, <1>2, <1>4, <1>5 DEF Puts, Fits

\* Frames that are queued and announced.
LEMMA Announced ==
    ASSUME NEW w \in Wsk, Fits(w)
    PROVE  /\ Puts(ws_ping(w), w, Frame("ping"), {"events"})
           /\ ws_ping(w).events = w.events \cup {"OUT"}
           /\ Puts(ws_pong(w), w, Frame("pong"), {"events"})
           /\ ws_pong(w).events = w.events \cup {"OUT"}
           /\ Puts(ws_start_closing_handshake(w), w, Frame("close"), {"events", "flags"})
           /\ ws_start_closing_handshake(w).events = w.events \cup {"OUT"}
           /\ ws_start_closing_handshake(w).flags = w.flags \cup {"closing"}
<1>1. ASSUME NEW v \in Wsk, Fits(v), NEW op \in Ops
      PROVE  /\ Puts(turn_on(Put(v, Frame(op)), {"OUT"}), v, Frame(op), {"events"})
             /\ turn_on(Put(v, Frame(op)), {"OUT"}).events = v.events \cup {"OUT"}
  <2>1. Puts(Put(v, Frame(op)), v, Frame(op), {})
    BY <1>1, PutOne, FrameTypes
  <2>2. Put(v, Frame(op)) \in Wsk
    BY <2>1 DEF Puts, SameBut
  <2>3. /\ SameBut(turn_on(Put(v, Frame(op)), {"OUT"}), Put(v, Frame(op)), {"events"})
        /\ turn_on(Put(v, Frame(op)), {"OUT"}).events = Put(v, Frame(op)).events \cup {"OUT"}
    BY <2>2, Turned
  <2> QED BY <2>1, <2>3 DEF Puts, SameBut
<1>2. /\ Puts(ws_ping(w), w, Frame("ping"), {"events"})
      /\ ws_ping(w).events = w.events \cup {"OUT"}
      /\ Puts(ws_pong(w), w, Frame("pong"), {"events"})
      /\ ws_pong(w).events = w.events \cup {"OUT"}
  BY <1>1 DEF ws_ping, ws_pong, Ops
<1>3. /\ Puts(ws_start_closing_handshake(w), w, Frame("close"), {"events", "flags"})
      /\ ws_start_closing_handshake(w).events = w.events \cup {"OUT"}
      /\ ws_start_closing_handshake(w).flags = w.flags \cup {"closing"}
  <2> DEFINE v == Flag(w, {"closing"})
  <2>1. SameBut(v, w, {"flags"}) /\ v.flags = w.flags \cup {"closing"}
    BY Flagged DEF Flags
  <2>2. v \in Wsk /\ Fits(v)
    BY <2>1 DEF SameBut, Fits
  <2> HIDE DEF v
  <2>3. /\ Puts(turn_on(Put(v, Frame("close")), {"OUT"}), v, Frame("close"), {"events"})
        /\ turn_on(Put(v, Frame("close")), {"OUT"}).events = v.events \cup {"OUT"}
    BY <1>1, <2>2 DEF Ops
  <2>4. ws_start_closing_handshake(w) = turn_on(Put(v, Frame("close")), {"OUT"})
    BY DEF ws_start_closing_handshake, v
  <2> QED BY <2>1, <2>3, <2>4 DEF Puts, SameBut
<1> QED BY <1>2, <1>3

-----------------------------------------------------------------------------
(* How a step keeps the invariant                                          *)

\* What holds of wssk at w when the program is at p; f says if the running recv
\* has decoded a frame.
WsInv(w, p, f) ==
    /\ w \in Wsk /\ Len(w.sendbuf) <= SendCap
    /\ w.tls # "off" => opt.tls
    /\ w.recv # "free" /\ opt.tls => w.tls # "off"
    /\ w.recv = "free" => w.events = {} /\ w.tls = "off"
    /\ p = "decode" => w.recv = "ws"
    /\ "close" \in w.flags => p \in {"decode"} \cup Stopped /\ w.recvbuf = <<>>
    /\ "close_on_write" \in w.flags => w.flags \cap {"closing", "close"} # {}
    /\ "close_on_write" \in w.flags /\ ~opt.tls /\ p \notin {"decode"} \cup Stopped
       => "IN" \notin w.events
    /\ /\ w.recv # "free" /\ w.sendbuf # <<>> /\ p \notin Stopped
       /\ w.tls \notin {"handshake", "again"} /\ opt.repeat <= 0
       => "OUT" \in w.events \/ (p = "decode" /\ f)
    /\ w.tls = "handshake" => /\ w.recv = "http" /\ w.recvbuf = <<>> /\ w.events # {}
                             /\ p \notin {"recv", "decode"}

\* The pieces in the sendbuf b and then those in buf are the last ones read.
Order(b, buf, read) ==
    LET queued == read - Len(buf)
    IN  /\ \A i, j \in Pieces(b) :
              i < j /\ (\A k \in Pieces(b) : k <= i \/ j <= k) => b[j].n = b[i].n + 1
        /\ \A i \in Pieces(b) : (\A k \in Pieces(b) : k <= i) => b[i].n = queued
        /\ \A i \in 1 .. Len(buf) : buf[i] = queued + i

\* The pieces of the sendbuf c are the last ones of b.
Carries(c, b) ==
    /\ Order(b, in.buf, in.read) => Order(c, in.buf, in.read)
    /\ Pieces(b) = {} => Pieces(c) = {}

PCs == {"loop", "epoll_wait", "events", "recv", "decode"} \cup Stopped
NetOK(n) == /\ n \in Seq(NetToks \cup {"record"})
            /\ ~opt.tls => n \in Seq(NetToks)

\* The invariant, taken apart.
LEMMA InvParts ==
    Inv <=> /\ WsInv(ws, pc, frames)
            /\ StdinInv /\ RepeatInv
            /\ in.open /\ ws.recv # "free" => Order(ws.sendbuf, in.buf, in.read)
            /\ NetOK(net)
            /\ opt \in Options
            /\ in \in [open : BOOLEAN, watched : BOOLEAN, read : 0 .. MaxTyped,
                       buf : Seq(1 .. MaxTyped)]
            /\ rep \in [num : -1 .. opt.repeat, armed : BOOLEAN, last : Frames \cup {None}]
            /\ done \in BOOLEAN /\ (ws.recv = "free" => done)
            /\ pc \in PCs /\ todo \subseteq {"wssk", "fdin"}
            /\ frames \in BOOLEAN /\ peer \in {"syn", "up", "fin", "refused"}
            /\ typed \in 0 .. MaxTyped /\ eof \in BOOLEAN
<1>1. StdinInOrder <=> (in.open /\ ws.recv # "free" => Order(ws.sendbuf, in.buf, in.read))
  BY DEF StdinInOrder, Order, Open
<1>2. TypeOK /\ TlsInv /\ ClosingInv /\ OutputInv /\ TlsHandshakeWaits
      <=> /\ WsInv(ws, pc, frames) /\ NetOK(net)
          /\ opt \in Options
          /\ in \in [open : BOOLEAN, watched : BOOLEAN, read : 0 .. MaxTyped,
                     buf : Seq(1 .. MaxTyped)]
          /\ rep \in [num : -1 .. opt.repeat, armed : BOOLEAN, last : Frames \cup {None}]
          /\ done \in BOOLEAN /\ (ws.recv = "free" => done)
          /\ pc \in PCs /\ todo \subseteq {"wssk", "fdin"}
          /\ frames \in BOOLEAN /\ peer \in {"syn", "up", "fin", "refused"}
          /\ typed \in 0 .. MaxTyped /\ eof \in BOOLEAN
  BY Zenon DEF TypeOK, TlsInv, ClosingInv, OutputInv, TlsHandshakeWaits, WsInv, NetOK, Open,
               Handshaking, PCs, NetToks
<1> QED BY <1>1, <1>2 DEF Inv

\* The invariant after a step, put together.  The step keeps opt.
LEMMA InvPut ==
    ASSUME opt' = opt, opt \in Options,
           WsInv(ws', pc', frames'), StdinInv', RepeatInv',
           in'.open /\ ws'.recv # "free" => Order(ws'.sendbuf, in'.buf, in'.read),
           NetOK(net'),
           in' \in [open : BOOLEAN, watched : BOOLEAN, read : 0 .. MaxTyped,
                    buf : Seq(1 .. MaxTyped)],
           rep' \in [num : -1 .. opt.repeat, armed : BOOLEAN, last : Frames \cup {None}],
           done' \in BOOLEAN, ws'.recv = "free" => done',
           pc' \in PCs, todo' \subseteq {"wssk", "fdin"},
           frames' \in BOOLEAN, peer' \in {"syn", "up", "fin", "refused"},
           typed' \in 0 .. MaxTyped, eof' \in BOOLEAN
    PROVE  Inv'
<1>1. StdinInOrder'
  BY DEF StdinInOrder, Order, Open
<1>2. TypeOK' /\ TlsInv' /\ ClosingInv' /\ OutputInv' /\ TlsHandshakeWaits'
  BY Zenon DEF TypeOK, TlsInv, ClosingInv, OutputInv, TlsHandshakeWaits, WsInv, NetOK, Open,
               Handshaking, PCs, NetToks
<1> QED BY <1>1, <1>2 DEF Inv

\* A step that leaves standard input and the repeats alone.
LEMMA WsStep ==
    ASSUME Inv, UNCHANGED <<opt, in, rep, typed, eof, peer>>,
           WsInv(ws', pc', frames'), NetOK(net'),
           ws'.recv \in {ws.recv, "free"},
           ws'.recv # "free" => Carries(ws'.sendbuf, ws.sendbuf),
           pc' \in PCs, frames' \in BOOLEAN, todo' \subseteq todo,
           done' \in BOOLEAN, ws'.recv = "free" => done'
    PROVE  Inv'
<1> USE InvParts
<1>1. StdinInv'
  BY DEF StdinInv
<1>2. RepeatInv'
  BY DEF RepeatInv, Carries
<1>3. in'.open /\ ws'.recv # "free" => Order(ws'.sendbuf, in'.buf, in'.read)
  BY DEF Carries
<1> QED BY <1>1, <1>2, <1>3, InvPut

\* The sendbuf is left alone.
LEMMA CarriesSame == \A b : Carries(b, b)
  BY DEF Carries

\* A frame that is no piece is appended.
LEMMA CarriesAppend ==
    ASSUME NEW b \in Seq(Frames), NEW f \in Frames, f.op # "data"
    PROVE  Carries(Append(b, f), b)
<1> DEFINE c == Append(b, f)
<1>1. /\ Len(b) \in Nat /\ Len(c) = Len(b) + 1
      /\ \A i \in 1 .. Len(b) : c[i] = b[i]
      /\ c[Len(b) + 1] = f
  BY AppendProperties, LenProperties
<1> HIDE DEF c
<1>2. Pieces(c) = Pieces(b) /\ \A i \in Pieces(b) : c[i] = b[i]
  BY <1>1 DEF Pieces
<1>3. Carries(c, b)
  BY <1>2 DEF Carries, Order
<1> QED BY <1>3 DEF c

\* The first k frames are written.
LEMMA CarriesRest ==
    ASSUME NEW b \in Seq(Frames), NEW k \in 0 .. Len(b)
    PROVE  Carries(SubSeq(b, k + 1, Len(b)), b)
<1> DEFINE c == SubSeq(b, k + 1, Len(b))
<1>0. Len(b) \in Nat /\ k \in Nat /\ k <= Len(b)
  BY LenProperties
<1>1. /\ Len(c) = Len(b) - k
      /\ \A i \in 1 .. Len(c) : c[i] = b[k + i]
  BY <1>0, SubSeqProperties
<1> HIDE DEF c
<1>2. \A i \in Pieces(c) : i \in Int /\ k + i \in Pieces(b) /\ c[i] = b[k + i]
  BY <1>0, <1>1 DEF Pieces
<1>3. \A j \in Pieces(b) : j \in Int /\ (j > k => j - k \in Pieces(c))
  BY <1>0, <1>1 DEF Pieces
<1>4. ASSUME Order(b, in.buf, in.read), NEW i \in Pieces(c), NEW j \in Pieces(c), i < j,
             \A h \in Pieces(c) : h <= i \/ j <= h
      PROVE  c[j].n = c[i].n + 1
  <2>1. k + i < k + j /\ k + i \in Pieces(b) /\ k + j \in Pieces(b)
    BY <1>0, <1>2, <1>4
  <2>2. ASSUME NEW h \in Pieces(b)
        PROVE  h <= k + i \/ k + j <= h
    <3>1. CASE h > k
      <4>1. h - k \in Pieces(c) /\ h \in Int
        BY <1>3, <3>1
      <4>2. h - k <= i \/ j <= h - k
        BY <1>4, <4>1
      <4> QED BY <1>0, <1>2, <4>1, <4>2
    <3>2. CASE h <= k
      BY <1>0, <1>1, <1>3, <3>2 DEF Pieces
    <3>3. h \in Int
      BY <1>3
    <3> QED BY <1>0, <3>1, <3>2, <3>3
  <2>3. b[k + j].n = b[k + i].n + 1
    BY <1>4, <2>1, <2>2 DEF Order
  <2> QED BY <1>2, <2>3
<1>5. ASSUME Order(b, in.buf, in.read), NEW i \in Pieces(c),
             \A h \in Pieces(c) : h <= i
      PROVE  c[i].n = in.read - Len(in.buf)
  <2>1. k + i \in Pieces(b)
    BY <1>2
  <2>2. ASSUME NEW h \in Pieces(b)
        PROVE  h <= k + i
    <3>1. CASE h > k
      <4>1. h - k \in Pieces(c) /\ h \in Int
        BY <1>3, <3>1
      <4>2. h - k <= i
        BY <1>5, <4>1
      <4> QED BY <1>0, <1>2, <4>1, <4>2
    <3>2. CASE h <= k
      BY <1>0, <1>1, <1>3, <3>2 DEF Pieces
    <3>3. h \in Int
      BY <1>3
    <3> QED BY <1>0, <3>1, <3>2, <3>3
  <2>3. b[k + i].n = in.read - Len(in.buf)
    BY <1>5, <2>1, <2>2 DEF Order
  <2> QED BY <1>2, <2>3
<1>6. Order(b, in.buf, in.read) => Order(c, in.buf, in.read)
  BY <1>4, <1>5 DEF Order
<1>7. Pieces(b) = {} => Pieces(c) = {}
  BY <1>2
<1> QED BY <1>6, <1>7 DEF Carries, c

\* Reading k tokens off the net leaves it well-formed.
LEMMA NetRest ==
    ASSUME NetOK(net), NEW k \in 0 .. Len(net)
    PROVE  NetOK(SubSeq(net, k + 1, Len(net)))
<1>1. ASSUME NEW S, net \in Seq(S)
      PROVE  SubSeq(net, k + 1, Len(net)) \in Seq(S)
  <2>1. Len(net) \in Nat /\ k \in Nat /\ \A i \in 1 .. Len(net) : net[i] \in S
    BY <1>1, LenProperties, ElementOfSeq
  <2>2. \A i \in k + 1 .. Len(net) : net[i] \in S
    BY <2>1
  <2> QED BY <1>1, <2>1, <2>2, SubSeqProperties
<1> QED BY <1>1 DEF NetOK

-----------------------------------------------------------------------------
(* Events of wssk                                                          *)

\* A step that leaves everything but wssk, done, pc, todo and frames alone.
LEMMA GotoStep ==
    ASSUME Inv, NEW w, NEW next \in PCs, Goto(w, next), UNCHANGED <<in, rep>>,
           WsInv(w, next, frames'), w.recv \in {ws.recv, "free"},
           w.recv # "free" => Carries(w.sendbuf, ws.sendbuf),
           frames' \in BOOLEAN, todo' \subseteq todo,
           done' \in BOOLEAN, w.recv = "free" => done'
    PROVE  Inv'
  BY InvParts, WsStep DEF Goto

\* wssk_close.
LEMMA CloseStep ==
    ASSUME Inv, wssk_close, UNCHANGED <<in, rep>>, frames' \in BOOLEAN, todo' \subseteq todo
    PROVE  Inv'
<1>1. WskDestroyed \in Wsk
  BY EmptySeq DEF WskDestroyed, Wsk
<1>2. WsInv(WskDestroyed, "events", frames')
  <2>1. Len(WskDestroyed.sendbuf) <= SendCap
    BY EmptySeq, WscatAssumption DEF WskDestroyed
  <2> QED BY <1>1, <2>1 DEF WsInv, WskDestroyed
<1>3. WskDestroyed.recv = "free" /\ "events" \in PCs
  BY DEF WskDestroyed, PCs
<1>4. done' = TRUE
  BY DEF wssk_close
<1> QED BY <1>2, <1>3, <1>4, GotoStep DEF wssk_close

\* The program exits, or runs into undefined behaviour.
LEMMA Halts ==
    ASSUME Inv, NEW next \in Stopped, Goto(ws, next), UNCHANGED <<in, rep>>,
           frames' = frames, done' = done, todo' \subseteq todo
    PROVE  Inv'
<1>1. WsInv(ws, next, frames')
  BY InvParts DEF WsInv, Stopped
<1>2. /\ next \in PCs /\ frames' \in BOOLEAN
      /\ done' \in BOOLEAN /\ (ws.recv = "free" => done')
  BY InvParts DEF PCs
<1> QED BY <1>1, <1>2, CarriesSame, GotoStep

\* ts_last_io does not matter.
LEMMA Stamped ==
    ASSUME NEW w, NEW p \in {"events", "recv"}, NEW f, NEW g, WsInv(w, "events", f),
           p = "recv" => w.recvbuf # <<>>
    PROVE  /\ WsInv(Flag(w, {"ts_last_io"}), p, g)
           /\ Flag(w, {"ts_last_io"}).recv = w.recv
           /\ Flag(w, {"ts_last_io"}).sendbuf = w.sendbuf
<1> DEFINE v == Flag(w, {"ts_last_io"})
<1>1. SameBut(v, w, {"flags"}) /\ v.flags = w.flags \cup {"ts_last_io"}
  BY Flagged DEF WsInv, Flags
<1> HIDE DEF v
<1>2. WsInv(v, p, g)
  BY <1>1 DEF WsInv, SameBut, Stopped
<1> QED BY <1>1, <1>2 DEF v, SameBut

\* on_read, once read has left wssk at w.
LEMMA PostRead ==
    ASSUME Inv, NEW w, NEW k \in 0 .. Len(net), post_read(w, k), todo' \subseteq todo,
           WsInv(w, "events", FALSE), w.recv = ws.recv, Carries(w.sendbuf, ws.sendbuf)
    PROVE  Inv'
<1>1. NetOK(net')
  BY NetRest, InvParts DEF post_read
<1>2. pc' \in {"events", "recv"} /\ frames' = FALSE /\ ws' = Flag(w, {"ts_last_io"})
      /\ done' = done /\ UNCHANGED <<opt, in, rep, typed, eof, peer>>
      /\ (pc' = "recv" => w.recvbuf # <<>>)
  BY DEF post_read
<1>3. WsInv(ws', pc', frames') /\ ws'.recv = w.recv /\ ws'.sendbuf = w.sendbuf
  BY <1>2, Stamped
<1>4. pc' \in PCs /\ done' \in BOOLEAN /\ (ws.recv = "free" => done')
  BY <1>2, InvParts DEF PCs
<1> QED BY <1>1, <1>2, <1>3, <1>4, WsStep

\* on_write, once write has left wssk at w.
LEMMA OnWritten ==
    ASSUME Inv, NEW w, Written(w), todo' \subseteq todo,
           WsInv(w, "events", FALSE), w.recv = ws.recv, Carries(w.sendbuf, ws.sendbuf)
    PROVE  Inv'
<1>1. UNCHANGED <<in, rep, frames>> /\ frames' \in BOOLEAN
  BY InvParts DEF Written
<1>2. CASE wssk_close
  BY <1>1, <1>2, CloseStep
<1>3. CASE Goto(Flag(w, {"ts_last_io"}), "events") /\ UNCHANGED done
  <2> DEFINE v == Flag(w, {"ts_last_io"})
  <2>1. WsInv(v, "events", frames') /\ v.recv = ws.recv /\ v.sendbuf = w.sendbuf
    BY Stamped
  <2>2. /\ Goto(v, "events") /\ "events" \in PCs
        /\ done' \in BOOLEAN /\ (ws.recv = "free" => done')
    BY <1>3, InvParts DEF PCs
  <2> HIDE DEF v
  <2> QED BY <1>1, <2>1, <2>2, GotoStep
<1> QED BY <1>2, <1>3 DEF Written

\* Watching for less input or output.
LEMMA TurnedOff ==
    ASSUME Inv, pc = "events"
    PROVE  /\ WsInv(ws, "events", FALSE)
           /\ ws.tls # "handshake"
              => WsInv(turn_off(ws, {"IN"}), "events", FALSE)
           /\ \/ ws.tls = "again"
              \/ ws.sendbuf = <<>> /\ ws.tls \notin {"handshake", "again"}
              => WsInv(turn_off(ws, {"OUT"}), "events", FALSE)
           /\ \A e \in SUBSET {"IN", "OUT"} :
                 /\ SameBut(turn_off(ws, e), ws, {"events"})
                 /\ turn_off(ws, e).events = ws.events \ e
<1>1. WsInv(ws, "events", FALSE) /\ ws \in Wsk
  BY InvParts DEF WsInv
<1>2. \A e \in SUBSET {"IN", "OUT"} : /\ SameBut(turn_off(ws, e), ws, {"events"})
                                      /\ turn_off(ws, e).events = ws.events \ e
  BY <1>1, Turned
<1>3. ASSUME NEW w, SameBut(w, ws, {"events"}), w.events = ws.events \ {"IN"},
             ws.tls # "handshake"
      PROVE  WsInv(w, "events", FALSE)
  BY <1>1, <1>3 DEF WsInv, SameBut
<1>4. ASSUME NEW w, SameBut(w, ws, {"events"}), w.events = ws.events \ {"OUT"},
             \/ ws.tls = "again"
             \/ ws.sendbuf = <<>> /\ ws.tls \notin {"handshake", "again"}
      PROVE  WsInv(w, "events", FALSE)
  BY <1>1, <1>4 DEF WsInv, SameBut
<1> QED BY <1>1, <1>2, <1>3, <1>4

\* New input is of the type of what was there.
LEMMA JoinType ==
    ASSUME NEW S, NEW b \in Seq(S), NEW q \in Seq(S)
    PROVE  Join(b, q) \in Seq(S)
<1>1. b # <<>> => Front(b) \in Seq(S)
  BY DEF Front
<1> QED BY <1>1, ConcatProperties DEF Join

\* wssk_tls_handshake, called with wssk at v: one event turned off.
LEMMA HandshakeInv ==
    ASSUME Inv, pc = "events", ws.tls \in {"handshake", "again"},
           NEW v, SameBut(v, ws, {"events"}), NEW w \in wssk_tls_handshake(v)
    PROVE  WsInv(w, "events", FALSE) /\ w.recv = ws.recv /\ Carries(w.sendbuf, ws.sendbuf)
<1>0. /\ WsInv(ws, "events", FALSE) /\ ws \in Wsk /\ v \in Wsk /\ opt.tls
      /\ ws.sendbuf \in Seq(Frames)
  BY TurnedOff DEF WsInv, SameBut, Wsk
<1>1. CASE w = turn_on(v, {"IN"}) \/ w = turn_on(v, {"OUT"})
  <2>1. PICK e \in {"IN", "OUT"} : w = turn_on(v, {e})
    BY <1>1
  <2>2. SameBut(w, v, {"events"}) /\ w.events = v.events \cup {e}
    BY <1>0, <2>1, Turned
  <2> HIDE <1>1, <2>1
  <2>3. WsInv(w, "events", FALSE)
    BY <1>0, <2>2 DEF WsInv, SameBut
  <2> QED BY <2>2, <2>3, CarriesSame DEF SameBut
<1>2. CASE w = turn_on(create_http_req([v EXCEPT !.tls = "on"]), {"IN", "OUT"})
  <2> DEFINE x == [v EXCEPT !.tls = "on"]
             y == create_http_req(x)
  <2>1. SameBut(x, v, {"tls"}) /\ x.tls = "on"
    BY <1>0, WithTls
  <2>2. x \in Wsk /\ Frame("req") \in Frames /\ Frame("req").op = "req"
    BY <2>1, FrameTypes DEF SameBut, Ops
  <2> HIDE DEF x
  <2>3. y = x \/ Puts(y, x, Frame("req"), {})
    BY <2>2, PutOne DEF create_http_req
  <2>4. /\ SameBut(y, x, {"sendbuf"}) /\ Len(y.sendbuf) <= SendCap
        /\ y.sendbuf = ws.sendbuf \/ y.sendbuf = Append(ws.sendbuf, Frame("req"))
    BY <1>0, <2>1, <2>2, <2>3 DEF Puts, SameBut, WsInv
  <2> HIDE DEF y
  <2>5. SameBut(w, y, {"events"}) /\ w.events = y.events \cup {"IN", "OUT"}
    BY <1>2, <2>4, Turned DEF y, x, SameBut
  <2>6. WsInv(w, "events", FALSE) /\ w.recv = ws.recv /\ w.sendbuf = y.sendbuf
    BY <1>0, <2>1, <2>4, <2>5 DEF WsInv, SameBut
  <2>7. Carries(w.sendbuf, ws.sendbuf)
    BY <1>0, <2>2, <2>4, <2>6, CarriesSame, CarriesAppend
  <2> QED BY <2>6, <2>7
<1> QED BY <1>1, <1>2 DEF wssk_tls_handshake

\* The handlers of wssk.
LEMMA OnReadInv ==
    ASSUME Inv, \/ OnReadFails \/ OnReadFull \/ OnReadData \/ OnReadEnd
                \/ TlsReadNothing \/ TlsHandshakeRead
    PROVE  Inv'
<1>0. /\ pc = "events" /\ todo' \subseteq todo /\ "IN" \in ws.events
      /\ WsInv(ws, "events", FALSE) /\ ws \in Wsk
      /\ Len(net) \in Nat /\ NetOK(net) /\ net \in Seq(NetToks \cup {"record"})
      /\ frames \in BOOLEAN
  <2>1. pc = "events" /\ todo' \subseteq todo /\ "IN" \in ws.events
    BY DEF OnReadFails, OnReadFull, OnReadData, OnReadEnd, TlsReadNothing,
           TlsHandshakeRead, OnRead, OnEvent
  <2>2. WsInv(ws, "events", FALSE) /\ ws \in Wsk
    BY <2>1, TurnedOff DEF WsInv
  <2>3. NetOK(net) /\ net \in Seq(NetToks \cup {"record"}) /\ frames \in BOOLEAN
    BY InvParts DEF NetOK
  <2> QED BY <2>1, <2>2, <2>3, LenProperties
<1>1. CASE OnReadFails
  BY <1>0, <1>1, Halts DEF OnReadFails, Stopped
<1>2. CASE OnReadEnd
  BY <1>0, <1>2, CloseStep DEF OnReadEnd
<1>3. CASE OnReadFull
  <2> DEFINE w == turn_off(ws, {"IN"})
  <2>1. post_read(w, 0) /\ ws.tls \notin {"handshake", "again"}
    BY <1>3 DEF OnReadFull, Handshaking
  <2>2. WsInv(w, "events", FALSE) /\ SameBut(w, ws, {"events"})
    BY <1>0, <2>1, TurnedOff
  <2> HIDE DEF w
  <2>3. w.recv = ws.recv /\ w.sendbuf = ws.sendbuf /\ 0 \in 0 .. Len(net)
    BY <1>0, <2>2 DEF SameBut
  <2> QED BY <1>0, <2>1, <2>2, <2>3, CarriesSame, PostRead
<1>4. CASE OnReadData
  <2> DEFINE room == RecvCap - Len(ws.recvbuf)
             k == Smaller(room, IF ws.tls = "on" THEN 1 ELSE Len(net))
             w == [ws EXCEPT !.recvbuf = Join(ws.recvbuf, SubSeq(net, 1, k))]
  <2>1. /\ post_read([ws EXCEPT !.recvbuf = Join(@, SubSeq(net, 1, k))], k)
        /\ ws.tls \notin {"handshake", "again"} /\ room > 0 /\ net # <<>> /\ Head(net) # "record"
        /\ OnReadAsserts
    BY <1>4 DEF OnReadData, Handshaking, post_read
  <2>2. post_read(w, k)
    BY <1>0, <2>1 DEF Wsk
  <2>3. room \in Int /\ Len(net) > 0 /\ Head(net) = net[1]
    BY <1>0, <2>1, LenProperties, WscatAssumption, EmptySeq DEF Wsk
  <2> HIDE DEF room
  <2>4. k \in 1 .. Len(net) /\ (ws.tls = "on" => k = 1)
    BY <1>0, <2>1, <2>3 DEF Smaller
  <2> HIDE DEF k
  <2>5. \A i \in 1 .. k : net[i] \in NetToks
    <3>1. CASE opt.tls
      <4>1. k = 1
        BY <1>0, <2>1, <2>4, <3>1 DEF WsInv, OnReadAsserts, Wsk
      <4>2. net[1] \in NetToks \cup {"record"} /\ net[1] # "record"
        BY <1>0, <2>1, <2>3, ElementOfSeq
      <4> QED BY <4>1, <4>2
    <3>2. CASE ~opt.tls
      <4>1. net \in Seq(NetToks)
        BY <1>0, <3>2 DEF NetOK
      <4>2. \A i \in 1 .. k : i \in 1 .. Len(net)
        BY <1>0, <2>4
      <4> QED BY <4>1, <4>2, ElementOfSeq
    <3> QED BY <3>1, <3>2
  <2>6. SubSeq(net, 1, k) \in Seq(NetToks \cup {"raw"})
    BY <1>0, <2>4, <2>5, SubSeqProperties
  <2>7. Join(ws.recvbuf, SubSeq(net, 1, k)) \in Seq(NetToks \cup {"raw"})
    BY <1>0, <2>6, JoinType DEF Wsk, NetToks
  <2>8. SameBut(w, ws, {"recvbuf"})
    BY <1>0, <2>7, WithRecvbuf
  <2> HIDE DEF w
  <2>9. WsInv(w, "events", FALSE) /\ w.recv = ws.recv /\ w.sendbuf = ws.sendbuf
    BY <1>0, <2>1, <2>8 DEF WsInv, SameBut, OnReadAsserts
  <2>10. k \in 0 .. Len(net)
    BY <1>0, <2>4
  <2> QED BY <1>0, <2>2, <2>9, <2>10, CarriesSame, PostRead
<1>5. CASE TlsReadNothing
  <2>1. 1 \in 0 .. Len(net) /\ ws.tls = "on"
    BY <1>0, <1>5, EmptySeq, LenProperties DEF TlsReadNothing
  <2>2. CASE post_read(ws, 1)
    BY <1>0, <2>1, <2>2, CarriesSame, PostRead
  <2>3. CASE post_read(turn_on([ws EXCEPT !.tls = "again"], {"OUT"}), 1)
    <3> DEFINE v == [ws EXCEPT !.tls = "again"]
               w == turn_on(v, {"OUT"})
    <3>1. SameBut(v, ws, {"tls"}) /\ v.tls = "again" /\ v \in Wsk
      BY <1>0, WithTls DEF SameBut
    <3> HIDE DEF v
    <3>2. SameBut(w, v, {"events"}) /\ w.events = v.events \cup {"OUT"}
      BY <3>1, Turned
    <3> HIDE DEF w
    <3>3. WsInv(w, "events", FALSE) /\ w.recv = ws.recv /\ w.sendbuf = ws.sendbuf
      BY <1>0, <2>1, <3>1, <3>2 DEF WsInv, SameBut
    <3>4. post_read(w, 1)
      BY <2>3 DEF w, v
    <3> QED BY <1>0, <2>1, <3>3, <3>4, CarriesSame, PostRead
  <2> QED BY <1>5, <2>2, <2>3 DEF TlsReadNothing
<1>6. CASE TlsHandshakeRead
  <2>1. 1 \in 0 .. Len(net) /\ ws.tls \in {"handshake", "again"}
    BY <1>0, <1>6, EmptySeq, LenProperties DEF TlsHandshakeRead, Handshaking
  <2>2. PICK w \in wssk_tls_handshake(turn_off(ws, {"IN"})) : post_read(w, 1)
    BY <1>6 DEF TlsHandshakeRead
  <2>3. SameBut(turn_off(ws, {"IN"}), ws, {"events"})
    BY <1>0, TurnedOff
  <2>4. WsInv(w, "events", FALSE) /\ w.recv = ws.recv /\ Carries(w.sendbuf, ws.sendbuf)
    BY <1>0, <2>1, <2>2, <2>3, HandshakeInv
  <2> QED BY <1>0, <2>1, <2>2, <2>4, PostRead
<1> QED BY <1>1, <1>2, <1>3, <1>4, <1>5, <1>6

\* Writing to the server, and its failures, keep the invariant.
LEMMA OnWriteInv ==
    ASSUME Inv, \/ TlsHandshakeFails \/ OnWrite \/ TlsWriteRenegotiates
                \/ TlsHandshakeWrite \/ OnWriteFails \/ OnHup \/ NotWritable
    PROVE  Inv'
<1>0. /\ pc = "events" /\ todo' \subseteq todo
      /\ WsInv(ws, "events", FALSE) /\ ws \in Wsk /\ ws.sendbuf \in Seq(Frames)
      /\ Len(ws.sendbuf) \in Nat /\ Len(net) \in Nat
      /\ frames \in BOOLEAN /\ done \in BOOLEAN /\ (ws.recv = "free" => done)
      /\ "events" \in PCs
  <2>1. pc = "events" /\ todo' \subseteq todo
    BY DEF TlsHandshakeFails, OnWrite, TlsWriteRenegotiates, TlsHandshakeWrite,
           OnWriteFails, OnHup, NotWritable, OnWritable, OnEvent
  <2>2. WsInv(ws, "events", FALSE) /\ ws \in Wsk /\ ws.sendbuf \in Seq(Frames)
    BY <2>1, TurnedOff DEF WsInv, Wsk
  <2>3. net \in Seq(NetToks \cup {"record"}) /\ frames \in BOOLEAN /\ done \in BOOLEAN
    BY InvParts DEF NetOK
  <2> QED BY <2>1, <2>2, <2>3, InvParts, LenProperties DEF PCs
<1>1. CASE wssk_close /\ UNCHANGED <<in, rep, frames>>
  BY <1>0, <1>1, CloseStep
<1>2. CASE OnWriteFails
  BY <1>0, <1>1, <1>2, Halts DEF OnWriteFails, Stopped
<1>3. CASE OnHup
  BY <1>1, <1>3 DEF OnHup
<1>4. CASE NotWritable
  <2>1. CASE Goto(ws, "events") /\ UNCHANGED <<in, rep, frames, done>>
    BY <1>0, <2>1, InvParts, CarriesSame, GotoStep
  <2> QED BY <1>1, <1>4, <2>1 DEF NotWritable
<1>5. CASE OnWrite
  <2>1. CASE ws.sendbuf = <<>>
    <3> DEFINE w == turn_off(ws, {"OUT"})
    <3>1. Written(w) /\ ws.tls \notin {"handshake", "again"}
      BY <1>5, <2>1 DEF OnWrite, Handshaking
    <3>2. WsInv(w, "events", FALSE) /\ SameBut(w, ws, {"events"})
      BY <1>0, <2>1, <3>1, TurnedOff
    <3> HIDE DEF w
    <3> QED BY <1>0, <3>1, <3>2, CarriesSame, OnWritten DEF SameBut
  <2>2. CASE ws.sendbuf # <<>>
    <3>1. PICK k \in 1 .. Len(ws.sendbuf) :
             Written([ws EXCEPT !.sendbuf = SubSeq(@, k + 1, Len(@))])
      BY <1>5, <2>2 DEF OnWrite
    <3> DEFINE b == SubSeq(ws.sendbuf, k + 1, Len(ws.sendbuf))
               w == [ws EXCEPT !.sendbuf = b]
    <3>2. Written(w) /\ ws.tls \notin {"handshake", "again"} /\ "OUT" \in ws.events
      BY <1>0, <1>5, <3>1 DEF Wsk, OnWrite, OnWritable, Handshaking
    <3>3. k \in 0 .. Len(ws.sendbuf) /\ \A i \in k + 1 .. Len(ws.sendbuf) : ws.sendbuf[i] \in Frames
      BY <1>0, ElementOfSeq
    <3>4. b \in Seq(Frames) /\ Len(b) <= Len(ws.sendbuf) /\ Carries(b, ws.sendbuf)
      BY <1>0, <3>3, SubSeqProperties, CarriesRest
    <3> HIDE DEF b
    <3>5. SameBut(w, ws, {"sendbuf"}) /\ w.sendbuf = b /\ Len(b) \in Nat /\ SendCap \in Nat
      BY <1>0, <3>4, WithSendbuf, LenProperties, WscatAssumption
    <3> HIDE DEF w
    <3>6. WsInv(w, "events", FALSE)
      BY <1>0, <3>2, <3>4, <3>5 DEF WsInv, SameBut
    <3> QED BY <1>0, <3>2, <3>4, <3>5, <3>6, OnWritten DEF SameBut
  <2> QED BY <2>1, <2>2
<1>6. CASE TlsWriteRenegotiates
  <2> DEFINE v == [ws EXCEPT !.tls = "again"]
             w == turn_on(v, {"IN"})
  <2>1. Written(w) /\ ws.tls = "on"
    BY <1>6 DEF TlsWriteRenegotiates
  <2>2. SameBut(v, ws, {"tls"}) /\ v.tls = "again" /\ v \in Wsk
    BY <1>0, WithTls DEF SameBut
  <2> HIDE DEF v
  <2>3. SameBut(w, v, {"events"}) /\ w.events = v.events \cup {"IN"}
    BY <2>2, Turned
  <2> HIDE DEF w
  <2>4. WsInv(w, "events", FALSE) /\ w.recv = ws.recv /\ w.sendbuf = ws.sendbuf
    BY <1>0, <2>1, <2>2, <2>3 DEF WsInv, SameBut
  <2> QED BY <1>0, <2>1, <2>4, CarriesSame, OnWritten
<1>7. CASE TlsHandshakeWrite
  <2>1. ws.tls \in {"handshake", "again"}
    BY <1>7 DEF TlsHandshakeWrite, Handshaking
  <2>2. PICK w \in wssk_tls_handshake(turn_off(ws, {"OUT"})) : Written(w)
    BY <1>7 DEF TlsHandshakeWrite
  <2>3. SameBut(turn_off(ws, {"OUT"}), ws, {"events"})
    BY <1>0, TurnedOff
  <2>4. WsInv(w, "events", FALSE) /\ w.recv = ws.recv /\ Carries(w.sendbuf, ws.sendbuf)
    BY <1>0, <2>1, <2>2, <2>3, HandshakeInv
  <2> QED BY <1>0, <2>2, <2>4, OnWritten
<1>8. CASE TlsHandshakeFails
  <2>1. CASE ws.tls = "again" /\ post_read(turn_off(ws, {"IN"}), 0)
    <3> DEFINE w == turn_off(ws, {"IN"})
    <3>1. WsInv(w, "events", FALSE) /\ SameBut(w, ws, {"events"}) /\ post_read(w, 0)
      BY <1>0, <2>1, TurnedOff
    <3>2. 0 \in 0 .. Len(net)
      BY <1>0
    <3> HIDE DEF w
    <3> QED BY <1>0, <3>1, <3>2, CarriesSame, PostRead DEF SameBut
  <2>2. CASE ws.tls = "again" /\ Written(turn_off(ws, {"OUT"}))
    <3> DEFINE w == turn_off(ws, {"OUT"})
    <3>1. WsInv(w, "events", FALSE) /\ SameBut(w, ws, {"events"}) /\ Written(w)
      BY <1>0, <2>2, TurnedOff
    <3> HIDE DEF w
    <3> QED BY <1>0, <3>1, CarriesSame, OnWritten DEF SameBut
  <2> QED BY <1>1, <1>8, <2>1, <2>2 DEF TlsHandshakeFails
<1> QED BY <1>2, <1>3, <1>4, <1>5, <1>6, <1>7, <1>8

-----------------------------------------------------------------------------
(* recv of wssk                                                            *)

\* recv has returned and left wssk at w.
LEMMA ReturnInv ==
    ASSUME Inv, NEW w, NEW fatal \in BOOLEAN, RecvReturn(w, fatal), UNCHANGED in,
           frames' \in BOOLEAN, w.recv = ws.recv, w.recv # "free",
           ~fatal /\ "close" \notin w.flags =>
              WsInv(w, "events", frames') /\ Carries(w.sendbuf, ws.sendbuf)
    PROVE  Inv'
<1>1. UNCHANGED <<in, rep>> /\ todo' \subseteq todo
  BY DEF RecvReturn
<1>2. CASE wssk_close
  BY <1>1, <1>2, CloseStep
<1>3. CASE ~fatal /\ "close" \notin w.flags /\ Goto(w, "events") /\ UNCHANGED done
  <2>1. "events" \in PCs /\ done' \in BOOLEAN
    BY <1>3, InvParts DEF PCs
  <2> QED BY <1>1, <1>3, <2>1, GotoStep
<1> QED BY <1>2, <1>3 DEF RecvReturn

\* decode_frame has left wssk at w.
LEMMA DecodedInv ==
    ASSUME Inv, NEW w, Decoded(w), w.recv = ws.recv, WsInv(w, "decode", TRUE),
           Carries(w.sendbuf, ws.sendbuf)
    PROVE  Inv'
<1>1. /\ UNCHANGED <<in, rep>> /\ todo' \subseteq todo /\ frames' = TRUE
      /\ "decode" \in PCs /\ done' \in BOOLEAN /\ (w.recv = "free" => done')
      /\ Goto(w, "decode")
  BY InvParts DEF Decoded, PCs
<1> QED BY <1>1, GotoStep

\* The end of ws_recv.
LEMMA WsReturnInv ==
    ASSUME Inv, pc = "decode", NEW w, NEW fatal \in BOOLEAN, WsReturn(w, fatal),
           SameBut(w, ws, {"recvbuf"}), "close" \in ws.flags => w.recvbuf = <<>>
    PROVE  Inv'
<1> DEFINE v == WsRecvTail(w)
<1>0. WsInv(ws, "decode", frames) /\ w \in Wsk /\ ws.recv = "ws" /\ frames \in BOOLEAN
  BY InvParts DEF WsInv, SameBut
<1>1. /\ SameBut(v, w, {"events"})
      /\ (frames /\ w.sendbuf # <<>>) \/ "OUT" \in w.events => "OUT" \in v.events
      /\ w.flags \cap {"close", "close_on_write"} # {} => "IN" \notin v.events
  <2> DEFINE out == IF frames /\ w.sendbuf # <<>> THEN turn_on(w, {"OUT"}) ELSE w
             in_ == IF frames /\ "close_on_write" \notin w.flags
                    THEN turn_on(out, {"IN"}) ELSE out
  <2>1. SameBut(w, w, {"events"})
    BY <1>0 DEF SameBut
  <2>2. /\ SameBut(out, w, {"events"}) /\ out \in Wsk
        /\ out.events = IF frames /\ w.sendbuf # <<>> THEN w.events \cup {"OUT"} ELSE w.events
    <3>1. CASE frames /\ w.sendbuf # <<>>
      <4>1. SameBut(out, w, {"events"}) /\ out.events = w.events \cup {"OUT"}
        BY <1>0, <3>1, Turned
      <4> QED BY <3>1, <4>1 DEF SameBut
    <3>2. CASE ~(frames /\ w.sendbuf # <<>>)
      <4>1. out = w
        BY <3>2
      <4> HIDE DEF out
      <4> QED BY <1>0, <2>1, <3>2, <4>1
    <3> QED BY <3>1, <3>2
  <2> HIDE DEF out
  <2>3. /\ SameBut(in_, w, {"events"}) /\ in_ \in Wsk
        /\ in_.events \ {"IN"} = out.events \ {"IN"}
    <3>1. CASE in_ = out
      BY <2>2, <3>1
    <3>2. CASE in_ = turn_on(out, {"IN"})
      <4>1. SameBut(in_, out, {"events"}) /\ in_.events = out.events \cup {"IN"}
        BY <2>2, <3>2, Turned
      <4> HIDE DEF in_
      <4> QED BY <2>2, <4>1 DEF SameBut
    <3> QED BY <3>1, <3>2
  <2> HIDE DEF in_
  <2>4. v = IF w.flags \cap {"close", "close_on_write"} # {}
            THEN turn_off(in_, {"IN"}) ELSE in_
    BY DEF WsRecvTail, in_, out
  <2>5. CASE w.flags \cap {"close", "close_on_write"} # {}
    <3>1. SameBut(v, in_, {"events"}) /\ v.events = in_.events \ {"IN"}
      BY <2>3, <2>4, <2>5, Turned
    <3> HIDE DEF v
    <3> QED BY <2>2, <2>3, <3>1 DEF SameBut
  <2>6. CASE w.flags \cap {"close", "close_on_write"} = {}
    <3>1. v = in_
      BY <2>4, <2>6
    <3> HIDE DEF v
    <3> QED BY <2>2, <2>3, <2>6, <3>1
  <2> QED BY <2>5, <2>6
<1>2. RecvReturn(v, fatal) /\ UNCHANGED in /\ frames' = FALSE
  BY DEF WsReturn
<1> HIDE DEF v
<1>3. v.recv = ws.recv /\ v.sendbuf = ws.sendbuf
  BY <1>1 DEF SameBut
<1>4. "close" \notin v.flags => WsInv(v, "events", FALSE)
  BY <1>0, <1>1 DEF WsInv, SameBut, Stopped
<1> QED BY <1>0, <1>2, <1>3, <1>4, CarriesSame, ReturnInv

\* The tail of a recvbuf, possibly with leftover payload before it.
LEMMA TailType ==
    ASSUME NEW w \in Wsk, w.recvbuf # <<>>
    PROVE  /\ Tail(w.recvbuf) \in Seq(NetToks \cup {"raw"})
           /\ <<>> \o Tail(w.recvbuf) \in Seq(NetToks \cup {"raw"})
           /\ <<"raw">> \o Tail(w.recvbuf) \in Seq(NetToks \cup {"raw"})
           /\ <<>> \in Seq(NetToks \cup {"raw"})
<1>1. w.recvbuf \in Seq(NetToks \cup {"raw"})
  BY DEF Wsk, NetToks
<1>2. Tail(w.recvbuf) \in Seq(NetToks \cup {"raw"})
  BY <1>1, HeadTailProperties
<1>3. <<"raw">> \in Seq(NetToks \cup {"raw"}) /\ <<>> \in Seq(NetToks \cup {"raw"})
  BY EmptySeq
<1> QED BY <1>2, <1>3, ConcatProperties

\* http_recv.
LEMMA HttpRecvInv ==
    ASSUME Inv, HttpIncomplete \/ HttpGarbled \/ HttpUpgrade
    PROVE  Inv'
<1>0. /\ pc = "recv" /\ ws.recv = "http" /\ WsInv(ws, "recv", frames) /\ ws \in Wsk
      /\ frames \in BOOLEAN /\ WsInv(ws, "events", frames)
  <2>1. pc = "recv" /\ ws.recv = "http"
    BY DEF HttpIncomplete, HttpGarbled, HttpUpgrade, HttpRecv
  <2>2. WsInv(ws, "recv", frames)
    BY <2>1, InvParts
  <2>3. WsInv(ws, "events", frames)
    BY <2>2 DEF WsInv, Stopped
  <2> QED BY <2>1, <2>2, <2>3, InvParts DEF WsInv
<1>1. CASE HttpIncomplete
  BY <1>0, <1>1, CarriesSame, ReturnInv DEF HttpIncomplete
<1>2. CASE HttpGarbled
  <2> DEFINE w == [ws EXCEPT !.recvbuf = <<>>]
  <2>1. RecvReturn(w, TRUE) /\ UNCHANGED <<in, frames>>
    BY <1>2 DEF HttpGarbled
  <2>2. w.recv = ws.recv
    BY <1>0 DEF Wsk
  <2> HIDE DEF w
  <2> QED BY <1>0, <2>1, <2>2, ReturnInv
<1>3. CASE HttpUpgrade
  <2>1. CASE Exit
    BY <2>1, Halts DEF Exit, Stopped
  <2>2. CASE /\ RecvReturn([ws EXCEPT !.recv = "ws", !.recvbuf = <<>>], FALSE)
             /\ in' = [in EXCEPT !.open = TRUE, !.watched = TRUE]
             /\ UNCHANGED frames
    <3> DEFINE w == [ws EXCEPT !.recv = "ws", !.recvbuf = <<>>]
    <3>1. /\ w \in Wsk /\ w.recv = "ws" /\ w.recvbuf = <<>> /\ w.tls = ws.tls
          /\ w.events = ws.events /\ w.flags = ws.flags /\ w.sendbuf = ws.sendbuf
      BY <1>0, EmptySeq DEF Wsk
    <3>2. RecvReturn(w, FALSE)
      BY <2>2
    <3> HIDE DEF w
    <3>3. "close" \notin ws.flags
      BY <1>0 DEF WsInv, Stopped
    <3>4. /\ ws' = w /\ pc' = "events" /\ UNCHANGED <<opt, net, peer, typed, eof, done, rep, todo>>
      BY <3>1, <3>2, <3>3 DEF RecvReturn, Goto
    <3>5. WsInv(w, "events", frames')
      BY <1>0, <3>1, <3>3, <2>2 DEF WsInv, Stopped
    <3>6. /\ in.read = 0 /\ in.buf = <<>> /\ Pieces(ws.sendbuf) = {} /\ ~rep.armed
          /\ in'.read = in.read /\ in'.buf = in.buf /\ in'.open = TRUE
          /\ in' \in [open : BOOLEAN, watched : BOOLEAN, read : 0 .. MaxTyped,
                      buf : Seq(1 .. MaxTyped)]
      BY <1>0, <2>2, InvParts DEF RepeatInv
    <3>7. StdinInv' /\ RepeatInv'
      BY <3>1, <3>4, <3>6, InvParts DEF StdinInv, RepeatInv
    <3>8. Len(in'.buf) = 0
      BY <3>6, EmptySeq
    <3>9. Order(ws'.sendbuf, in'.buf, in'.read)
      BY <3>1, <3>4, <3>6, <3>8 DEF Order
    <3>10. "events" \in PCs
      BY DEF PCs
    <3> QED BY <2>2, <3>1, <3>4, <3>5, <3>6, <3>7, <3>9, <3>10, InvParts, InvPut
  <2> QED BY <1>3, <2>1, <2>2 DEF HttpUpgrade
<1> QED BY <1>1, <1>2, <1>3

\* ws_recv.
LEMMA WsRecvInv ==
    ASSUME Inv, \/ WsIncomplete \/ WsBad \/ WsData \/ WsPong \/ WsCloseIgnored
                \/ FinishClosingHandshake \/ ReplyClose \/ WsPing
    PROVE  Inv'
<1>0. /\ pc = "decode" /\ WsInv(ws, "decode", frames) /\ ws \in Wsk /\ ws.recv = "ws"
      /\ frames \in BOOLEAN /\ ws.sendbuf \in Seq(Frames)
      /\ <<>> \in Seq(NetToks \cup {"raw"})
  <2>1. pc = "decode"
    BY DEF WsIncomplete, WsBad, WsData, WsPong, WsCloseIgnored, FinishClosingHandshake,
           ReplyClose, WsPing, WsDecode
  <2> QED BY <2>1, InvParts, EmptySeq DEF WsInv, Wsk
<1>1. ASSUME NEW t, WsDecode(t)
      PROVE  ws.recvbuf # <<>> /\ "close" \notin ws.flags
  BY <1>0, <1>1 DEF WsDecode, WsInv
<1>2. ASSUME NEW b \in Seq(NetToks \cup {"raw"}), "close" \notin ws.flags
      PROVE  /\ SameBut([ws EXCEPT !.recvbuf = b], ws, {"recvbuf"})
             /\ WsInv([ws EXCEPT !.recvbuf = b], "decode", TRUE)
  <2> DEFINE w == [ws EXCEPT !.recvbuf = b]
  <2>1. SameBut(w, ws, {"recvbuf"})
    BY <1>0, WithRecvbuf
  <2> HIDE DEF w
  <2>2. WsInv(w, "decode", TRUE)
    BY <1>0, <1>2, <2>1 DEF WsInv, SameBut
  <2> QED BY <2>1, <2>2 DEF w
<1>3. ASSUME NEW b \in Seq(NetToks \cup {"raw"}), "close" \notin ws.flags,
             Decoded([ws EXCEPT !.recvbuf = b])
      PROVE  Inv'
  <2> DEFINE w == [ws EXCEPT !.recvbuf = b]
  <2>1. SameBut(w, ws, {"recvbuf"}) /\ WsInv(w, "decode", TRUE) /\ Decoded(w)
    BY <1>2, <1>3
  <2> HIDE DEF w
  <2> QED BY <2>1, CarriesSame, DecodedInv DEF SameBut
<1>4. ASSUME NEW b \in Seq(NetToks \cup {"raw"}), "close" \notin ws.flags,
             WsReturn([ws EXCEPT !.recvbuf = b], TRUE)
      PROVE  Inv'
  <2> DEFINE w == [ws EXCEPT !.recvbuf = b]
  <2>1. SameBut(w, ws, {"recvbuf"}) /\ WsReturn(w, TRUE)
    BY <1>2, <1>4
  <2> HIDE DEF w
  <2> QED BY <1>0, <1>4, <2>1, WsReturnInv
<1>5. CASE WsIncomplete \/ WsBad
  <2>1. SameBut(ws, ws, {"recvbuf"}) /\ ("close" \in ws.flags => ws.recvbuf = <<>>)
    BY <1>0 DEF SameBut, WsInv
  <2> QED BY <1>0, <1>5, <2>1, WsReturnInv DEF WsIncomplete, WsBad
<1>6. CASE WsData \/ WsPong
  <2>1. ws.recvbuf # <<>> /\ "close" \notin ws.flags
    BY <1>1, <1>6 DEF WsData, WsPong
  <2>2. Tail(ws.recvbuf) \in Seq(NetToks \cup {"raw"})
    BY <1>0, <2>1, TailType
  <2>3. Decoded([ws EXCEPT !.recvbuf = Tail(ws.recvbuf)]) \/ Exit
    BY <1>0, <1>6 DEF WsData, WsPong, Wsk
  <2>4. CASE Exit
    BY <2>4, Halts DEF Exit, Stopped
  <2> QED BY <1>3, <2>1, <2>2, <2>3, <2>4
<1>7. CASE WsCloseIgnored
  BY <1>0, <1>1, <1>3, <1>7 DEF WsCloseIgnored
<1>8. CASE FinishClosingHandshake
  <2> DEFINE w == [ws EXCEPT !.recvbuf = <<>>, !.flags = (ws.flags \ {"closing"}) \cup {"close"}]
  <2>1. /\ w \in Wsk /\ w.recv = ws.recv /\ w.recvbuf = <<>> /\ w.tls = ws.tls
        /\ w.events = ws.events /\ w.sendbuf = ws.sendbuf
        /\ w.flags = (ws.flags \ {"closing"}) \cup {"close"}
    BY <1>0, EmptySeq DEF Wsk, Flags
  <2>2. Decoded(w)
    BY <1>0, <1>8 DEF FinishClosingHandshake, Wsk
  <2> HIDE DEF w
  <2>3. WsInv(w, "decode", TRUE)
    BY <1>0, <2>1 DEF WsInv
  <2> QED BY <2>1, <2>2, <2>3, CarriesSame, DecodedInv
<1>9. CASE ReplyClose
  <2> DEFINE v == [ws EXCEPT !.recvbuf = <<>>]
             u == Flag(v, {"close_on_write", "closing"})
             w == Put(u, Frame("close"))
  <2>1. "close" \notin ws.flags
    BY <1>1, <1>9 DEF ReplyClose
  <2>2. CASE Fits(ws)
    <3>1. Decoded(w)
      BY <1>9, <2>2 DEF ReplyClose
    <3>2. SameBut(v, ws, {"recvbuf"}) /\ v.recvbuf = <<>>
      BY <1>0, WithRecvbuf
    <3> HIDE DEF v
    <3>3. SameBut(u, v, {"flags"}) /\ u.flags = v.flags \cup {"close_on_write", "closing"}
      BY <3>2, Flagged DEF SameBut, Flags
    <3> HIDE DEF u
    <3>4. u \in Wsk /\ Fits(u) /\ Frame("close") \in Frames /\ Frame("close").op # "data"
      BY <2>2, <3>2, <3>3, FrameTypes DEF SameBut, Fits, Ops
    <3>5. Puts(w, u, Frame("close"), {})
      BY <3>4, PutOne
    <3> HIDE DEF w
    <3>6. WsInv(w, "decode", TRUE) /\ w.recv = ws.recv
          /\ w.sendbuf = Append(ws.sendbuf, Frame("close"))
      BY <1>0, <3>2, <3>3, <3>5 DEF WsInv, Puts, SameBut
    <3>7. Carries(w.sendbuf, ws.sendbuf)
      BY <1>0, <3>4, <3>6, CarriesAppend
    <3> QED BY <3>1, <3>6, <3>7, DecodedInv
  <2>3. CASE ~Fits(ws)
    BY <1>0, <1>4, <1>9, <2>1, <2>3 DEF ReplyClose
  <2> QED BY <2>2, <2>3
<1>10. CASE WsPing
  <2>1. PICK t \in {"ping", "pingp"} :
          /\ WsDecode(t)
          /\ LET w == [ws EXCEPT !.recvbuf =
                          (IF t = "pingp" THEN <<"raw">> ELSE <<>>) \o Tail(@)]
             IN  IF "closing" \in ws.flags THEN Exit
                 ELSE IF Fits(w) THEN Decoded(ws_pong(w))
                 ELSE WsReturn(w, TRUE)
    BY <1>10 DEF WsPing
  <2> DEFINE b == (IF t = "pingp" THEN <<"raw">> ELSE <<>>) \o Tail(ws.recvbuf)
             v == [ws EXCEPT !.recvbuf = b]
             w == ws_pong(v)
  <2>2. "close" \notin ws.flags /\ ws.recvbuf # <<>>
    BY <1>1, <2>1
  <2>3. b \in Seq(NetToks \cup {"raw"})
    BY <1>0, <2>2, TailType
  <2>4. Exit \/ (Fits(v) /\ Decoded(w)) \/ WsReturn(v, TRUE)
    BY <1>0, <2>1 DEF Wsk
  <2> HIDE DEF b
  <2>5. CASE Exit
    BY <2>5, Halts DEF Exit, Stopped
  <2>6. CASE WsReturn(v, TRUE)
    BY <1>4, <2>2, <2>3, <2>6
  <2>7. CASE Fits(v) /\ Decoded(w)
    <3>1. SameBut(v, ws, {"recvbuf"}) /\ v \in Wsk
      BY <1>2, <2>2, <2>3 DEF SameBut
    <3>2. Decoded(w) /\ Fits(v)
      BY <2>7
    <3> HIDE DEF v
    <3>3. Puts(w, v, Frame("pong"), {"events"}) /\ w.events = v.events \cup {"OUT"}
      BY <3>1, <3>2, Announced
    <3> HIDE DEF w
    <3>4. WsInv(w, "decode", TRUE) /\ w.recv = ws.recv
          /\ w.sendbuf = Append(ws.sendbuf, Frame("pong"))
      BY <1>0, <2>2, <3>1, <3>3 DEF WsInv, Puts, SameBut
    <3>5. Frame("pong") \in Frames /\ Frame("pong").op # "data"
      BY FrameTypes DEF Ops
    <3>6. Carries(w.sendbuf, ws.sendbuf)
      BY <1>0, <3>4, <3>5, CarriesAppend
    <3> QED BY <3>2, <3>4, <3>6, DecodedInv
  <2> QED BY <2>4, <2>5, <2>6, <2>7
<1> QED BY <1>5, <1>6, <1>7, <1>8, <1>9, <1>10

-----------------------------------------------------------------------------
(* Repeating the last input                                                *)

RepType == [num : -1 .. opt.repeat, armed : BOOLEAN, last : Frames \cup {None}]
LastOK(r) == r \in RepType /\ r.last.op \in {"none", "data", "copies"}

\* k times the same frame.
LEMMA Copies ==
    ASSUME NEW S, NEW x \in S, NEW k \in Nat
    PROVE  /\ [i \in 1 .. k |-> x] \in Seq(S)
           /\ Len([i \in 1 .. k |-> x]) = k
           /\ \A i \in 1 .. k : [j \in 1 .. k |-> x][i] = x
  OBVIOUS

\* repeat_last appends copies of last_input, as many as fit.
LEMMA RepeatLast ==
    ASSUME NEW w \in Wsk, Len(w.sendbuf) <= SendCap, opt \in Options,
           NEW r, LastOK(r), r.num > 0
    PROVE  LET wr == repeat_last(w, r)
           IN  /\ SameBut(wr[1], w, {"sendbuf"})
               /\ Len(wr[1].sendbuf) <= SendCap
               /\ LastOK(wr[2]) /\ wr[2].armed = r.armed
               /\ r.last = None => wr[1] = w
               /\ Len(wr[1].sendbuf) > Len(w.sendbuf) =>
                     Last(wr[1].sendbuf).op \in {"data", "copies"}
<1> DEFINE k == Smaller(SendCap - Len(w.sendbuf), r.num)
           c == [i \in 1 .. k |-> r.last]
           b == w.sendbuf \o c
           v == [w EXCEPT !.sendbuf = b]
           l == IF r.num - k > 0 /\ ~opt.json THEN [r.last EXCEPT !.op = "copies"] ELSE r.last
           q == [r EXCEPT !.num = r.num - k, !.last = l]
<1>0. /\ w.sendbuf \in Seq(Frames) /\ Len(w.sendbuf) \in Nat /\ SendCap \in Nat
      /\ opt.repeat \in Int /\ r.num \in -1 .. opt.repeat /\ r.num \in Int
      /\ r.armed \in BOOLEAN /\ r.last \in Frames \cup {None}
  BY LenProperties, WscatAssumption DEF Wsk, LastOK, RepType
<1>1. CASE r.last = None
  <2>1. repeat_last(w, r)[1] = w /\ repeat_last(w, r)[2] = [r EXCEPT !.num = 0]
    BY <1>1 DEF repeat_last
  <2>2. SameBut(w, w, {"sendbuf"})
    BY DEF SameBut
  <2>3. LastOK([r EXCEPT !.num = 0]) /\ [r EXCEPT !.num = 0].armed = r.armed
    BY <1>0 DEF LastOK, RepType
  <2>4. ~(Len(w.sendbuf) > Len(w.sendbuf))
    BY <1>0
  <2> QED BY <2>1, <2>2, <2>3, <2>4
<1>2. CASE r.last # None
  <2>0. r.last \in Frames
    BY <1>0, <1>2
  <2>1. repeat_last(w, r) = <<v, q>>
    <3>1. [w EXCEPT !.sendbuf = @ \o [i \in 1 .. k |-> r.last]] = v
      BY DEF Wsk
    <3>2. [r EXCEPT !.num = r.num - k,
                    !.last = IF r.num - k > 0 /\ ~opt.json
                             THEN [@ EXCEPT !.op = "copies"] ELSE @] = q
      BY DEF LastOK, RepType
    <3> QED BY <1>2, <3>1, <3>2 DEF repeat_last
  <2>2. k \in Nat /\ k <= r.num /\ Len(w.sendbuf) + k <= SendCap /\ r.num - k \in -1 .. opt.repeat
    BY <1>0 DEF Smaller
  <2>3. l \in Frames /\ l.op \in {"data", "copies"}
    <3>1. r.last.op \in {"data", "copies"}
      BY <2>0 DEF LastOK, Frames, Ops
    <3>2. [r.last EXCEPT !.op = "copies"] \in Frames /\ [r.last EXCEPT !.op = "copies"].op = "copies"
      BY <2>0 DEF Frames, Ops
    <3> QED BY <2>0, <3>1, <3>2
  <2> HIDE DEF k, l
  <2>4. LastOK(q) /\ q.armed = r.armed
    BY <1>0, <2>2, <2>3 DEF LastOK, RepType
  <2>5. c \in Seq(Frames) /\ Len(c) = k /\ \A i \in 1 .. k : c[i] = r.last
    BY <2>0, <2>2, Copies
  <2> HIDE DEF c
  <2>6. /\ b \in Seq(Frames) /\ Len(b) = Len(w.sendbuf) + k
        /\ k > 0 => b[Len(b)] = r.last
    <3>1. /\ b \in Seq(Frames) /\ Len(b) = Len(w.sendbuf) + Len(c)
          /\ \A i \in 1 .. Len(w.sendbuf) + Len(c) :
                b[i] = IF i <= Len(w.sendbuf) THEN w.sendbuf[i] ELSE c[i - Len(w.sendbuf)]
      BY <1>0, <2>5, ConcatProperties
    <3> HIDE DEF b
    <3> QED BY <1>0, <2>2, <2>5, <3>1
  <2> HIDE DEF b
  <2>7. SameBut(v, w, {"sendbuf"}) /\ v.sendbuf = b
    BY <2>6, WithSendbuf
  <2> HIDE DEF v, q
  <2>8. Len(v.sendbuf) > Len(w.sendbuf) => Last(v.sendbuf).op \in {"data", "copies"}
    <3>1. r.last.op \in {"data", "copies"}
      BY <2>0 DEF LastOK, Frames, Ops
    <3> QED BY <1>0, <2>2, <2>6, <2>7, <3>1 DEF Last
  <2> QED BY <1>0, <1>2, <2>1, <2>2, <2>4, <2>6, <2>7, <2>8
<1> QED BY <1>1, <1>2

\* wssk at w, somewhere in on_iteration.
Iterates(w) == WsInv(w, "epoll_wait", frames) /\ w.recv = ws.recv

\* wssk has come from w to v, and done to d.
Tried(v, d, w) ==
    /\ Iterates(v) /\ d \in BOOLEAN
    /\ Carries(v.sendbuf, w.sendbuf)
    /\ w.flags \subseteq v.flags

\* Pings and close frames queued by on_iteration.
LEMMA TryQueue ==
    ASSUME NEW w, Iterates(w), w.recv # "free", NEW d \in BOOLEAN
    PROVE  /\ Tried(w, d, w)
           /\ Tried(TryPing(w, d)[1], TryPing(w, d)[2], w)
           /\ Tried(TryClosing(w, d)[1], TryClosing(w, d)[2], w)
<1>0. w \in Wsk /\ w.sendbuf \in Seq(Frames)
  BY DEF Iterates, WsInv, Wsk
<1>1. \A e \in BOOLEAN : Tried(w, e, w)
  BY CarriesSame DEF Tried
<1>2. ASSUME Fits(w)
      PROVE  Tried(ws_ping(w), d, w)
  <2> DEFINE v == ws_ping(w)
  <2>1. Puts(v, w, Frame("ping"), {"events"}) /\ v.events = w.events \cup {"OUT"}
    BY <1>0, <1>2, Announced
  <2> HIDE DEF v
  <2>2. Iterates(v) /\ v.flags = w.flags
    BY <2>1 DEF Iterates, WsInv, Puts, SameBut
  <2>3. Carries(v.sendbuf, w.sendbuf)
    BY <1>0, <2>1, FrameTypes, CarriesAppend DEF Puts, Ops
  <2> QED BY <2>2, <2>3 DEF Tried, v
<1>3. ASSUME Fits(w)
      PROVE  Tried(ws_start_closing_handshake(w), d, w)
  <2> DEFINE v == ws_start_closing_handshake(w)
  <2>1. /\ Puts(v, w, Frame("close"), {"events", "flags"}) /\ v.events = w.events \cup {"OUT"}
        /\ v.flags = w.flags \cup {"closing"}
    BY <1>0, <1>3, Announced
  <2> HIDE DEF v
  <2>2. Iterates(v)
    BY <2>1 DEF Iterates, WsInv, Puts, SameBut
  <2>3. Carries(v.sendbuf, w.sendbuf)
    BY <1>0, <2>1, FrameTypes, CarriesAppend DEF Puts, Ops
  <2> QED BY <2>1, <2>2, <2>3 DEF Tried, v
<1>4. CASE Fits(w)
  <2>1. /\ TryPing(w, d)[1] = ws_ping(w) /\ TryPing(w, d)[2] = d
        /\ TryClosing(w, d)[1] = ws_start_closing_handshake(w) /\ TryClosing(w, d)[2] = d
    BY <1>4 DEF TryPing, TryClosing
  <2> QED BY <1>1, <1>2, <1>3, <1>4, <2>1
<1>5. CASE ~Fits(w)
  <2>1. /\ TryPing(w, d)[1] = w /\ TryPing(w, d)[2] = TRUE
        /\ TryClosing(w, d)[1] = w /\ TryClosing(w, d)[2] = TRUE
    BY <1>5 DEF TryPing, TryClosing
  <2> QED BY <1>1, <2>1
<1> QED BY <1>4, <1>5

\* try_repeating_last does nothing, or standard input has ended and no closing
\* handshake has been started.
LEMMA Repeats ==
    ASSUME Inv, NEW w, Iterates(w), w.recv # "free", NEW d \in BOOLEAN,
           NEW c, c = try_repeating_last(w, d)
    PROVE  /\ Iterates(c[1]) /\ LastOK(c[2]) /\ c[3] \in BOOLEAN
           /\ c[2].armed => rep.armed
           /\ c[1] = w \/ (rep.armed /\ "closing" \notin w.flags)
<1>0. /\ LastOK(rep) /\ w \in Wsk /\ Len(w.sendbuf) <= SendCap /\ opt \in Options
      /\ WsInv(w, "epoll_wait", frames) /\ opt.repeat \in Int
      /\ opt \in [tls : BOOLEAN, json : BOOLEAN, no_handshake : BOOLEAN,
                  idle : BOOLEAN, ping : Nat \cup {-1}, repeat : Nat \cup {-1}]
  BY InvParts, WscatAssumption DEF LastOK, RepType, RepeatInv, Iterates, WsInv
<1>1. CASE ~rep.armed \/ "closing" \in w.flags
  <2>1. c[1] = w /\ c[2] = rep /\ c[3] = d
    BY <1>1 DEF try_repeating_last
  <2> QED BY <1>0, <2>1
<1>2. CASE ~(~rep.armed \/ "closing" \in w.flags)
  <2> DEFINE wr == IF rep.num > 0 THEN repeat_last(w, rep) ELSE <<w, rep>>
             all == wr[2].num = 0
             r == IF all THEN [wr[2] EXCEPT !.armed = FALSE] ELSE wr[2]
             wd == IF all /\ ~opt.idle /\ ~opt.no_handshake
                   THEN TryClosing(wr[1], d) ELSE <<wr[1], d>>
  <2>1. c[1] = wd[1] /\ c[2] = r /\ c[3] = wd[2]
    BY <1>2 DEF try_repeating_last
  <2>2. Iterates(wr[1]) /\ LastOK(wr[2]) /\ wr[2].armed = rep.armed
    <3>1. CASE rep.num > 0
      <4> DEFINE x == repeat_last(w, rep)
      <4>1. /\ SameBut(x[1], w, {"sendbuf"}) /\ Len(x[1].sendbuf) <= SendCap
            /\ LastOK(x[2]) /\ x[2].armed = rep.armed
        BY <1>0, <3>1, RepeatLast
      <4>2. wr[1] = x[1] /\ wr[2] = x[2]
        BY <3>1
      <4> HIDE DEF x, wr
      <4>3. opt.repeat > 0
        BY <1>0, <3>1 DEF LastOK, RepType
      <4>4. WsInv(x[1], "epoll_wait", frames) /\ x[1].recv = w.recv
        BY <1>0, <4>1, <4>3 DEF WsInv, SameBut
      <4> QED BY <4>1, <4>2, <4>4 DEF Iterates
    <3>2. CASE ~(rep.num > 0)
      <4>1. wr[1] = w /\ wr[2] = rep
        BY <3>2
      <4> HIDE DEF wr
      <4> QED BY <1>0, <4>1
    <3> QED BY <3>1, <3>2
  <2> HIDE DEF wr
  <2>3. LastOK(r) /\ (r.armed => rep.armed)
    BY <2>2 DEF LastOK, RepType
  <2>4. wr[1].recv # "free"
    BY <2>2 DEF Iterates
  <2>5. Iterates(wd[1]) /\ wd[2] \in BOOLEAN
    <3>1. Tried(wr[1], d, wr[1]) /\ Tried(TryClosing(wr[1], d)[1], TryClosing(wr[1], d)[2], wr[1])
      BY <2>2, <2>4, TryQueue
    <3>2. \/ wd[1] = wr[1] /\ wd[2] = d
          \/ wd[1] = TryClosing(wr[1], d)[1] /\ wd[2] = TryClosing(wr[1], d)[2]
      OBVIOUS
    <3> HIDE DEF wd
    <3> QED BY <3>1, <3>2 DEF Tried
  <2> HIDE DEF wd, r
  <2> QED BY <1>2, <2>1, <2>3, <2>5
<1> QED BY <1>1, <1>2

\* on_iteration: what it may do to wssk and the repeats.
LEMMA Iteration ==
    ASSUME Inv, OnIteration
    PROVE  \E b : /\ Iterates(b) /\ Iterates(ws') /\ LastOK(rep') /\ done' \in BOOLEAN
                  /\ Carries(b.sendbuf, ws.sendbuf)
                  /\ b = ws \/ check_timeout(ws)
                  /\ ws.flags \subseteq b.flags
                  /\ rep'.armed => rep.armed
                  /\ ws' = b \/ (rep.armed /\ "closing" \notin b.flags)
<1>0. Iterates(ws) /\ ws.recv # "free"
  BY InvParts DEF OnIteration, Iterates, WsInv, Stopped
<1>1. PICK p, i \in BOOLEAN :
          /\ p => opt.ping >= 0 /\ check_timeout(ws)
          /\ i => opt.idle /\ check_timeout(ws)
          /\ LET a == IF p THEN TryPing(ws, FALSE) ELSE <<ws, FALSE>>
                 b == IF i /\ ~opt.no_handshake THEN TryClosing(a[1], a[2]) ELSE a
                 c == try_repeating_last(b[1], b[2])
             IN  /\ Goto(c[1], "epoll_wait")
                 /\ rep' = c[2]
                 /\ done' = c[3]
  BY DEF OnIteration
<1> DEFINE a == IF p THEN TryPing(ws, FALSE) ELSE <<ws, FALSE>>
           b == IF i /\ ~opt.no_handshake THEN TryClosing(a[1], a[2]) ELSE a
           c == try_repeating_last(b[1], b[2])
<1>2. ws' = c[1] /\ rep' = c[2] /\ done' = c[3]
  BY <1>1 DEF Goto
<1>3. /\ Iterates(a[1]) /\ a[2] \in BOOLEAN /\ Carries(a[1].sendbuf, ws.sendbuf)
      /\ ws.flags \subseteq a[1].flags
  <2>1. Tried(ws, FALSE, ws) /\ Tried(TryPing(ws, FALSE)[1], TryPing(ws, FALSE)[2], ws)
    BY <1>0, TryQueue
  <2>2. \/ a[1] = ws /\ a[2] = FALSE
        \/ a[1] = TryPing(ws, FALSE)[1] /\ a[2] = TryPing(ws, FALSE)[2]
    OBVIOUS
  <2> HIDE DEF a
  <2> QED BY <2>1, <2>2 DEF Tried
<1>4. ~p => a[1] = ws
  OBVIOUS
<1> HIDE DEF a
<1>5. a[1].recv # "free"
  BY <1>0, <1>3 DEF Iterates
<1>6. /\ Iterates(b[1]) /\ b[2] \in BOOLEAN /\ Carries(b[1].sendbuf, a[1].sendbuf)
      /\ a[1].flags \subseteq b[1].flags
  <2>1. CASE i /\ ~opt.no_handshake
    <3>1. Tried(TryClosing(a[1], a[2])[1], TryClosing(a[1], a[2])[2], a[1])
      BY <1>3, <1>5, TryQueue
    <3>2. b = TryClosing(a[1], a[2])
      BY <2>1
    <3> HIDE DEF b
    <3> QED BY <3>1, <3>2 DEF Tried
  <2>2. CASE ~(i /\ ~opt.no_handshake)
    <3>1. b = a
      BY <2>2
    <3> HIDE DEF b
    <3> QED BY <1>3, <3>1, CarriesSame
  <2> QED BY <2>1, <2>2
<1>7. ~i => b = a
  OBVIOUS
<1> HIDE DEF b
<1>8. b[1].recv # "free"
  BY <1>0, <1>6 DEF Iterates
<1>9. /\ Iterates(c[1]) /\ LastOK(c[2]) /\ c[3] \in BOOLEAN
      /\ c[2].armed => rep.armed
      /\ c[1] = b[1] \/ (rep.armed /\ "closing" \notin b[1].flags)
  BY <1>6, <1>8, Repeats
<1> HIDE DEF c
<1>10. Carries(b[1].sendbuf, ws.sendbuf)
  BY <1>3, <1>6 DEF Carries
<1>11. b[1] = ws \/ check_timeout(ws)
  BY <1>1, <1>4, <1>7
<1> QED BY <1>2, <1>3, <1>6, <1>9, <1>10, <1>11

\* on_iteration keeps it.
LEMMA OnIterationInv ==
    ASSUME Inv, OnIteration
    PROVE  Inv'
<1>1. PICK b : /\ Iterates(b) /\ Iterates(ws') /\ LastOK(rep') /\ done' \in BOOLEAN
               /\ Carries(b.sendbuf, ws.sendbuf)
               /\ rep'.armed => rep.armed
               /\ ws' = b \/ (rep.armed /\ "closing" \notin b.flags)
  BY Iteration
<1>2. /\ pc' = "epoll_wait" /\ UNCHANGED <<opt, net, peer, typed, eof, in, todo, frames>>
      /\ ~done
  BY DEF OnIteration, Goto
<1>3. WsInv(ws', pc', frames') /\ ws'.recv = ws.recv /\ pc' \in PCs /\ ws.recv # "free"
  BY <1>1, <1>2, InvParts DEF Iterates, PCs
<1>4. StdinInv'
  BY <1>2, InvParts DEF StdinInv
<1>5. CASE ws' = b
  <2>1. Carries(ws'.sendbuf, ws.sendbuf)
    BY <1>1, <1>5
  <2>2. RepeatInv'
    BY <1>1, <1>2, <1>3, <2>1, InvParts DEF RepeatInv, Carries, LastOK
  <2>3. in'.open /\ ws'.recv # "free" => Order(ws'.sendbuf, in'.buf, in'.read)
    BY <1>2, <1>3, <2>1, InvParts DEF Carries
  <2> QED BY <1>1, <1>2, <1>3, <1>4, <2>2, <2>3, InvParts, InvPut DEF LastOK, RepType
<1>6. CASE rep.armed
  <2>1. ~in'.open /\ ws'.recv # "http"
    BY <1>2, <1>3, <1>6, InvParts DEF RepeatInv
  <2>2. RepeatInv'
    BY <1>1, <2>1 DEF RepeatInv, LastOK
  <2> QED BY <1>1, <1>2, <1>3, <1>4, <2>1, <2>2, InvParts, InvPut DEF LastOK, RepType
<1> QED BY <1>1, <1>5, <1>6

-----------------------------------------------------------------------------
(* Events of fdin                                                          *)

\* The pieces in b are in sequence, and the last one of them is the q-th.
Runs(b, q) ==
    /\ \A i, j \in Pieces(b) :
          i < j /\ (\A h \in Pieces(b) : h <= i \/ j <= h) => b[j].n = b[i].n + 1
    /\ \A i \in Pieces(b) : (\A h \in Pieces(b) : h <= i) => b[i].n = q

\* c is s with the k pieces appended that follow the q-th.
Extends(c, s, k, q) ==
    /\ Len(c) = Len(s) + k
    /\ \A i \in 1 .. Len(s) : c[i] = s[i]
    /\ \A i \in 1 .. k : c[Len(s) + i].op = "data" /\ c[Len(s) + i].n = q + i

\* The first piece appended follows the last one there, and the last one appended
\* is the last one queued.
LEMMA OrderQueue ==
    ASSUME NEW s \in Seq(Frames), NEW q \in Int, NEW k \in Nat, NEW c,
           Extends(c, s, k, q), Runs(s, q)
    PROVE  Runs(c, q + k)
<1> USE DEF Extends, Runs
<1>0. Len(s) \in Nat
  BY LenProperties
<1>1. /\ \A i \in Pieces(s) : i \in Pieces(c) /\ i \in 1 .. Len(s) /\ c[i] = s[i]
      /\ \A i \in Pieces(c) : i \in 1 .. Len(s) + k /\ (i <= Len(s) => i \in Pieces(s))
  BY <1>0 DEF Pieces
<1>2. \A i \in Len(s) + 1 .. Len(s) + k : i \in Pieces(c) /\ c[i].n = q + (i - Len(s))
  <2>1. \A i \in Len(s) + 1 .. Len(s) + k : /\ i - Len(s) \in 1 .. k
                                            /\ i = Len(s) + (i - Len(s))
                                            /\ i \in 1 .. Len(c)
    BY <1>0
  <2> QED BY <2>1 DEF Pieces
<1>3. ASSUME NEW i \in Pieces(c), NEW j \in Pieces(c), i < j,
             \A h \in Pieces(c) : h <= i \/ j <= h
      PROVE  c[j].n = c[i].n + 1
  <2>0. i \in 1 .. Len(s) + k /\ j \in 1 .. Len(s) + k
    BY <1>1
  <2>1. CASE j <= Len(s)
    <3>1. i \in Pieces(s) /\ j \in Pieces(s)
      BY <1>0, <1>1, <1>3, <2>0, <2>1
    <3>2. s[j].n = s[i].n + 1
      BY <1>1, <1>3, <3>1
    <3> QED BY <1>1, <3>1, <3>2
  <2>2. CASE j = Len(s) + 1
    <3>1. i \in Pieces(s) /\ \A h \in Pieces(s) : h <= i
      BY <1>0, <1>1, <1>3, <2>0, <2>2
    <3>2. c[i].n = q
      BY <1>1, <3>1
    <3>3. j - Len(s) = 1 /\ j \in Len(s) + 1 .. Len(s) + k
      BY <1>0, <2>0, <2>2
    <3> QED BY <1>2, <3>2, <3>3
  <2>3. CASE j > Len(s) + 1
    <3>1. j - 1 \in Len(s) + 1 .. Len(s) + k /\ j \in Len(s) + 1 .. Len(s) + k
      BY <1>0, <2>0, <2>3
    <3>2. j - 1 <= i \/ j <= j - 1
      BY <1>2, <1>3, <3>1
    <3>3. i = j - 1
      BY <1>3, <2>0, <3>2
    <3>4. c[i].n = q + (i - Len(s)) /\ c[j].n = q + (j - Len(s))
      BY <1>2, <3>1, <3>3
    <3> QED BY <1>0, <2>0, <3>3, <3>4
  <2> QED BY <1>0, <2>0, <2>1, <2>2, <2>3
<1>4. ASSUME NEW i \in Pieces(c), \A h \in Pieces(c) : h <= i
      PROVE  c[i].n = q + k
  <2>0. i \in 1 .. Len(s) + k
    BY <1>1
  <2>1. CASE k = 0
    <3>1. i \in Pieces(s) /\ \A h \in Pieces(s) : h <= i
      BY <1>0, <1>1, <1>4, <2>0, <2>1
    <3> QED BY <1>1, <2>1, <3>1
  <2>2. CASE k > 0
    <3>1. Len(s) + k \in Len(s) + 1 .. Len(s) + k
      BY <1>0, <2>2
    <3>2. Len(s) + k <= i
      BY <1>2, <1>4, <3>1
    <3>3. i = Len(s) + k /\ i - Len(s) = k
      BY <1>0, <2>0, <3>2
    <3> QED BY <1>2, <3>1, <3>3
  <2> QED BY <2>1, <2>2
<1> QED BY <1>3, <1>4

\* A function on 1 .. k is a sequence.
LEMMA FunSeq ==
    ASSUME NEW S, NEW k \in Nat, NEW f \in [1 .. k -> S]
    PROVE  f \in Seq(S) /\ Len(f) = k
  OBVIOUS

\* The pieces in b are those that follow the first q.
Follow(b, q) == \A i \in 1 .. Len(b) : b[i] = q + i

\* The k pieces that follow the first r.
Taken(r, k) == [i \in 1 .. k |-> r + i]

\* r pieces have been read, buf holds the last of them, and k more come in.
LEMMA NumbersAppended ==
    ASSUME MaxTyped \in Nat, NEW r \in Nat, NEW k \in Nat, r + k <= MaxTyped,
           NEW buf \in Seq(1 .. MaxTyped), NEW q \in Int, r = q + Len(buf), Follow(buf, q)
    PROVE  /\ buf \o Taken(r, k) \in Seq(1 .. MaxTyped)
           /\ Len(buf \o Taken(r, k)) = Len(buf) + k
           /\ Follow(buf \o Taken(r, k), q)
<1>0. Len(buf) \in Nat
  BY LenProperties
<1>1. \A i \in 1 .. k : r + i \in 1 .. MaxTyped
  OBVIOUS
<1> DEFINE f == Taken(r, k)
<1>2. f \in [1 .. k -> 1 .. MaxTyped] /\ \A i \in 1 .. k : f[i] = r + i
  BY <1>1 DEF Taken
<1> HIDE DEF f
<1>3. f \in Seq(1 .. MaxTyped) /\ Len(f) = k
  BY <1>2, FunSeq
<1> DEFINE b == buf \o f
<1>4. /\ b \in Seq(1 .. MaxTyped) /\ Len(b) = Len(buf) + k
      /\ \A i \in 1 .. Len(buf) + k :
            b[i] = IF i <= Len(buf) THEN buf[i] ELSE f[i - Len(buf)]
  BY <1>3, ConcatProperties
<1> HIDE DEF b
<1>5. ASSUME NEW i \in 1 .. Len(buf) + k
      PROVE  b[i] = q + i
  <2>1. CASE i <= Len(buf)
    <3>1. i \in 1 .. Len(buf)
      BY <1>0, <2>1
    <3> QED BY <1>4, <2>1, <3>1 DEF Follow
  <2>2. CASE i > Len(buf)
    <3>1. i - Len(buf) \in 1 .. k
      BY <1>0, <2>2
    <3>2. f[i - Len(buf)] = r + (i - Len(buf))
      BY <1>2, <3>1
    <3>3. ~(i <= Len(buf))
      BY <1>0, <2>2
    <3>4. b[i] = IF i <= Len(buf) THEN buf[i] ELSE f[i - Len(buf)]
      BY <1>4
    <3>5. b[i] = f[i - Len(buf)]
      BY <3>3, <3>4
    <3> QED BY <1>0, <3>2, <3>5
  <2> QED BY <1>0, <2>1, <2>2
<1> QED BY <1>4, <1>5 DEF b, f, Follow

\* Of the pieces from r to t, as many are read as there is room for beside l.
LEMMA RoomFor ==
    ASSUME NEW r \in Nat, NEW t \in Nat, NEW l \in Nat, NEW c \in Nat,
           r <= t, r < t \/ l = c, l <= c, c > 0, NEW k, k = Smaller(t - r, c - l)
    PROVE  k \in Nat /\ r + k <= t /\ l + k \in 1 .. c
  BY DEF Smaller

\* A read takes no more than there is, and than there is room for.
LEMMA RoomIn ==
    ASSUME NEW a \in Nat, NEW l \in Nat, NEW c \in Nat, l <= c
    PROVE  LET k == Smaller(a, c - l) IN k \in Nat /\ k <= a /\ l + k <= c
  BY DEF Smaller

\* on_read of fdin fills recvbuf with what comes next.
LEMMA StdinFilled ==
    ASSUME Inv, in.open, ws.recv # "free", in.read < typed \/ Len(in.buf) = RecvCap,
           NEW k, k = Smaller(typed - in.read, RecvCap - Len(in.buf)),
           NEW b, b = in.buf \o Taken(in.read, k)
    PROVE  /\ k \in Nat /\ in.read + k <= typed
           /\ b \in Seq(1 .. MaxTyped) /\ Len(b) = Len(in.buf) + k
           /\ Len(b) \in 1 .. RecvCap
           /\ Follow(b, in.read - Len(in.buf))
<1>0. /\ in.buf \in Seq(1 .. MaxTyped) /\ Len(in.buf) \in Nat /\ Len(in.buf) <= RecvCap
      /\ in.read \in Nat /\ typed \in 0 .. MaxTyped /\ MaxTyped \in Nat
      /\ in.read <= typed /\ RecvCap \in Nat \ {0}
  BY InvParts, LenProperties, WscatAssumption DEF StdinInv
<1>1. k \in Nat /\ in.read + k <= typed /\ Len(in.buf) + k \in 1 .. RecvCap
  <2>1. typed \in Nat /\ RecvCap \in Nat /\ RecvCap > 0
    BY <1>0
  <2> QED BY <1>0, <2>1, RoomFor
<1> DEFINE q == in.read - Len(in.buf)
<1>2. Follow(in.buf, q)
  BY InvParts DEF Order, Follow
<1>3. in.read + k <= MaxTyped /\ q \in Int /\ in.read = q + Len(in.buf)
  BY <1>0, <1>1
<1> HIDE DEF q
<1>4. b \in Seq(1 .. MaxTyped) /\ Len(b) = Len(in.buf) + k /\ Follow(b, q)
  <2> DEFINE buf == in.buf  r == in.read
  <2>1. /\ buf \in Seq(1 .. MaxTyped) /\ r \in Nat /\ MaxTyped \in Nat /\ k \in Nat
        /\ r + k <= MaxTyped /\ q \in Int /\ r = q + Len(buf) /\ Follow(buf, q)
    BY <1>0, <1>1, <1>2, <1>3
  <2> HIDE DEF buf, r
  <2>2. /\ buf \o Taken(r, k) \in Seq(1 .. MaxTyped)
        /\ Len(buf \o Taken(r, k)) = Len(buf) + k
        /\ Follow(buf \o Taken(r, k), q)
    BY <2>1, NumbersAppended
  <2> QED BY <2>2 DEF buf, r
<1> QED BY <1>1, <1>4 DEF q

\* stdin_recv with the pieces b in recvbuf: some are queued, the rest stays.
LEMMA StdinRecvInv ==
    ASSUME Inv, pc = "events", in.open, ws.recv = "ws",
           NEW b \in Seq(1 .. MaxTyped), Len(b) \in 1 .. RecvCap,
           NEW q \in Int, q = in.read - Len(in.buf), Follow(b, q),
           NEW read \in 0 .. MaxTyped, read <= typed, read = q + Len(b),
           NEW watched \in BOOLEAN,
           todo' = todo \ {"fdin"}, StdinRecv(b, read, watched)
    PROVE  /\ Inv'
           /\ Len(ws'.sendbuf) > Len(ws.sendbuf) => Last(ws'.sendbuf).op = "data"
<1> DEFINE s == ws.sendbuf
           k == Smaller(Len(b), SendCap - Len(ws.sendbuf))
           p == [i \in 1 .. k |-> Piece(b[i])]
           c == s \o p
           d == stdin_recv(b, k)
           last == IF k < Len(b) THEN b[k + 1] ELSE b[k]
           w == [ws EXCEPT !.sendbuf = c]
           v == IF k > 0 THEN turn_on(w, {"OUT"}) ELSE w
<1>0. /\ WsInv(ws, "events", frames) /\ ws \in Wsk /\ s \in Seq(Frames) /\ Len(s) \in Nat
      /\ Len(s) <= SendCap /\ SendCap \in Nat /\ RecvCap \in Nat /\ Len(b) \in Nat
      /\ Order(s, in.buf, in.read) /\ MaxTyped \in Nat /\ Len(b) <= RecvCap /\ Len(b) > 0
  <2>1. WsInv(ws, "events", frames) /\ Order(s, in.buf, in.read)
    BY InvParts
  <2>2. ws \in Wsk /\ s \in Seq(Frames) /\ Len(s) <= SendCap
    BY <2>1 DEF WsInv, Wsk
  <2>3. SendCap \in Nat /\ RecvCap \in Nat /\ MaxTyped \in Nat
    BY WscatAssumption
  <2>4. Len(s) \in Nat /\ Len(b) \in Nat
    BY <2>2, LenProperties
  <2>5. Len(b) <= RecvCap /\ Len(b) > 0
    BY <2>3, <2>4
  <2> QED BY <2>1, <2>2, <2>3, <2>4, <2>5
<1>1. /\ ws' = v /\ pc' = "events" /\ UNCHANGED <<opt, net, peer, typed, eof, done, frames>>
      /\ in' = [in EXCEPT !.buf = d, !.watched = watched, !.read = read]
      /\ rep' = IF rep.num > 0 THEN [rep EXCEPT !.last = Piece(last)] ELSE rep
  <2>1. [ws EXCEPT !.sendbuf = @ \o [i \in 1 .. k |-> Piece(b[i])]] = w
    BY <1>0 DEF Wsk
  <2> QED BY <2>1 DEF StdinRecv, Goto
<1>2. k \in Nat /\ k <= Len(b) /\ Len(s) + k <= SendCap
  BY <1>0, RoomIn
<1> HIDE DEF k
<1>3. \A i \in 1 .. Len(b) : b[i] \in 1 .. MaxTyped /\ b[i] = q + i
  BY <1>0, ElementOfSeq DEF Follow
<1>4. p \in [1 .. k -> Frames] /\ \A i \in 1 .. k : p[i].op = "data" /\ p[i].n = q + i
  <2>1. \A i \in 1 .. k : /\ Piece(b[i]) \in Frames /\ Piece(b[i]).op = "data"
                          /\ Piece(b[i]).n = q + i
    <3>1. \A i \in 1 .. k : i \in 1 .. Len(b)
      BY <1>0, <1>2
    <3> QED BY <1>3, <3>1, FrameTypes
  <2> QED BY <2>1
<1> HIDE DEF p
<1>5. p \in Seq(Frames) /\ Len(p) = k
  BY <1>2, <1>4, FunSeq
<1>6. /\ c \in Seq(Frames) /\ Len(c) = Len(s) + k
      /\ \A i \in 1 .. Len(s) + k : c[i] = IF i <= Len(s) THEN s[i] ELSE p[i - Len(s)]
  <2> HIDE DEF s
  <2> QED BY <1>0, <1>5, ConcatProperties
<1> HIDE DEF c
<1>7. /\ \A i \in 1 .. Len(s) : c[i] = s[i]
      /\ \A i \in 1 .. k : c[Len(s) + i].op = "data" /\ c[Len(s) + i].n = q + i
  <2>1. ASSUME NEW i \in 1 .. k
        PROVE  c[Len(s) + i] = p[i]
    <3>1. Len(s) + i \in 1 .. Len(s) + k /\ ~(Len(s) + i <= Len(s)) /\ (Len(s) + i) - Len(s) = i
      BY <1>0, <1>2
    <3> QED BY <1>6, <3>1
  <2>2. \A i \in 1 .. Len(s) : i \in 1 .. Len(s) + k /\ i <= Len(s)
    BY <1>0, <1>2
  <2> QED BY <1>4, <1>6, <2>1, <2>2
<1>8. /\ d \in Seq(1 .. MaxTyped) /\ Len(d) = Len(b) - k /\ Follow(d, q + k)
  <2>1. /\ Len(d) = Len(b) - k /\ \A i \in 1 .. Len(d) : d[i] = b[k + i]
    BY <1>0, <1>2, SubSeqProperties DEF stdin_recv
  <2>2. d \in Seq(1 .. MaxTyped)
    <3>1. \A i \in k + 1 .. Len(b) : b[i] \in 1 .. MaxTyped
      BY <1>0, <1>2, <1>3
    <3> QED BY <1>0, <1>2, <3>1, SubSeqProperties DEF stdin_recv
  <2> HIDE DEF d
  <2>3. ASSUME NEW i \in 1 .. Len(d)
        PROVE  d[i] = (q + k) + i
    <3>1. k + i \in 1 .. Len(b)
      BY <1>0, <1>2, <2>1
    <3>2. d[i] = q + (k + i)
      BY <1>3, <2>1, <3>1
    <3> QED BY <1>2, <3>2
  <2> QED BY <2>1, <2>2, <2>3 DEF Follow
<1> HIDE DEF d
<1>9. Order(c, d, read)
  <2>1. read - Len(d) = q + k
    BY <1>0, <1>2, <1>8
  <2>2. Runs(s, q)
    BY <1>0 DEF Order, Runs
  <2> HIDE DEF s
  <2>3. Extends(c, s, k, q)
    BY <1>6, <1>7 DEF Extends
  <2>4. Runs(c, q + k)
    BY <1>0, <1>2, <2>2, <2>3, OrderQueue
  <2> QED BY <1>8, <2>1, <2>4 DEF Order, Follow, Runs
<1>10. SameBut(w, ws, {"sendbuf"}) /\ w.sendbuf = c
  BY <1>0, <1>6, WithSendbuf
<1> HIDE DEF w
<1>11. /\ SameBut(v, w, {"events"}) /\ v.sendbuf = c
       /\ v.events = w.events \cup (IF k > 0 THEN {"OUT"} ELSE {})
  <2>1. w \in Wsk
    BY <1>10 DEF SameBut
  <2>2. CASE k > 0
    BY <1>10, <2>1, <2>2, Turned DEF SameBut
  <2>3. CASE ~(k > 0)
    BY <1>10, <2>1, <2>3 DEF SameBut
  <2> QED BY <2>2, <2>3
<1> HIDE DEF v
<1>12. WsInv(v, "events", frames)
  <2>1. ~(k > 0) /\ c # <<>> => s # <<>>
    BY <1>0, <1>2, <1>6, EmptySeq
  <2>2. k > 0 => "OUT" \in v.events
    BY <1>11
  <2>3. /\ v \in Wsk /\ v.recv = ws.recv /\ v.tls = ws.tls /\ v.flags = ws.flags
        /\ v.recvbuf = ws.recvbuf
        /\ ws.events \subseteq v.events /\ v.events \subseteq ws.events \cup {"OUT"}
    BY <1>10, <1>11 DEF SameBut
  <2>4. v.sendbuf = c /\ Len(v.sendbuf) <= SendCap
    BY <1>2, <1>6, <1>11
  <2> QED BY <1>0, <2>1, <2>2, <2>3, <2>4 DEF WsInv
<1>13. v.recv = "ws" /\ v.sendbuf = c
  BY <1>10, <1>11 DEF SameBut
<1>14. last \in 1 .. MaxTyped
  BY <1>0, <1>2, <1>3
<1> HIDE DEF last
<1>15. /\ in' \in [open : BOOLEAN, watched : BOOLEAN, read : 0 .. MaxTyped,
                   buf : Seq(1 .. MaxTyped)]
       /\ in'.open /\ in'.buf = d /\ in'.read = read
  BY <1>1, <1>8, InvParts
<1>16. /\ rep' \in [num : -1 .. opt.repeat, armed : BOOLEAN, last : Frames \cup {None}]
       /\ rep'.armed = rep.armed /\ rep'.last.op \in {"none", "data", "copies"}
  BY <1>1, <1>14, InvParts, FrameTypes DEF RepeatInv
<1>17. StdinInv'
  <2>1. Len(d) <= RecvCap
    BY <1>0, <1>2, <1>8
  <2> QED BY <1>1, <1>15, <2>1 DEF StdinInv
<1>18. RepeatInv'
  <2>1. ~rep.armed
    BY InvParts DEF RepeatInv
  <2> QED BY <1>1, <1>13, <1>16, <2>1 DEF RepeatInv
<1>19. "events" \in PCs /\ todo' \subseteq {"wssk", "fdin"} /\ ws'.recv # "free"
  BY <1>1, <1>13, InvParts DEF PCs
<1>20. Len(c) > Len(s) => Last(c).op = "data"
  <2>1. Len(c) > Len(s) => k \in 1 .. k
    BY <1>0, <1>2, <1>6
  <2> QED BY <1>6, <1>7, <2>1 DEF Last
<1>21. Inv'
  BY <1>1, <1>9, <1>12, <1>13, <1>15, <1>16, <1>17, <1>18, <1>19, InvParts, InvPut
<1> QED BY <1>1, <1>13, <1>20, <1>21

\* Reading standard input keeps it, and queues data only.
LEMMA StdinReadInv ==
    ASSUME Inv, StdinRead
    PROVE  /\ Inv'
           /\ Len(ws'.sendbuf) > Len(ws.sendbuf) => Last(ws'.sendbuf).op = "data"
<1> DEFINE k == Smaller(typed - in.read, RecvCap - Len(in.buf))
           b == in.buf \o Taken(in.read, k)
           q == in.read - Len(in.buf)
<1>1. /\ pc = "events" /\ todo' = todo \ {"fdin"} /\ in.watched
      /\ in.read < typed \/ Len(in.buf) = RecvCap
      /\ ws.recv # "free" /\ StdinRecv(b, in.read + k, k > 0)
  BY DEF StdinRead, OnStdin, Open, Taken
<1>2. in.open /\ ws.recv = "ws"
  BY <1>1, InvParts DEF StdinInv, RepeatInv, WsInv, Wsk
<1>3. /\ k = Smaller(typed - in.read, RecvCap - Len(in.buf))
      /\ b = in.buf \o Taken(in.read, k)
  OBVIOUS
<1> HIDE DEF k, b
<1>4. /\ k \in Nat /\ in.read + k <= typed
      /\ b \in Seq(1 .. MaxTyped) /\ Len(b) = Len(in.buf) + k
      /\ Len(b) \in 1 .. RecvCap /\ Follow(b, q)
  BY <1>1, <1>2, <1>3, StdinFilled
<1>5. /\ q \in Int /\ in.read + k \in 0 .. MaxTyped /\ in.read + k = q + Len(b)
  <2>1. in.buf \in Seq(1 .. MaxTyped) /\ in.read \in Nat /\ typed \in 0 .. MaxTyped
    BY InvParts
  <2>2. Len(in.buf) \in Nat
    BY <2>1, LenProperties
  <2>3. MaxTyped \in Nat
    BY WscatAssumption
  <2>4. typed \in Nat /\ typed <= MaxTyped
    BY <2>1, <2>3
  <2> DEFINE x == in.read  l == Len(in.buf)
  <2>5. x \in Nat /\ l \in Nat /\ k \in Nat /\ x + k <= typed /\ Len(b) = l + k /\ q = x - l
    BY <1>4, <2>1, <2>2
  <2> HIDE DEF x, l, q
  <2>6. q \in Int /\ x + k \in 0 .. MaxTyped /\ x + k = q + Len(b)
    BY <2>3, <2>4, <2>5
  <2> QED BY <2>6 DEF x
<1>6. q = in.read - Len(in.buf) /\ (k > 0) \in BOOLEAN
  OBVIOUS
<1> HIDE DEF q
<1> QED BY <1>1, <1>2, <1>4, <1>5, <1>6, StdinRecvInv

\* stdin_close.  ping is -1 or given in seconds, so that a closing handshake is
\* never started here.
LEMMA StdinCloseInv ==
    ASSUME Inv, pc = "events", "fdin" \in todo, todo' = todo \ {"fdin"}, stdin_close(<<>>)
    PROVE  /\ Inv'
           /\ Len(ws'.sendbuf) > Len(ws.sendbuf) => Last(ws'.sendbuf).op \in {"data", "copies"}
           /\ pc' \in {"exit", "ub"} =>
                 pc = "events" /\ ~Open /\ rep.num > 0 /\ rep.last # None
<1> DEFINE r == [rep EXCEPT !.armed = TRUE]
           wr == repeat_last(ws, r)
           n == [in EXCEPT !.open = FALSE, !.watched = FALSE, !.buf = <<>>]
<1>0. /\ opt \in [tls : BOOLEAN, json : BOOLEAN, no_handshake : BOOLEAN,
                  idle : BOOLEAN, ping : Nat \cup {-1}, repeat : Nat \cup {-1}]
      /\ opt \in Options /\ WsInv(ws, "events", frames) /\ ws \in Wsk
      /\ Len(ws.sendbuf) \in Nat /\ Len(ws.sendbuf) <= SendCap
  <2>1. opt \in Options /\ WsInv(ws, "events", frames)
    BY InvParts
  <2>2. ws \in Wsk /\ Len(ws.sendbuf) <= SendCap
    BY <2>1 DEF WsInv
  <2>3. Len(ws.sendbuf) \in Nat
    BY <2>2, LenProperties DEF Wsk
  <2> QED BY <2>1, <2>2, <2>3, WscatAssumption
<1>1. opt.ping * 1000 # -1
  BY <1>0
<1>2. in.open /\ ws.recv # "http" /\ ~rep.armed
  BY InvParts DEF StdinInv, RepeatInv
<1>3. /\ n \in [open : BOOLEAN, watched : BOOLEAN, read : 0 .. MaxTyped,
                buf : Seq(1 .. MaxTyped)]
      /\ n.open = FALSE /\ n.watched = FALSE /\ n.read = in.read /\ n.buf = <<>>
  BY InvParts, EmptySeq
<1>4. in' = n /\ frames' = frames
  BY DEF stdin_close
<1> HIDE DEF n
<1>5. /\ UNCHANGED <<opt, net, peer, typed, eof, done>>
      /\ \/ ws' = ws /\ pc' = "events" /\ rep' = rep
         \/ rep.num > 0 /\ ~Open /\ rep.last # None /\ ws' = ws /\ pc' = "ub" /\ rep' = wr[2]
         \/ /\ rep.num > 0 /\ (Open \/ rep.last = None)
            /\ ws' = wr[1] /\ pc' = "events" /\ rep' = wr[2]
  BY <1>1 DEF stdin_close, Goto
<1>6. StdinInv'
  <2>1. Len(<<>>) = 0 /\ RecvCap \in Nat
    BY EmptySeq, WscatAssumption
  <2>2. Len(in'.buf) <= RecvCap
    BY <1>3, <1>4, <2>1
  <2>3. in'.read <= typed'
    BY <1>3, <1>4, <1>5, InvParts DEF StdinInv
  <2> QED BY <1>3, <1>4, <2>2, <2>3 DEF StdinInv
<1>7. /\ todo' \subseteq {"wssk", "fdin"} /\ "events" \in PCs /\ "ub" \in PCs
      /\ "ub" \in Stopped /\ LastOK(rep)
  BY InvParts DEF PCs, Stopped, LastOK, RepType, RepeatInv
<1>8. ASSUME WsInv(ws', pc', frames'), ws'.recv = ws.recv, LastOK(rep'), pc' \in PCs
      PROVE  Inv'
  <2>1. RepeatInv'
    BY <1>2, <1>3, <1>4, <1>8 DEF RepeatInv, LastOK
  <2> QED BY <1>0, <1>3, <1>4, <1>5, <1>6, <1>7, <1>8, <2>1, InvParts, InvPut
             DEF LastOK, RepType
<1>9. ASSUME rep.num > 0
      PROVE  /\ SameBut(wr[1], ws, {"sendbuf"}) /\ Len(wr[1].sendbuf) <= SendCap
             /\ LastOK(wr[2]) /\ (rep.last = None => wr[1] = ws)
             /\ Len(wr[1].sendbuf) > Len(ws.sendbuf) =>
                   Last(wr[1].sendbuf).op \in {"data", "copies"}
             /\ opt.repeat > 0
  <2>1. LastOK(r) /\ r.num = rep.num /\ r.last = rep.last
    BY <1>7 DEF LastOK, RepType
  <2>2. opt.repeat > 0
    BY <1>0, <1>7, <1>9 DEF LastOK, RepType
  <2> HIDE DEF r
  <2> QED BY <1>0, <1>9, <2>1, <2>2, RepeatLast
<1> HIDE DEF wr
<1>10. CASE ws' = ws /\ pc' = "events" /\ rep' = rep
  <2>1. ~(Len(ws.sendbuf) > Len(ws.sendbuf))
    BY <1>0
  <2> QED BY <1>0, <1>4, <1>7, <1>8, <1>10, <2>1
<1>11. CASE rep.num > 0 /\ ~Open /\ rep.last # None /\ ws' = ws /\ pc' = "ub" /\ rep' = wr[2]
  <2>1. ~(Len(ws.sendbuf) > Len(ws.sendbuf))
    BY <1>0
  <2>2. WsInv(ws', pc', frames')
    BY <1>0, <1>4, <1>7, <1>11 DEF WsInv, Stopped
  <2> QED BY <1>7, <1>8, <1>9, <1>11, <2>1, <2>2
<1>12. CASE /\ rep.num > 0 /\ (Open \/ rep.last = None)
            /\ ws' = wr[1] /\ pc' = "events" /\ rep' = wr[2]
  <2>1. WsInv(ws', pc', frames')
    BY <1>0, <1>4, <1>9, <1>12 DEF WsInv, SameBut
  <2>2. ws'.recv = ws.recv
    BY <1>9, <1>12 DEF SameBut
  <2> QED BY <1>7, <1>8, <1>9, <1>12, <2>1, <2>2
<1> QED BY <1>5, <1>10, <1>11, <1>12

\* So does all that serves standard input; where it may end the program.
LEMMA StdinEvents ==
    ASSUME Inv, Stdin
    PROVE  /\ Inv'
           /\ Len(ws'.sendbuf) > Len(ws.sendbuf) => Last(ws'.sendbuf).op \in {"data", "copies"}
           /\ pc' \in {"exit", "ub"} =>
                 pc = "events" /\ ~Open /\ rep.num > 0 /\ rep.last # None
<1>1. CASE StdinRead
  <2>1. pc' = "events"
    BY <1>1 DEF StdinRead, StdinRecv, Goto
  <2> QED BY <1>1, <2>1, StdinReadInv
<1>2. CASE StdinEnd \/ StdinReadClosed
  <2>1. pc = "events" /\ "fdin" \in todo /\ todo' = todo \ {"fdin"}
    BY <1>2 DEF StdinEnd, StdinReadClosed, OnStdin
  <2>2. CASE stdin_close(<<>>)
    BY <2>1, <2>2, StdinCloseInv
  <2>3. CASE Goto(ws, "events") /\ UNCHANGED <<in, rep, done, frames>>
    <3>1. /\ WsInv(ws, "events", frames') /\ frames' \in BOOLEAN /\ todo' \subseteq todo
          /\ done' \in BOOLEAN /\ (ws.recv = "free" => done') /\ "events" \in PCs
      BY <2>1, <2>3, InvParts DEF PCs
    <3>2. Inv'
      BY <2>3, <3>1, CarriesSame, GotoStep
    <3>3. ws' = ws /\ pc' = "events"
      BY <2>3 DEF Goto
    <3>4. Len(ws.sendbuf) \in Nat
      BY InvParts, LenProperties DEF WsInv, Wsk
    <3> QED BY <3>2, <3>3, <3>4
  <2> QED BY <1>2, <2>2, <2>3 DEF StdinEnd, StdinReadClosed
<1> QED BY <1>1, <1>2 DEF Stdin

-----------------------------------------------------------------------------
(* The event loop, the server and the user                                 *)

\* The steps of the main loop itself keep it,
LEMMA LoopInv ==
    ASSUME Inv, Done \/ epoll_wait \/ EventsDone \/ WsRecvStart
    PROVE  Inv'
<1>0. /\ frames \in BOOLEAN /\ done \in BOOLEAN /\ (ws.recv = "free" => done)
      /\ todo \subseteq {"wssk", "fdin"} /\ WsInv(ws, pc, frames)
  BY InvParts
<1>1. CASE Done
  BY <1>1, Halts DEF Done, Stopped
<1>2. CASE EventsDone
  <2>1. WsInv(ws, "loop", frames) /\ "loop" \in PCs
    BY <1>0, <1>2 DEF EventsDone, WsInv, Stopped, PCs
  <2> QED BY <1>0, <1>2, <2>1, CarriesSame, GotoStep DEF EventsDone
<1>3. CASE WsRecvStart
  <2>1. WsInv(ws, "decode", frames) /\ "decode" \in PCs
    BY <1>0, <1>3 DEF WsRecvStart, WsInv, Stopped, PCs
  <2> QED BY <1>0, <1>3, <2>1, CarriesSame, GotoStep DEF WsRecvStart
<1>4. CASE epoll_wait
  <2>1. /\ UNCHANGED <<opt, ws, in, rep, done, frames, net, peer, typed, eof>>
        /\ pc = "epoll_wait" /\ pc' = "events" /\ todo' = Ready
    BY <1>4 DEF epoll_wait, Goto
  <2>2. WsInv(ws, "events", frames) /\ "events" \in PCs
    BY <1>0, <2>1 DEF WsInv, Stopped, PCs
  <2>3. Ready \subseteq {"wssk", "fdin"} /\ ("fdin" \in Ready => in.open)
    BY DEF Ready
  <2>4. StdinInv' /\ RepeatInv'
    BY <2>1, <2>3, InvParts DEF StdinInv, RepeatInv
  <2> QED BY <2>1, <2>2, <2>3, <2>4, InvParts, InvPut
<1> QED BY <1>1, <1>2, <1>3, <1>4

\* Steps of the environment leave the program alone.
LEMMA EnvStep ==
    ASSUME Inv, UNCHANGED program, NetOK(net'), peer' \in {"syn", "up", "fin", "refused"},
           typed' \in 0 .. MaxTyped, typed <= typed', eof' \in BOOLEAN
    PROVE  Inv'
<1>0. UNCHANGED <<opt, ws, in, rep, done, pc, todo, frames>>
  BY DEF program
<1>1. StdinInv'
  <2>1. in.read \in Nat /\ typed \in Nat /\ typed' \in Nat
    BY InvParts, WscatAssumption
  <2>2. in.read <= typed'
    BY <2>1, InvParts DEF StdinInv
  <2> QED BY <1>0, <2>2, InvParts DEF StdinInv
<1>2. RepeatInv'
  BY <1>0, InvParts DEF RepeatInv
<1> QED BY <1>0, <1>1, <1>2, InvParts, InvPut

\* and those of the server, the user and the network.
LEMMA EnvInv ==
    ASSUME Inv, Environment
    PROVE  Inv'
<1>0. /\ NetOK(net) /\ typed \in 0 .. MaxTyped /\ typed \in Nat /\ MaxTyped \in Nat
      /\ typed <= typed /\ eof \in BOOLEAN /\ peer \in {"syn", "up", "fin", "refused"}
  BY InvParts, WscatAssumption
<1>1. ASSUME NEW t \in HttpToks \cup ServerToks \cup {"record"}, ServerSend(t)
      PROVE  Inv'
  <2>1. t = "record" => opt.tls
    <3>1. t = "record" => ws.tls # "off"
      BY <1>1, WscatAssumption DEF ServerSend, HttpToks, WsToks
    <3> QED BY <3>1, InvParts DEF WsInv
  <2>2. t \in NetToks \cup {"record"}
    BY WscatAssumption DEF NetToks
  <2>3. ASSUME NEW S, net \in Seq(S), t \in S
        PROVE  net' \in Seq(S)
    <3>1. <<t>> \in Seq(S)
      BY <2>3
    <3>2. Join(net, <<t>>) \in Seq(S)
      BY <2>3, <3>1, JoinType
    <3> QED BY <1>1, <3>2 DEF ServerSend
  <2>4. NetOK(net')
    BY <1>0, <2>1, <2>2, <2>3 DEF NetOK
  <2> QED BY <1>0, <1>1, <2>4, EnvStep DEF ServerSend
<1>2. ASSUME NEW p \in {"up", "refused", "fin"}, ServerConn(p)
      PROVE  Inv'
  BY <1>0, <1>2, EnvStep DEF ServerConn
<1>3. CASE Type
  <2>1. typed' \in 0 .. MaxTyped /\ typed <= typed'
    BY <1>0, <1>3 DEF Type
  <2> QED BY <1>0, <1>3, <2>1, EnvStep DEF Type
<1>4. CASE CloseStdin
  BY <1>0, <1>4, EnvStep DEF CloseStdin
<1> QED BY <1>1, <1>2, <1>3, <1>4 DEF Environment

\* The invariant holds initially,
LEMMA InvInit == Init => Inv
<1> SUFFICES ASSUME Init
             PROVE  Inv
  OBVIOUS
<1>0. /\ opt \in [tls : BOOLEAN, json : BOOLEAN, no_handshake : BOOLEAN,
                  idle : BOOLEAN, ping : Nat \cup {-1}, repeat : Nat \cup {-1}]
      /\ opt \in Options
  BY WscatAssumption DEF Init
<1> DEFINE one == <<Frame("req")>>
<1>1. /\ one \in Seq(Frames) /\ Len(one) = 1 /\ one[1].op = "req"
      /\ <<>> \in Seq(Frames) /\ Len(<<>>) = 0 /\ <<>> \in Seq(NetToks \cup {"raw"})
      /\ SendCap \in Nat /\ 1 <= SendCap /\ RecvCap \in Nat /\ MaxTyped \in Nat
  <2>1. Frame("req") \in Frames /\ Frame("req").op = "req"
    BY FrameTypes DEF Ops
  <2>2. SendCap \in Nat \ {0} /\ RecvCap \in Nat \ {0} /\ MaxTyped \in Nat
    BY WscatAssumption
  <2>3. 1 <= SendCap /\ SendCap \in Nat /\ RecvCap \in Nat
    BY <2>2
  <2> QED BY <2>1, <2>2, <2>3, EmptySeq
<1>2. Pieces(one) = {} /\ Pieces(<<>>) = {}
  BY <1>1 DEF Pieces
<1> HIDE DEF one
<1>3. PICK e \in SUBSET {"OUT"} : (e # {} => opt.tls) /\ ws = turn_on(WskInit(opt), e)
  BY DEF Init
<1> DEFINE w == WskInit(opt)
<1>4. /\ w \in Wsk /\ w.recv = "http" /\ w.flags = {} /\ w.recvbuf = <<>>
      /\ "IN" \in w.events
      /\ w.tls = (IF opt.tls THEN "handshake" ELSE "off")
      /\ w.sendbuf = (IF opt.tls THEN <<>> ELSE one)
      /\ ~opt.tls => "OUT" \in w.events
  BY <1>1 DEF WskInit, Wsk, NetToks, one
<1> HIDE DEF w
<1>5. SameBut(ws, w, {"events"}) /\ ws.events = w.events \cup e
  BY <1>3, <1>4, Turned DEF w
<1>6. WsInv(ws, "loop", FALSE)
  <2>1. Len(ws.sendbuf) <= SendCap
    <3>1. ws.sendbuf = <<>> \/ ws.sendbuf = one
      BY <1>4, <1>5 DEF SameBut
    <3>2. 0 <= SendCap
      BY <1>1
    <3> QED BY <1>1, <3>1, <3>2
  <2> QED BY <1>4, <1>5, <2>1 DEF WsInv, SameBut
<1>7. ws.recv = "http" /\ Pieces(ws.sendbuf) = {}
  BY <1>2, <1>4, <1>5 DEF SameBut
<1>8. /\ in \in [open : BOOLEAN, watched : BOOLEAN, read : 0 .. MaxTyped,
                 buf : Seq(1 .. MaxTyped)]
      /\ in.open = FALSE /\ in.watched = FALSE /\ in.read = 0 /\ in.buf = <<>>
      /\ Len(in.buf) = 0
  BY <1>1, EmptySeq DEF Init
<1>9. rep \in [num : -1 .. opt.repeat, armed : BOOLEAN, last : Frames \cup {None}]
      /\ rep.armed = FALSE /\ rep.last.op = "none"
  BY <1>0, FrameTypes DEF Init
<1>10. NetOK(net)
  BY EmptySeq DEF NetOK, Init
<1>11. StdinInv /\ RepeatInv
  BY <1>1, <1>7, <1>8, <1>9 DEF StdinInv, RepeatInv, Init
<1>12. pc = "loop" /\ "loop" \in PCs /\ frames = FALSE /\ done = FALSE /\ todo = {}
       /\ peer = "syn" /\ typed = 0 /\ 0 \in 0 .. MaxTyped /\ eof = FALSE
  BY <1>1 DEF Init, PCs
<1> QED BY <1>0, <1>6, <1>7, <1>8, <1>9, <1>10, <1>11, <1>12, InvParts

\* and every step keeps it.
LEMMA InvNext == Inv /\ [Next]_vars => Inv'
<1> SUFFICES ASSUME Inv, [Next]_vars
             PROVE  Inv'
  OBVIOUS
<1>1. CASE WsEvent
  BY <1>1, OnReadInv, OnWriteInv DEF WsEvent
<1>2. CASE WsRecv
  BY <1>2, HttpRecvInv, WsRecvInv, LoopInv DEF WsRecv
<1>3. CASE Stdin
  BY <1>3, StdinEvents
<1>4. CASE OnIteration
  BY <1>4, OnIterationInv
<1>5. CASE Done \/ epoll_wait \/ EventsDone
  BY <1>5, LoopInv
<1>6. CASE Environment
  BY <1>6, EnvInv
<1>7. CASE UNCHANGED vars
  <2>1. UNCHANGED program /\ UNCHANGED <<net, peer, typed, eof>>
    BY <1>7 DEF vars
  <2>2. NetOK(net) /\ typed \in 0 .. MaxTyped /\ typed <= typed
    BY InvParts, WscatAssumption
  <2> QED BY <2>1, <2>2, InvParts, EnvStep
<1> QED BY <1>1, <1>2, <1>3, <1>4, <1>5, <1>6, <1>7 DEF Next, Program, Gone

-----------------------------------------------------------------------------
(* What a step may do                                                      *)

\* wssk at w has no frame more than now, or the last one is not a close frame.
NoClose(w) == ~(Len(w.sendbuf) > Len(ws.sendbuf) /\ Last(w.sendbuf).op = "close")

\* The closing handshake has begun.
ClosingBegun == ws.flags \cap {"closing", "close", "close_on_write"} # {}

\* A send buffer that does not change gains no close frame,
LEMMA NoCloseSame ==
    ASSUME Inv
    PROVE  /\ \A w : w.sendbuf = ws.sendbuf => NoClose(w)
           /\ NoClose(WskDestroyed)
<1>1. ws.sendbuf \in Seq(Frames) /\ Len(ws.sendbuf) \in Nat
  BY InvParts, LenProperties DEF WsInv, Wsk
<1>2. WskDestroyed.sendbuf = <<>> /\ Len(<<>>) = 0
  BY EmptySeq DEF WskDestroyed
<1>3. ~(0 > Len(ws.sendbuf)) /\ ~(Len(ws.sendbuf) > Len(ws.sendbuf))
  BY <1>1
<1> QED BY <1>2, <1>3 DEF NoClose

\* nor does one to which another frame is added,
LEMMA NoCloseAppend ==
    ASSUME Inv, NEW w, NEW f \in Frames, w.sendbuf = Append(ws.sendbuf, f), f.op # "close"
    PROVE  NoClose(w)
<1>1. ws.sendbuf \in Seq(Frames)
  BY InvParts DEF WsInv, Wsk
<1>2. Last(Append(ws.sendbuf, f)) = f
  BY <1>1, AppendProperties DEF Last
<1> QED BY <1>2 DEF NoClose

\* or of which some is sent.
LEMMA NoCloseRest ==
    ASSUME Inv, NEW w, NEW k \in 1 .. Len(ws.sendbuf),
           w.sendbuf = SubSeq(ws.sendbuf, k + 1, Len(ws.sendbuf))
    PROVE  NoClose(w)
<1>1. ws.sendbuf \in Seq(Frames) /\ Len(ws.sendbuf) \in Nat
  BY InvParts, LenProperties DEF WsInv, Wsk
<1>2. Len(w.sendbuf) = Len(ws.sendbuf) - k
  BY <1>1, SubSeqProperties
<1>3. ~(Len(w.sendbuf) > Len(ws.sendbuf))
  BY <1>1, <1>2
<1> QED BY <1>3 DEF NoClose

\* Events of wssk queue at most a request, and end the program by an assertion of
\* on_read or by a failing write.
LEMMA WsEventStep ==
    ASSUME Inv, WsEvent
    PROVE  /\ NoClose(ws')
           /\ pc' \in {"exit", "ub"} =>
                 \/ pc = "events" /\ OnWritable /\ ws.sendbuf # <<>>
                 \/ pc = "events" /\ opt.tls /\ "close_on_write" \in ws.flags
<1>0. pc = "events" /\ ws \in Wsk /\ WsInv(ws, "events", frames) /\ opt \in Options
  <2>1. pc = "events"
    BY DEF WsEvent, OnReadFails, OnReadFull, OnReadData, OnReadEnd, TlsReadNothing,
           TlsHandshakeRead, TlsHandshakeFails, OnWrite, TlsWriteRenegotiates,
           TlsHandshakeWrite, OnWriteFails, OnHup, NotWritable, OnRead, OnWritable, OnEvent
  <2> QED BY <2>1, InvParts DEF WsInv
<1>1. ASSUME wssk_close
      PROVE  NoClose(ws') /\ pc' = "events"
  BY <1>1, NoCloseSame DEF wssk_close, Goto
<1>2. ASSUME NEW w \in Wsk, NEW k, NoClose(w), post_read(w, k)
      PROVE  NoClose(ws') /\ pc' \in {"events", "recv"}
  <2>1. ws' = Flag(w, {"ts_last_io"}) /\ pc' \in {"events", "recv"}
    BY <1>2 DEF post_read
  <2>2. ws'.sendbuf = w.sendbuf
    BY <2>1, Flagged DEF SameBut, Flags
  <2> QED BY <1>2, <2>1, <2>2 DEF NoClose
<1>3. ASSUME NEW w \in Wsk, NoClose(w), Written(w)
      PROVE  NoClose(ws') /\ pc' = "events"
  <2>1. CASE wssk_close
    BY <1>1, <2>1
  <2>2. CASE Goto(Flag(w, {"ts_last_io"}), "events")
    <3>1. ws' = Flag(w, {"ts_last_io"}) /\ pc' = "events"
      BY <2>2 DEF Goto
    <3>2. ws'.sendbuf = w.sendbuf
      BY <3>1, Flagged DEF SameBut, Flags
    <3> QED BY <1>3, <3>1, <3>2 DEF NoClose
  <2> QED BY <1>3, <2>1, <2>2 DEF Written
<1>4. ASSUME NEW e \in SUBSET {"IN", "OUT"}, NEW t \in {"again", "on"}
      PROVE  /\ turn_off(ws, e) \in Wsk /\ NoClose(turn_off(ws, e))
             /\ turn_on([ws EXCEPT !.tls = t], e) \in Wsk
             /\ NoClose(turn_on([ws EXCEPT !.tls = t], e))
  <2>1. SameBut(turn_off(ws, e), ws, {"events"})
    BY <1>0, Turned
  <2> DEFINE v == [ws EXCEPT !.tls = t]
  <2>2. SameBut(v, ws, {"tls"})
    BY <1>0, WithTls
  <2> HIDE DEF v
  <2>3. SameBut(turn_on(v, e), v, {"events"})
    BY <2>2, Turned DEF SameBut
  <2>4. NoClose(turn_off(ws, e)) /\ NoClose(turn_on(v, e))
    BY <2>1, <2>2, <2>3, NoCloseSame DEF SameBut
  <2> QED BY <2>1, <2>3, <2>4 DEF SameBut, v
<1>5. ASSUME NEW e \in SUBSET {"IN", "OUT"}, NEW w \in wssk_tls_handshake(turn_off(ws, e))
      PROVE  w \in Wsk /\ NoClose(w)
  <2> DEFINE v == turn_off(ws, e)
             u == [v EXCEPT !.tls = "on"]
             c == create_http_req(u)
  <2>1. SameBut(v, ws, {"events"}) /\ w \in wssk_tls_handshake(v)
    BY <1>0, <1>5, Turned
  <2> HIDE DEF v
  <2>2. w = turn_on(v, {"IN"}) \/ w = turn_on(v, {"OUT"}) \/ w = turn_on(c, {"IN", "OUT"})
    BY <2>1 DEF wssk_tls_handshake
  <2>3. v \in Wsk
    BY <2>1 DEF SameBut
  <2>4. SameBut(u, v, {"tls"})
    BY <2>3, WithTls
  <2> HIDE DEF u
  <2>5. /\ SameBut(c, u, {"sendbuf"})
        /\ c.sendbuf = u.sendbuf \/ c.sendbuf = Append(u.sendbuf, Frame("req"))
    <3>1. CASE Fits(u)
      <4>1. c = Put(u, Frame("req")) /\ Frame("req") \in Frames
        BY <3>1, FrameTypes DEF create_http_req, Ops
      <4> QED BY <2>4, <3>1, <4>1, PutOne DEF Puts, SameBut
    <3>2. CASE ~Fits(u)
      BY <2>4, <3>2 DEF create_http_req, SameBut
    <3> QED BY <3>1, <3>2
  <2> HIDE DEF c
  <2>6. c \in Wsk
    BY <2>5 DEF SameBut
  <2>7. SameBut(w, v, {"events"}) \/ SameBut(w, c, {"events"})
    BY <2>2, <2>3, <2>6, Turned
  <2>8. /\ w \in Wsk
        /\ w.sendbuf = ws.sendbuf \/ w.sendbuf = Append(ws.sendbuf, Frame("req"))
    BY <2>1, <2>4, <2>5, <2>7 DEF SameBut
  <2>9. Frame("req") \in Frames /\ Frame("req").op # "close"
    BY FrameTypes DEF Ops
  <2> QED BY <2>8, <2>9, NoCloseSame, NoCloseAppend
<1>6. {"IN"} \in SUBSET {"IN", "OUT"} /\ {"OUT"} \in SUBSET {"IN", "OUT"}
  OBVIOUS
<1>7. NoClose(ws)
  BY NoCloseSame
<1>8. CASE OnReadFails
  <2>1. ws' = ws /\ pc' = "exit" /\ "IN" \in ws.events
        /\ ws.flags \cap {"close", "close_on_write"} # {}
    BY <1>8 DEF OnReadFails, OnRead, OnReadAsserts, Goto
  <2>2. "close_on_write" \in ws.flags /\ opt.tls
    BY <1>0, <2>1 DEF WsInv, Stopped
  <2> QED BY <1>0, <1>7, <2>1, <2>2
<1>9. CASE OnReadFull \/ TlsReadNothing \/ TlsHandshakeRead
  <2>1. \/ \E k : post_read(turn_off(ws, {"IN"}), k)
        \/ post_read(ws, 1)
        \/ post_read(turn_on([ws EXCEPT !.tls = "again"], {"OUT"}), 1)
        \/ \E w \in wssk_tls_handshake(turn_off(ws, {"IN"})) : post_read(w, 1)
    BY <1>9 DEF OnReadFull, TlsReadNothing, TlsHandshakeRead
  <2>2. NoClose(ws') /\ pc' \in {"events", "recv"}
    BY <1>0, <1>2, <1>4, <1>5, <1>6, <1>7, <2>1
  <2> QED BY <2>2
<1>10. CASE OnReadData
  <2>1. PICK b, k : post_read([ws EXCEPT !.recvbuf = b], k)
    BY <1>0, <1>10 DEF OnReadData, Wsk
  <2>2. ws' = Flag([ws EXCEPT !.recvbuf = b], {"ts_last_io"}) /\ pc' \in {"events", "recv"}
    BY <2>1 DEF post_read
  <2>3. ws'.sendbuf = ws.sendbuf
    BY <1>0, <2>2 DEF Flag, Wsk
  <2> QED BY <2>2, <2>3, NoCloseSame
<1>11. CASE OnReadEnd \/ OnHup
  BY <1>1, <1>11 DEF OnReadEnd, OnHup
<1>12. CASE TlsHandshakeFails
  <2>1. \/ wssk_close \/ post_read(turn_off(ws, {"IN"}), 0) \/ Written(turn_off(ws, {"OUT"}))
    BY <1>12 DEF TlsHandshakeFails
  <2> QED BY <1>1, <1>2, <1>3, <1>4, <1>6, <2>1
<1>13. CASE OnWrite
  <2>1. CASE Written(turn_off(ws, {"OUT"}))
    BY <1>3, <1>4, <1>6, <2>1
  <2>2. ASSUME NEW k \in 1 .. Len(ws.sendbuf),
               Written([ws EXCEPT !.sendbuf = SubSeq(ws.sendbuf, k + 1, Len(ws.sendbuf))])
        PROVE  NoClose(ws') /\ pc' = "events"
    <3> DEFINE b == SubSeq(ws.sendbuf, k + 1, Len(ws.sendbuf))
               w == [ws EXCEPT !.sendbuf = b]
    <3>1. ws.sendbuf \in Seq(Frames) /\ Len(ws.sendbuf) \in Nat
      BY <1>0, LenProperties DEF Wsk
    <3>2. b \in Seq(Frames)
      <4>1. \A i \in k + 1 .. Len(ws.sendbuf) : ws.sendbuf[i] \in Frames
        BY <3>1, ElementOfSeq
      <4> QED BY <3>1, <4>1, SubSeqProperties
    <3>3. b = SubSeq(ws.sendbuf, k + 1, Len(ws.sendbuf)) /\ Written(w)
      BY <2>2
    <3> HIDE DEF b
    <3>4. w \in Wsk /\ w.sendbuf = b
      BY <1>0, <3>2, WithSendbuf DEF SameBut
    <3> HIDE DEF w
    <3>5. NoClose(w)
      BY <3>3, <3>4, NoCloseRest
    <3> QED BY <1>3, <3>3, <3>4, <3>5
  <2>3. \/ Written(turn_off(ws, {"OUT"}))
        \/ \E k \in 1 .. Len(ws.sendbuf) :
              Written([ws EXCEPT !.sendbuf = SubSeq(ws.sendbuf, k + 1, Len(ws.sendbuf))])
    BY <1>0, <1>13 DEF OnWrite, Wsk
  <2> QED BY <2>1, <2>2, <2>3
<1>14. CASE TlsWriteRenegotiates \/ TlsHandshakeWrite
  <2>1. \/ Written(turn_on([ws EXCEPT !.tls = "again"], {"IN"}))
        \/ \E w \in wssk_tls_handshake(turn_off(ws, {"OUT"})) : Written(w)
    BY <1>14 DEF TlsWriteRenegotiates, TlsHandshakeWrite
  <2> QED BY <1>3, <1>4, <1>5, <1>6, <2>1
<1>15. CASE OnWriteFails
  <2>1. OnWritable /\ ws.sendbuf # <<>> /\ (wssk_close \/ ws' = ws)
    BY <1>15 DEF OnWriteFails, Goto
  <2> QED BY <1>0, <1>1, <1>7, <2>1
<1>16. CASE NotWritable
  <2>1. wssk_close \/ (ws' = ws /\ pc' = "events")
    BY <1>16 DEF NotWritable, Goto
  <2> QED BY <1>1, <1>7, <2>1
<1> QED BY <1>8, <1>9, <1>10, <1>11, <1>12, <1>13, <1>14, <1>15, <1>16 DEF WsEvent

\* recv answers a close frame once, and ends the program in its two assertions.
LEMMA WsRecvStep ==
    ASSUME Inv, WsRecv
    PROVE  /\ ClosingBegun => NoClose(ws')
           /\ pc' \in {"exit", "ub"} =>
                 \/ /\ pc = "decode" /\ "closing" \in ws.flags
                    /\ Head(ws.recvbuf) \in {"ping", "pingp", "raw"}
                 \/ pc = "decode" /\ Head(ws.recvbuf) \in {"data", "raw"}
                 \/ pc = "recv" /\ ws.recv = "http" /\ Head(ws.recvbuf) = "101"
<1>0. ws \in Wsk /\ WsInv(ws, pc, frames) /\ NoClose(ws)
  BY InvParts, NoCloseSame DEF WsInv
<1>1. ASSUME NEW w, NEW fatal \in BOOLEAN, w.sendbuf = ws.sendbuf, RecvReturn(w, fatal)
      PROVE  NoClose(ws') /\ pc' = "events"
  <2>1. (ws' = WskDestroyed \/ ws' = w) /\ pc' = "events"
    BY <1>1 DEF RecvReturn, wssk_close, Goto
  <2> QED BY <1>1, <2>1, NoCloseSame
<1>2. ASSUME NEW w \in Wsk, NEW fatal \in BOOLEAN, w.sendbuf = ws.sendbuf, WsReturn(w, fatal)
      PROVE  NoClose(ws') /\ pc' = "events"
  <2>1. WsRecvTail(w).sendbuf = w.sendbuf
    BY DEF WsRecvTail, turn_on, turn_off, Wsk
  <2>2. RecvReturn(WsRecvTail(w), fatal)
    BY <1>2 DEF WsReturn
  <2> DEFINE v == WsRecvTail(w)
  <2>3. v.sendbuf = ws.sendbuf /\ RecvReturn(v, fatal)
    BY <1>2, <2>1, <2>2
  <2> HIDE DEF v
  <2> QED BY <1>1, <2>3
<1>3. ASSUME NEW b
      PROVE  [ws EXCEPT !.recvbuf = b].sendbuf = ws.sendbuf
  BY <1>0 DEF Wsk
<1>4. ASSUME NEW w, Decoded(w)
      PROVE  ws' = w /\ pc' = "decode"
  BY <1>4 DEF Decoded, Goto
<1>5. CASE HttpIncomplete \/ HttpGarbled
  BY <1>1, <1>3, <1>5 DEF HttpIncomplete, HttpGarbled
<1>6. CASE HttpUpgrade
  <2>1. CASE Exit
    <3>1. ws' = ws
      BY <2>1 DEF Exit, Goto
    <3> QED BY <1>0, <1>6, <3>1 DEF HttpUpgrade, HttpRecv
  <2>2. CASE RecvReturn([ws EXCEPT !.recv = "ws", !.recvbuf = <<>>], FALSE)
    <3>1. [ws EXCEPT !.recv = "ws", !.recvbuf = <<>>].sendbuf = ws.sendbuf
      BY <1>0 DEF Wsk
    <3> QED BY <1>1, <2>2, <3>1
  <2> QED BY <1>6, <2>1, <2>2 DEF HttpUpgrade
<1>7. CASE WsRecvStart
  BY <1>0, <1>7 DEF WsRecvStart, Goto
<1>8. CASE WsIncomplete \/ WsBad
  BY <1>0, <1>2, <1>8 DEF WsIncomplete, WsBad
<1>9. CASE WsData \/ WsPong \/ WsCloseIgnored
  <2>1. ASSUME NEW b, Decoded([ws EXCEPT !.recvbuf = b])
        PROVE  NoClose(ws') /\ pc' = "decode"
    <3>1. ws' = [ws EXCEPT !.recvbuf = b] /\ pc' = "decode"
      BY <2>1 DEF Decoded, Goto
    <3>2. ws'.sendbuf = ws.sendbuf
      BY <1>3, <3>1
    <3> QED BY <3>1, <3>2, NoCloseSame
  <2>2. [ws EXCEPT !.recvbuf = Tail(@)] = [ws EXCEPT !.recvbuf = Tail(ws.recvbuf)]
    BY <1>0 DEF Wsk
  <2>3. \/ Decoded([ws EXCEPT !.recvbuf = Tail(ws.recvbuf)])
        \/ Decoded([ws EXCEPT !.recvbuf = <<>>])
        \/ WsData /\ Exit
    BY <1>9, <2>2 DEF WsData, WsPong, WsCloseIgnored
  <2>4. CASE WsData /\ Exit
    <3>1. ws' = ws /\ pc = "decode" /\ Head(ws.recvbuf) \in {"data", "raw"}
      BY <2>4 DEF WsData, Exit, Goto, WsDecode
    <3> QED BY <3>1, NoCloseSame
  <2> QED BY <2>1, <2>3, <2>4
<1>10. CASE FinishClosingHandshake
  <2>1. ws' = [ws EXCEPT !.recvbuf = <<>>, !.flags = (@ \ {"closing"}) \cup {"close"}]
        /\ pc' = "decode"
    BY <1>4, <1>10 DEF FinishClosingHandshake
  <2>2. ws'.sendbuf = ws.sendbuf
    BY <1>0, <2>1 DEF Wsk
  <2> QED BY <2>1, <2>2, NoCloseSame
<1>11. CASE ReplyClose
  <2>1. ~ClosingBegun
    <3>1. "closing" \notin ws.flags /\ ws.recvbuf # <<>>
      BY <1>11 DEF ReplyClose, WsDecode
    <3> QED BY <1>0, <3>1 DEF ClosingBegun, WsInv
  <2>2. pc' \in {"decode", "events"}
    BY <1>11 DEF ReplyClose, Decoded, WsReturn, RecvReturn, wssk_close, Goto
  <2> QED BY <2>1, <2>2
<1>12. CASE WsPing
  <2>1. PICK t \in {"ping", "pingp"} :
          /\ WsDecode(t)
          /\ LET w == [ws EXCEPT !.recvbuf =
                          (IF t = "pingp" THEN <<"raw">> ELSE <<>>) \o Tail(@)]
             IN  IF "closing" \in ws.flags THEN Exit
                 ELSE IF Fits(w) THEN Decoded(ws_pong(w))
                 ELSE WsReturn(w, TRUE)
    BY <1>12 DEF WsPing
  <2> DEFINE b == (IF t = "pingp" THEN <<"raw">> ELSE <<>>) \o Tail(ws.recvbuf)
             v == [ws EXCEPT !.recvbuf = b]
             w == ws_pong(v)
  <2>2. \/ "closing" \in ws.flags /\ Exit
        \/ Fits(v) /\ Decoded(w)
        \/ WsReturn(v, TRUE)
    BY <1>0, <2>1 DEF Wsk
  <2>3. v \in Wsk /\ v.sendbuf = ws.sendbuf
    <3>1. ws.recvbuf # <<>>
      BY <2>1 DEF WsDecode
    <3>2. b \in Seq(NetToks \cup {"raw"})
      BY <1>0, <3>1, TailType
    <3> HIDE DEF b
    <3> QED BY <1>0, <3>2, WithRecvbuf DEF SameBut
  <2> HIDE DEF v
  <2>4. CASE "closing" \in ws.flags /\ Exit
    <3>1. ws' = ws /\ pc = "decode" /\ Head(ws.recvbuf) \in {"ping", "pingp", "raw"}
      BY <2>1, <2>4 DEF Exit, Goto, WsDecode
    <3> QED BY <1>0, <2>4, <3>1
  <2>5. CASE Fits(v) /\ Decoded(w)
    <3>1. Puts(w, v, Frame("pong"), {"events"})
      BY <2>3, <2>5, Announced
    <3>2. w.sendbuf = Append(ws.sendbuf, Frame("pong"))
      BY <2>3, <3>1 DEF Puts
    <3>3. Frame("pong") \in Frames /\ Frame("pong").op # "close"
      BY FrameTypes DEF Ops
    <3> HIDE DEF w
    <3>4. NoClose(w)
      BY <3>2, <3>3, NoCloseAppend
    <3> QED BY <1>4, <2>5, <3>4
  <2>6. CASE WsReturn(v, TRUE)
    BY <1>2, <2>3, <2>6
  <2> QED BY <2>2, <2>4, <2>5, <2>6
<1> QED BY <1>5, <1>6, <1>7, <1>8, <1>9, <1>10, <1>11, <1>12 DEF WsRecv

\* on_iteration leaves a socket alone that is being closed.
LEMMA IterationStep ==
    ASSUME Inv, OnIteration
    PROVE  /\ ClosingBegun => NoClose(ws')
           /\ pc' = "epoll_wait"
<1>1. PICK b : /\ b = ws \/ check_timeout(ws)
               /\ ws' = b \/ (rep.armed /\ "closing" \notin b.flags)
  BY Iteration
<1>2. ClosingBegun => "closing" \in ws.flags
  BY InvParts DEF OnIteration, ClosingBegun, WsInv, Stopped
<1>3. ClosingBegun => ~check_timeout(ws)
  BY DEF ClosingBegun, check_timeout
<1>4. ClosingBegun => ws' = ws
  BY <1>1, <1>2, <1>3
<1>5. pc' = "epoll_wait"
  BY DEF OnIteration, Goto
<1> QED BY <1>4, <1>5, NoCloseSame

\* What any step does.
LEMMA AnyStep ==
    ASSUME Inv, [Next]_vars
    PROVE  /\ ClosingBegun => NoClose(ws')
           /\ pc' \in {"exit", "ub"} /\ pc \notin Stopped =>
                 \/ /\ pc = "decode" /\ "closing" \in ws.flags
                    /\ Head(ws.recvbuf) \in {"ping", "pingp", "raw"}
                 \/ pc = "decode" /\ Head(ws.recvbuf) \in {"data", "raw"}
                 \/ pc = "recv" /\ ws.recv = "http" /\ Head(ws.recvbuf) = "101"
                 \/ pc = "events" /\ OnWritable /\ ws.sendbuf # <<>>
                 \/ pc = "events" /\ ~Open /\ rep.num > 0 /\ rep.last # None
                 \/ pc = "events" /\ opt.tls /\ "close_on_write" \in ws.flags
<1>0. NoClose(ws)
  BY NoCloseSame
<1>1. CASE WsEvent
  BY <1>1, WsEventStep
<1>2. CASE WsRecv
  BY <1>2, WsRecvStep
<1>3. CASE Stdin
  BY <1>3, StdinEvents DEF NoClose
<1>4. CASE OnIteration
  BY <1>4, IterationStep
<1>5. CASE Done \/ epoll_wait \/ EventsDone
  <2>1. ws' = ws /\ pc' \in {"stopped", "events", "loop"}
    BY <1>5 DEF Done, epoll_wait, EventsDone, Goto
  <2> QED BY <1>0, <2>1
<1>6. CASE Environment \/ UNCHANGED vars
  <2>1. ws' = ws /\ pc' = pc
    BY <1>6 DEF Environment, ServerSend, ServerConn, Type, CloseStdin, program, vars
  <2> QED BY <1>0, <2>1 DEF Stopped
<1> QED BY <1>1, <1>2, <1>3, <1>4, <1>5, <1>6 DEF Next, Program, Gone

-----------------------------------------------------------------------------
(* Theorems                                                                *)

\* The invariant that the rest follows from.
THEOREM Invariance == Spec => []Inv
  BY InvInit, InvNext, PTL DEF Spec

\* Buffers stay within their sizes, and all else is of its type.
THEOREM TypeCorrect == Spec => []TypeOK
<1>1. Inv => TypeOK
  BY DEF Inv
<1> QED BY <1>1, Invariance, PTL

\* stdin_recv: what was typed is sent in that order, no piece twice and none left
\* out, whatever the sizes of the buffers and however often they are full.
THEOREM StdinInOrderProved == Spec => []StdinInOrder
<1>1. Inv => StdinInOrder
  BY DEF Inv
<1> QED BY <1>1, Invariance, PTL

\* Between the handlers a sendbuf that is not empty is watched for EPOLLOUT.
THEOREM OutputAnnouncedProved == Spec => []OutputAnnounced
<1>1. Inv => OutputAnnounced
  BY DEF Inv, OutputInv, OutputAnnounced, Stopped
<1> QED BY <1>1, Invariance, PTL

\* wssk_tls_handshake: the first TLS handshake always waits for something.
THEOREM TlsHandshakeWaitsProved == Spec => []TlsHandshakeWaits
<1>1. Inv => TlsHandshakeWaits
  BY DEF Inv
<1> QED BY <1>1, Invariance, PTL

\* ws_start_closing_handshake and ws_finish_closing_handshake: no second close
\* frame is queued.
THEOREM OneCloseFrameProved == Spec => OneCloseFrame
<1>1. Inv /\ [Next]_vars
      => [ws.flags \cap {"closing", "close", "close_on_write"} # {} =>
             ~(/\ Len(ws'.sendbuf) > Len(ws.sendbuf)
               /\ Last(ws'.sendbuf).op = "close")]_vars
  BY AnyStep DEF NoClose, ClosingBegun
<1> QED BY <1>1, Invariance, PTL DEF Spec, OneCloseFrame

\* What can end wscat other than the end of the event loop.
THEOREM CrashCausesProved == Spec => CrashCauses
<1>1. Inv /\ [Next]_vars
      => [pc' \in {"exit", "ub"} /\ pc \notin Stopped =>
             \/ /\ pc = "decode" /\ "closing" \in ws.flags
                /\ Head(ws.recvbuf) \in {"ping", "pingp", "raw"}
             \/ pc = "decode" /\ Head(ws.recvbuf) \in {"data", "raw"}
             \/ pc = "recv" /\ ws.recv = "http" /\ Head(ws.recvbuf) = "101"
             \/ pc = "events" /\ OnWritable /\ ws.sendbuf # <<>>
             \/ pc = "events" /\ ~Open /\ rep.num > 0 /\ rep.last # None
             \/ pc = "events" /\ opt.tls /\ "close_on_write" \in ws.flags]_vars
  BY AnyStep
<1> QED BY <1>1, Invariance, PTL DEF Spec, CrashCauses

=============================================================================
