------------------------------- MODULE Frames -------------------------------
(***************************************************************************)
(* One direction of a connection at the level of bytes: frames are encoded *)
(* into the sender's sendbuf, written in pieces of any size, read in       *)
(* pieces of any size into the receiver's recvbuf, and decoded from there. *)
(* The receiver is wsd's websocket side (ws_decode_frame, masked frames    *)
(* from wscat), wscat (wssk_ws_decode_frame, unmasked frames from wsd) or  *)
(* wsd's backend side (pp2_decode_frame).                                  *)
(*                                                                         *)
(* Abstraction.  Bytes are counted, not named: what matters is where each  *)
(* header, length field, masking key and payload begins.  Header sizes are *)
(* those of the code; the payload lengths at which a length field of 7, 16 *)
(* and 64 bits is used are constants, so that short frames reach them all. *)
(***************************************************************************)
EXTENDS Integers, Sequences

CONSTANTS
    Receivers,  \* the receivers to consider: wsd, wscat, pp2
    Cap,        \* Cap[r]: size of recvbuf's data, in bytes
    SendCap,    \* SendCap[r]: size of the sender's buffer
    Max7,       \* the longest payload of a 7-bit length (125 in the code)
    Max16,      \* the longest payload of a 16-bit length (65535)
    Lens,       \* payload lengths that are sent
    MaxFrames   \* bound: frames sent

ASSUME FramesAssumption ==
    /\ Receivers \subseteq {"wsd", "wscat", "pp2"}
    /\ Cap \in [Receivers -> Nat \ {0}]
    /\ SendCap \in [Receivers -> Nat \ {0}]
    /\ Max7 \in Nat /\ Max16 \in Nat /\ Max7 < Max16
    /\ Lens \subseteq Nat
    /\ MaxFrames \in Nat

WS_MASKED_FRAME_LEN == 6
WS_UNMASKED_FRAME_LEN == 2
PP2_HEADER_LEN == 46

\* A frame: data, or a ping or pong.
Frames == [op : {"data", "ctl"}, len : Lens]

VARIABLES
    rcv,        \* the receiver
    queue,      \* frames not yet decoded, the bytes of the first at recvbuf[0]
    sent,       \* frames encoded so far
    out,        \* bytes in the sender's sendbuf
    net,        \* bytes on the way
    rdpos,      \* the receiver's recvbuf
    wrpos,
    watched,    \* is EPOLLIN on?
    work,       \* is the receiver on the work list?
    sync,       \* is recvbuf's next byte the first of a frame?
    state       \* of the receiver, or "overrun": sendbuf was written past its end

vars == <<rcv, queue, sent, out, net, rdpos, wrpos, watched, work, sync, state>>

TypeOK ==
    /\ rcv \in Receivers
    /\ queue \in Seq(Frames)
    /\ sent \in 0 .. MaxFrames
    /\ out \in Nat /\ net \in Nat
    /\ wrpos \in 0 .. Cap[rcv] /\ rdpos \in 0 .. wrpos
    /\ {watched, work, sync} \subseteq BOOLEAN
    /\ state \in {"wait", "recv", "astray", "closed", "overrun"}

Init ==
    /\ rcv \in Receivers
    /\ queue = <<>>
    /\ sent = 0
    /\ out = 0 /\ net = 0
    /\ rdpos = 0 /\ wrpos = 0
    /\ watched = TRUE
    /\ work = FALSE
    /\ sync = TRUE
    /\ state = "wait"

-----------------------------------------------------------------------------
(* The sender                                                              *)

\* Bytes of the extended length field.
Ext(f) == IF f.len <= Max7 THEN 0 ELSE IF f.len <= Max16 THEN 2 ELSE 8

\* Bytes put before the payload: the first two, the extended length and, from a
\* client, the masking key (ws_set_payload_len and its callers).
Header(f) ==
    IF rcv = "pp2" THEN PP2_HEADER_LEN
    ELSE 2 + Ext(f) + (IF rcv = "wsd" THEN 4 ELSE 0)

Size(f) == Header(f) + f.len

\* WS_PAYLOAD_7BITS and so on: one byte for both of the first two, no masking key.
ws_calculate_frame_length(len) ==
    len + (IF len <= Max7 THEN 1 ELSE IF len <= Max16 THEN 2 ELSE 9)

\* Mutation of Needed: encode_ping_pong_frame does not count the masking key.
M_Needed(f) ==
    IF f.op = "ctl" THEN 2 + Ext(f) + f.len ELSE ws_calculate_frame_length(f.len)

\* The length that a frame is taken to have when room is checked for:
\* encode_ping_pong_frame and encode_close_frame know the length exactly.  They
\* send no payload, but other clients and servers may.
Needed(f) ==
    IF f.op = "ctl" THEN Size(f) ELSE ws_calculate_frame_length(f.len)

\* ws_encode_frame, wssk_ws_encode_data_frame or encode_ping_pong_frame.  Writing
\* past the end of sendbuf's data is not followed any further.
Encode(f) ==
    /\ state = "wait"
    /\ rcv # "pp2"
    /\ sent < MaxFrames
    /\ Needed(f) <= SendCap[rcv] - out
    /\ sent' = sent + 1
    /\ queue' = Append(queue, f)
    /\ out' = out + Size(f)
    /\ state' = IF out' > SendCap[rcv] THEN "overrun" ELSE state
    /\ UNCHANGED <<rcv, net, rdpos, wrpos, watched, work, sync>>

\* The backend sends data.
BackendSend(f) ==
    /\ state = "wait"
    /\ rcv = "pp2" /\ f.op = "data"
    /\ sent < MaxFrames
    /\ sent' = sent + 1
    /\ queue' = Append(queue, f)
    /\ net' = net + Size(f)
    /\ UNCHANGED <<rcv, out, rdpos, wrpos, watched, work, sync, state>>

\* sk_write writes some of sendbuf and moves the rest to the front.
sk_write(k) ==
    /\ state = "wait"
    /\ out' = out - k
    /\ net' = net + k
    /\ UNCHANGED <<rcv, queue, sent, rdpos, wrpos, watched, work, sync, state>>

-----------------------------------------------------------------------------
(* Reading                                                                 *)

\* sk_read takes what has arrived, as far as it fits; post_read.
sk_read(k) ==
    /\ state = "wait"
    /\ watched
    /\ k <= Cap[rcv] - wrpos
    /\ net' = net - k
    /\ wrpos' = wrpos + k
    /\ state' = "recv"
    /\ UNCHANGED <<rcv, queue, sent, out, rdpos, watched, work, sync>>

\* recvbuf is full: EPOLLIN is turned off, and nothing turns it on again unless a
\* frame is decoded.
ReadFull ==
    /\ state = "wait"
    /\ watched
    /\ net > 0
    /\ wrpos = Cap[rcv]
    /\ watched' = FALSE
    /\ state' = "recv"
    /\ UNCHANGED <<rcv, queue, sent, out, net, rdpos, wrpos, work, sync>>

\* A recv that returned WSD_EAGAIN is called again in the next iteration.
Retry ==
    /\ state = "wait"
    /\ work
    /\ state' = "recv"
    /\ UNCHANGED <<rcv, queue, sent, out, net, rdpos, wrpos, watched, work, sync>>

-----------------------------------------------------------------------------
(* Decoding.  A decoder's result for the frame f of which n bytes are in    *)
(* recvbuf: what it returns, and how far rdpos has moved.                   *)

\* -1 as an unsigned length: more than any buffer holds.
ULONG_MAX == Cap[rcv] + 1

\* ws_decode_payload_len with n bytes left: a length field that is not complete
\* makes it return -1, and the test 0 > payload_len of its callers never holds.
payload_len(f, n) == IF n < Ext(f) THEN ULONG_MAX ELSE f.len
ext_len(f, n) == IF n < Ext(f) THEN 0 ELSE Ext(f)

\* Mutation of ws_decode_frame: the masking key is read without a check.
M_ws_decode_frame(f, n) ==
    LET hdr == 2 + ext_len(f, n - 2)
    IN  IF n < WS_MASKED_FRAME_LEN THEN <<"EINPUT", 0>>
        ELSE IF payload_len(f, n - 2) > n - hdr - 4 /\ n >= hdr + 4 THEN <<"EINPUT", 0>>
        ELSE <<"frame", hdr + 4>>

\* Mutation of ws_decode_frame: rdpos is not reset when the payload is not complete.
M_ws_decode_frame_rdpos(f, n) ==
    LET hdr == 2 + ext_len(f, n - 2)
    IN  IF n < WS_MASKED_FRAME_LEN THEN <<"EINPUT", 0>>
        ELSE IF n - hdr < 4 THEN <<"EINPUT", hdr>>
        ELSE IF payload_len(f, n - 2) > n - hdr - 4 THEN <<"EINPUT", hdr + 4>>
        ELSE <<"frame", hdr + 4>>

ws_decode_frame(f, n) ==
    LET hdr == 2 + ext_len(f, n - 2)
    IN  IF n < WS_MASKED_FRAME_LEN THEN <<"EINPUT", 0>>
        ELSE IF n - hdr < 4 THEN <<"EINPUT", hdr>>
        ELSE IF payload_len(f, n - 2) > n - hdr - 4 THEN <<"EINPUT", 0>>
        ELSE <<"frame", hdr + 4>>

\* Mutation of wssk_ws_decode_frame: an incomplete frame is a bad one.
M_wssk_ws_decode_frame(f, n) ==
    LET hdr == 2 + ext_len(f, n - 2)
    IN  IF n < WS_UNMASKED_FRAME_LEN THEN <<"EINPUT", 0>>
        ELSE IF payload_len(f, n - 2) > n - hdr THEN <<"EBADREQ", 0>>
        ELSE <<"frame", hdr>>

wssk_ws_decode_frame(f, n) ==
    LET hdr == 2 + ext_len(f, n - 2)
    IN  IF n < WS_UNMASKED_FRAME_LEN THEN <<"EINPUT", 0>>
        ELSE IF payload_len(f, n - 2) > Cap[rcv] THEN <<"EBADREQ", 0>>
        ELSE IF payload_len(f, n - 2) > n - hdr THEN <<"EINPUT", 0>>
        ELSE <<"frame", hdr>>

\* Mutation of pp2_decode_frame: it waits for one byte more.
M_pp2_decode_frame(f, n) ==
    IF n <= PP2_HEADER_LEN THEN <<"EINPUT", 0>>
    ELSE IF n - PP2_HEADER_LEN <= f.len THEN <<"EAGAIN", 0>>
    ELSE <<"frame", PP2_HEADER_LEN>>

\* One byte more than the header is needed, even if there is no payload.
pp2_decode_frame(f, n) ==
    IF n <= PP2_HEADER_LEN THEN <<"EINPUT", 0>>
    ELSE IF n - PP2_HEADER_LEN < f.len THEN <<"EAGAIN", 0>>
    ELSE <<"frame", PP2_HEADER_LEN>>

decode_frame(f, n) ==
    CASE rcv = "wsd"   -> ws_decode_frame(f, n)
      [] rcv = "wscat" -> wssk_ws_decode_frame(f, n)
      [] rcv = "pp2"   -> pp2_decode_frame(f, n)

Attempt == IF queue = <<>> THEN <<"EINPUT", 0>> ELSE decode_frame(Head(queue), wrpos)

\* decode_frame finds no complete frame: recv returns.
NoFrame ==
    /\ state = "recv"
    /\ sync
    /\ Attempt[1] # "frame"
    /\ rdpos' = Attempt[2]
    /\ sync' = (Attempt[2] = 0)
    /\ state' = IF Attempt[1] = "EBADREQ" THEN "closed" ELSE "wait"
    /\ work' = (Attempt[1] = "EAGAIN")
    /\ UNCHANGED <<rcv, queue, sent, out, net, wrpos, watched>>

\* A frame was dealt with and n bytes of it were read; skb_compact.  wssk_ws_recv
\* turns EPOLLIN on again, ws_recv and pp2_recv do not.
Compact(n) ==
    /\ queue' = Tail(queue)
    /\ rdpos' = 0
    /\ wrpos' = wrpos - n
    /\ sync' = (n = Size(Head(queue)))
    /\ watched' = (watched \/ rcv = "wscat")
    /\ UNCHANGED <<rcv, sent, out, net, work, state>>

Decodes(op) ==
    /\ state = "recv"
    /\ sync
    /\ Attempt[1] = "frame"
    /\ Head(queue).op = op

\* A payload is printed, or put into the buffer of whom it is for.
Data ==
    /\ Decodes("data")
    /\ Compact(Attempt[2] + Head(queue).len)

\* There is no room in that buffer: rdpos stays behind the header.
DataAgain ==
    /\ Decodes("data")
    /\ rcv # "wscat"
    /\ rdpos' = Attempt[2]
    /\ sync' = FALSE
    /\ work' = TRUE
    /\ state' = "wait"
    /\ UNCHANGED <<rcv, queue, sent, out, net, wrpos, watched>>

\* Ping and pong: the payload stays in recvbuf.
Control ==
    /\ Decodes("ctl")
    /\ Compact(Attempt[2])

\* There is no room for the pong.
ControlFails ==
    /\ Decodes("ctl")
    /\ state' = "closed"
    /\ rdpos' = 0
    /\ wrpos' = wrpos - Attempt[2]
    /\ UNCHANGED <<rcv, queue, sent, out, net, watched, work, sync>>

\* What is decoded out of step with the frames is not followed any further.
Astray ==
    /\ state = "recv"
    /\ ~sync
    /\ state' = "astray"
    /\ UNCHANGED <<rcv, queue, sent, out, net, rdpos, wrpos, watched, work, sync>>

Decode == NoFrame \/ Data \/ DataAgain \/ Control \/ ControlFails \/ Astray

-----------------------------------------------------------------------------
Write == \E k \in 1 .. out : sk_write(k)
Read == (\E k \in 1 .. net : sk_read(k)) \/ ReadFull

Next == (\E f \in Frames : Encode(f) \/ BackendSend(f)) \/ Write \/ Read \/ Retry \/ Decode

\* The event loops run on, epoll_wait reports a socket for as long as there is
\* something to read, and a writable socket takes something.
Spec == Init /\ [][Next]_vars /\ SF_vars(Write) /\ SF_vars(Read) /\ WF_vars(Decode)

-----------------------------------------------------------------------------
(* Properties                                                              *)

\* The length field and the first bytes have arrived, the masking key has not.
KeyCut(f, n) == rcv = "wsd" /\ n >= 6 /\ n >= Header(f) - 4 /\ n < Header(f)

\* However a stream is cut into reads, a decoder loses its place in it only if
\* a read ends within the masking key behind an extended length (ws.c:166), if a
\* control frame has a payload, or if a whole frame has nowhere to go.
SyncLostBy ==
    [][sync /\ ~sync' =>
          LET f == Head(queue)
          IN  \/ KeyCut(f, wrpos)
              \/ f.op = "ctl" /\ f.len > 0 /\ wrpos >= Size(f)
              \/ f.op = "data" /\ rcv # "wscat" /\ wrpos >= Size(f)]_vars

\* The connection of a well-formed stream is given up only if wscat reads less
\* than a whole extended length, or a length beyond its buffer, or if there is
\* no room for a pong: an unfinished frame is otherwise waited for.
ClosedBy ==
    [][state = "recv" /\ state' = "closed" =>
          LET f == Head(queue)
          IN  \/ rcv = "wscat" /\ wrpos >= 2 /\ wrpos < 2 + Ext(f)
              \/ rcv = "wscat" /\ f.len > Cap[rcv]
              \/ f.op = "ctl" /\ wrpos >= Size(f)]_vars

\* A sendbuf is written past its end only by a data frame for which less room is
\* missing than ws_calculate_frame_length leaves out of account: one or two bytes
\* of the header, and the masking key.
OverrunBy ==
    [][state # "overrun" /\ state' = "overrun" =>
          LET f == queue'[Len(queue')]
          IN  /\ f.op = "data" /\ rcv # "pp2"
              /\ out' - SendCap[rcv] <= (IF Ext(f) = 2 THEN 2 ELSE 1)
                                        + (IF rcv = "wsd" THEN 4 ELSE 0)]_vars

\* The frame that is next can never be decoded: it is longer than recvbuf, or it
\* is an empty message of the backend that nothing follows.
Stuck ==
    /\ queue # <<>>
    /\ \/ Size(Head(queue)) > Cap[rcv]
       \/ rcv = "pp2" /\ Head(queue).len = 0 /\ Len(queue) = 1

\* Every frame sent is decoded in the end, unless the stream is out of step, given
\* up or stuck: no cut makes a decoder wait for what is already there.
FramesDecoded ==
    \A i \in 1 .. MaxFrames :
        (sent >= i) ~> \/ sent - Len(queue) >= i
                       \/ ~sync \/ Stuck \/ state \in {"closed", "overrun"}

=============================================================================
