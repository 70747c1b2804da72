---------------------------- MODULE FramesProofs ----------------------------
(***************************************************************************)
(* The safety properties of Frames, for any buffers, frame lengths, length *)
(* classes and number of frames.                                           *)
(***************************************************************************)
EXTENDS Frames, SequenceTheorems, TLAPS

-----------------------------------------------------------------------------
(* Frames and their parts                                                  *)

\* Lengths and buffers are natural numbers.
LEMMA Numbers ==
    ASSUME TypeOK
    PROVE  /\ Cap[rcv] \in Nat /\ SendCap[rcv] \in Nat
           /\ wrpos \in Nat /\ wrpos <= Cap[rcv]
           /\ rdpos \in Nat /\ rdpos <= wrpos
           /\ out \in Nat /\ net \in Nat
           /\ rcv \in {"wsd", "wscat", "pp2"}
  BY FramesAssumption DEF TypeOK

\* A frame's header, and what an encoder takes it to need.
LEMMA FrameParts ==
    ASSUME TypeOK, NEW f \in Frames
    PROVE  /\ f.len \in Nat
           /\ f.op \in {"data", "ctl"}
           /\ Ext(f) \in {0, 2, 8}
           /\ Header(f) \in Nat /\ Header(f) >= 2
           /\ Size(f) = Header(f) + f.len /\ Size(f) \in Nat
           /\ rcv = "wsd" => Header(f) = 6 + Ext(f)
           /\ rcv = "wscat" => Header(f) = 2 + Ext(f)
           /\ rcv = "pp2" => Header(f) = 46
<1>1. f.len \in Nat /\ f.op \in {"data", "ctl"}
  BY FramesAssumption DEF Frames
<1>2. Ext(f) \in {0, 2, 8}
  BY DEF Ext
<1>3. rcv \in {"wsd", "wscat", "pp2"}
  BY Numbers
<1> QED BY <1>1, <1>2, <1>3 DEF Header, Size, PP2_HEADER_LEN

\* The first frame of the queue.
LEMMA FirstFrame ==
    ASSUME TypeOK, queue # <<>>
    PROVE  Head(queue) \in Frames /\ Tail(queue) \in Seq(Frames)
  BY HeadTailProperties DEF TypeOK

-----------------------------------------------------------------------------
(* The decoders                                                            *)

\* What a decoder may report of the frame f of which n bytes are there: how far
\* rdpos has moved, a whole frame, an unfinished one, or one it gives up on.
Sound(f, n, res) ==
    /\ res[1] \in {"frame", "EINPUT", "EAGAIN", "EBADREQ"}
    /\ res[2] \in 0 .. n
    /\ res[1] = "frame" => res[2] = Header(f) /\ Size(f) <= n
    /\ res[1] # "frame" /\ res[2] # 0 => KeyCut(f, n)
    /\ res[1] = "EBADREQ" => /\ rcv = "wscat"
                             /\ \/ n >= 2 /\ n < 2 + Ext(f)
                                \/ f.len > Cap[rcv]

\* ws_decode_frame, with the unsigned length and the return that leaves rdpos
\* behind the length field.
LEMMA WsDecodes ==
    ASSUME TypeOK, rcv = "wsd", NEW f \in Frames, NEW n \in 0 .. Cap[rcv]
    PROVE  Sound(f, n, ws_decode_frame(f, n))
<1> DEFINE hdr == 2 + ext_len(f, n - 2)
<1>1. /\ f.len \in Nat /\ Ext(f) \in {0, 2, 8} /\ Header(f) = 6 + Ext(f)
      /\ Size(f) = Header(f) + f.len /\ Cap[rcv] \in Nat /\ n \in Nat
  BY FrameParts, Numbers
<1>2. CASE n < 6
  BY <1>1, <1>2 DEF Sound, ws_decode_frame, WS_MASKED_FRAME_LEN
<1>3. CASE n >= 6 /\ n - 2 < Ext(f)
  <2>1. hdr = 2 /\ payload_len(f, n - 2) = Cap[rcv] + 1
    BY <1>1, <1>3 DEF ext_len, payload_len, ULONG_MAX
  <2>2. ws_decode_frame(f, n) = <<"EINPUT", 0>>
    BY <1>1, <1>3, <2>1 DEF ws_decode_frame, WS_MASKED_FRAME_LEN
  <2> QED BY <1>1, <2>2 DEF Sound
<1>4. CASE n >= 6 /\ ~(n - 2 < Ext(f))
  <2>1. hdr = 2 + Ext(f) /\ payload_len(f, n - 2) = f.len
    BY <1>1, <1>4 DEF ext_len, payload_len
  <2>2. CASE n - hdr < 4
    <3>1. ws_decode_frame(f, n) = <<"EINPUT", hdr>>
      BY <1>1, <1>4, <2>1, <2>2 DEF ws_decode_frame, WS_MASKED_FRAME_LEN
    <3>2. KeyCut(f, n) /\ hdr \in 0 .. n
      BY <1>1, <1>4, <2>1, <2>2 DEF KeyCut
    <3> HIDE DEF hdr
    <3> QED BY <3>1, <3>2 DEF Sound
  <2>3. CASE ~(n - hdr < 4) /\ f.len > n - hdr - 4
    <3>1. ws_decode_frame(f, n) = <<"EINPUT", 0>>
      BY <1>1, <1>4, <2>1, <2>3 DEF ws_decode_frame, WS_MASKED_FRAME_LEN
    <3> QED BY <1>1, <3>1 DEF Sound
  <2>4. CASE ~(n - hdr < 4) /\ ~(f.len > n - hdr - 4)
    <3>1. ws_decode_frame(f, n) = <<"frame", hdr + 4>>
      BY <1>1, <1>4, <2>1, <2>4 DEF ws_decode_frame, WS_MASKED_FRAME_LEN
    <3>2. hdr + 4 = Header(f) /\ Size(f) <= n /\ hdr + 4 \in 0 .. n
      BY <1>1, <2>1, <2>4
    <3> HIDE DEF hdr
    <3> QED BY <3>1, <3>2 DEF Sound
  <2> QED BY <2>2, <2>3, <2>4
<1> QED BY <1>1, <1>2, <1>3, <1>4

\* wssk_ws_decode_frame, which takes an unfinished length for too long a frame.
LEMMA WscatDecodes ==
    ASSUME TypeOK, rcv = "wscat", NEW f \in Frames, NEW n \in 0 .. Cap[rcv]
    PROVE  Sound(f, n, wssk_ws_decode_frame(f, n))
<1> DEFINE hdr == 2 + ext_len(f, n - 2)
<1>1. /\ f.len \in Nat /\ Ext(f) \in {0, 2, 8} /\ Header(f) = 2 + Ext(f)
      /\ Size(f) = Header(f) + f.len /\ Cap[rcv] \in Nat /\ n \in Nat
  BY FrameParts, Numbers
<1>2. CASE n < 2
  BY <1>1, <1>2 DEF Sound, wssk_ws_decode_frame, WS_UNMASKED_FRAME_LEN
<1>3. CASE n >= 2 /\ n - 2 < Ext(f)
  <2>1. hdr = 2 /\ payload_len(f, n - 2) = Cap[rcv] + 1
    BY <1>1, <1>3 DEF ext_len, payload_len, ULONG_MAX
  <2>2. wssk_ws_decode_frame(f, n) = <<"EBADREQ", 0>>
    BY <1>1, <1>3, <2>1 DEF wssk_ws_decode_frame, WS_UNMASKED_FRAME_LEN
  <2>3. n >= 2 /\ n < 2 + Ext(f)
    BY <1>1, <1>3
  <2> QED BY <1>1, <2>2, <2>3 DEF Sound
<1>4. CASE n >= 2 /\ ~(n - 2 < Ext(f))
  <2>1. hdr = 2 + Ext(f) /\ payload_len(f, n - 2) = f.len
    BY <1>1, <1>4 DEF ext_len, payload_len
  <2>2. CASE f.len > Cap[rcv]
    <3>1. wssk_ws_decode_frame(f, n) = <<"EBADREQ", 0>>
      BY <1>1, <1>4, <2>1, <2>2 DEF wssk_ws_decode_frame, WS_UNMASKED_FRAME_LEN
    <3> QED BY <1>1, <2>2, <3>1 DEF Sound
  <2>3. CASE ~(f.len > Cap[rcv]) /\ f.len > n - hdr
    <3>1. wssk_ws_decode_frame(f, n) = <<"EINPUT", 0>>
      BY <1>1, <1>4, <2>1, <2>3 DEF wssk_ws_decode_frame, WS_UNMASKED_FRAME_LEN
    <3> QED BY <1>1, <3>1 DEF Sound
  <2>4. CASE ~(f.len > Cap[rcv]) /\ ~(f.len > n - hdr)
    <3>1. wssk_ws_decode_frame(f, n) = <<"frame", hdr>>
      BY <1>1, <1>4, <2>1, <2>4 DEF wssk_ws_decode_frame, WS_UNMASKED_FRAME_LEN
    <3>2. hdr = Header(f) /\ Size(f) <= n /\ hdr \in 0 .. n
      BY <1>1, <2>1, <2>4
    <3> HIDE DEF hdr
    <3> QED BY <3>1, <3>2 DEF Sound
  <2> QED BY <2>2, <2>3, <2>4
<1> QED BY <1>1, <1>2, <1>3, <1>4

\* pp2_decode_frame, whose rdpos never moves.
LEMMA PP2Decodes ==
    ASSUME TypeOK, rcv = "pp2", NEW f \in Frames, NEW n \in 0 .. Cap[rcv]
    PROVE  Sound(f, n, pp2_decode_frame(f, n))
<1>1. /\ f.len \in Nat /\ Header(f) = 46
      /\ Size(f) = Header(f) + f.len /\ Cap[rcv] \in Nat /\ n \in Nat
  BY FrameParts, Numbers
<1>2. CASE n <= 46
  BY <1>1, <1>2 DEF Sound, pp2_decode_frame, PP2_HEADER_LEN
<1>3. CASE n > 46 /\ n - 46 < f.len
  BY <1>1, <1>3 DEF Sound, pp2_decode_frame, PP2_HEADER_LEN
<1>4. CASE n > 46 /\ ~(n - 46 < f.len)
  BY <1>1, <1>4 DEF Sound, pp2_decode_frame, PP2_HEADER_LEN
<1> QED BY <1>1, <1>2, <1>3, <1>4

\* All three, on what is in recvbuf.
LEMMA Decodings ==
    ASSUME TypeOK
    PROVE  /\ queue = <<>> => Attempt = <<"EINPUT", 0>>
           /\ queue # <<>> => Sound(Head(queue), wrpos, Attempt)
<1>1. queue = <<>> => Attempt = <<"EINPUT", 0>>
  BY DEF Attempt
<1>2. ASSUME queue # <<>> PROVE Sound(Head(queue), wrpos, Attempt)
  <2>1. Head(queue) \in Frames /\ wrpos \in 0 .. Cap[rcv]
    BY <1>2, FirstFrame, Numbers
  <2>2. Attempt = decode_frame(Head(queue), wrpos)
    BY <1>2 DEF Attempt
  <2>3. CASE rcv = "wsd"
    BY <2>1, <2>2, <2>3, WsDecodes DEF decode_frame
  <2>4. CASE rcv = "wscat"
    BY <2>1, <2>2, <2>4, WscatDecodes DEF decode_frame
  <2>5. CASE rcv = "pp2"
    BY <2>1, <2>2, <2>5, PP2Decodes DEF decode_frame
  <2> QED BY <2>3, <2>4, <2>5, Numbers
<1> QED BY <1>1, <1>2

-----------------------------------------------------------------------------
(* Steps                                                                   *)

\* A decoded frame: its header has been read and its payload is there.
LEMMA Found ==
    ASSUME TypeOK, Attempt[1] = "frame"
    PROVE  /\ queue # <<>>
           /\ Head(queue) \in Frames /\ Tail(queue) \in Seq(Frames)
           /\ Attempt[2] = Header(Head(queue))
           /\ Attempt[2] \in 0 .. wrpos
           /\ Attempt[2] + Head(queue).len = Size(Head(queue))
           /\ Size(Head(queue)) \in 0 .. wrpos
<1>1. queue # <<>>
  BY Decodings
<1>2. Sound(Head(queue), wrpos, Attempt) /\ Head(queue) \in Frames
      /\ Tail(queue) \in Seq(Frames)
  BY <1>1, Decodings, FirstFrame
<1>3. /\ Size(Head(queue)) = Header(Head(queue)) + Head(queue).len
      /\ Size(Head(queue)) \in Nat /\ wrpos \in Nat
  BY <1>2, FrameParts, Numbers
<1> QED BY <1>1, <1>2, <1>3 DEF Sound

\* The invariant holds before anything is sent.
LEMMA InitTypes == Init => TypeOK
<1> SUFFICES ASSUME Init PROVE TypeOK
  OBVIOUS
<1>1. Cap[rcv] \in Nat
  BY FramesAssumption DEF Init
<1>2. queue \in Seq(Frames)
  BY EmptySeq DEF Init
<1>3. 0 \in 0 .. Cap[rcv] /\ 0 \in 0 .. 0 /\ 0 \in 0 .. MaxFrames
  BY <1>1, FramesAssumption
<1>4. {watched, work, sync} \subseteq BOOLEAN
  BY DEF Init
<1> QED BY <1>2, <1>3, <1>4 DEF Init, TypeOK

\* The sender, the network and the reads.
LEMMA TransportTypes ==
    ASSUME TypeOK,
           (\E f \in Frames : Encode(f) \/ BackendSend(f)) \/ Write \/ Read \/ Retry
    PROVE  TypeOK'
<1>0. rcv' = rcv
  BY DEF Encode, BackendSend, Write, sk_write, Read, sk_read, ReadFull, Retry
<1>1. ASSUME NEW f \in Frames, Encode(f) \/ BackendSend(f) PROVE TypeOK'
  <2>1. Append(queue, f) \in Seq(Frames)
    BY AppendProperties DEF TypeOK
  <2>2. sent + 1 \in 0 .. MaxFrames
    BY <1>1, FramesAssumption DEF Encode, BackendSend, TypeOK
  <2>3. out + Size(f) \in Nat /\ net + Size(f) \in Nat
    BY FrameParts, Numbers
  <2> QED BY <1>0, <1>1, <2>1, <2>2, <2>3 DEF Encode, BackendSend, TypeOK
<1>2. CASE Write
  <2>1. PICK k \in 1 .. out : sk_write(k)
    BY <1>2 DEF Write
  <2>2. out - k \in Nat /\ net + k \in Nat
    BY Numbers
  <2> QED BY <1>0, <2>1, <2>2 DEF sk_write, TypeOK
<1>3. ASSUME NEW k \in 1 .. net, sk_read(k) PROVE TypeOK'
  <2>1. net - k \in Nat /\ wrpos + k \in 0 .. Cap[rcv] /\ rdpos \in 0 .. wrpos + k
    BY <1>3, Numbers DEF sk_read
  <2> QED BY <1>0, <1>3, <2>1 DEF sk_read, TypeOK
<1>4. CASE ReadFull \/ Retry
  BY <1>4 DEF ReadFull, Retry, TypeOK
<1> QED BY <1>1, <1>2, <1>3, <1>4 DEF Read

\* The decoders.
LEMMA DecodeTypes ==
    ASSUME TypeOK, Decode
    PROVE  TypeOK'
<1>1. CASE NoFrame
  <2>1. Attempt[2] \in 0 .. wrpos
    <3>1. CASE queue = <<>>
      BY <3>1, Decodings, Numbers
    <3>2. CASE queue # <<>>
      BY <3>2, Decodings DEF Sound
    <3> QED BY <3>1, <3>2
  <2> QED BY <1>1, <2>1 DEF NoFrame, TypeOK
<1>2. ASSUME NEW n \in 0 .. wrpos, queue # <<>>, Compact(n) PROVE TypeOK'
  <2>1. wrpos - n \in 0 .. Cap[rcv] /\ 0 \in 0 .. wrpos - n
    BY Numbers
  <2>2. Tail(queue) \in Seq(Frames)
    BY <1>2, FirstFrame
  <2> QED BY <1>2, <2>1, <2>2 DEF Compact, TypeOK
<1>3. CASE Data \/ Control
  <2>1. Attempt[1] = "frame"
    BY <1>3 DEF Data, Control, Decodes
  <2>2. queue # <<>> /\ \E n \in 0 .. wrpos : Compact(n)
    BY <1>3, <2>1, Found DEF Data, Control
  <2> QED BY <1>2, <2>2
<1>4. CASE DataAgain
  <2>1. Attempt[2] \in 0 .. wrpos
    BY <1>4, Found DEF DataAgain, Decodes
  <2> QED BY <1>4, <2>1 DEF DataAgain, TypeOK
<1>5. CASE ControlFails
  <2>1. Attempt[2] \in 0 .. wrpos
    BY <1>5, Found DEF ControlFails, Decodes
  <2>2. wrpos - Attempt[2] \in 0 .. Cap[rcv] /\ 0 \in 0 .. wrpos - Attempt[2]
    BY <2>1, Numbers
  <2> QED BY <1>5, <2>2 DEF ControlFails, TypeOK
<1>6. CASE Astray
  BY <1>6 DEF Astray, TypeOK
<1> QED BY <1>1, <1>3, <1>4, <1>5, <1>6 DEF Decode

\* rdpos and wrpos stay within recvbuf, whatever is sent and however it is cut.
THEOREM TypeCorrect == Spec => []TypeOK
<1>1. TypeOK /\ [Next]_vars => TypeOK'
  <2>1. TypeOK /\ UNCHANGED vars => TypeOK'
    BY DEF vars, TypeOK
  <2> QED BY <2>1, TransportTypes, DecodeTypes DEF Next
<1> QED BY <1>1, InitTypes, PTL DEF Spec

-----------------------------------------------------------------------------
(* Out of step                                                             *)

\* A step out of step is one of those that are known.
LEMMA SyncStep ==
    ASSUME TypeOK, Next, sync, ~sync'
    PROVE  LET f == Head(queue)
           IN  \/ KeyCut(f, wrpos)
               \/ f.op = "ctl" /\ f.len > 0 /\ wrpos >= Size(f)
               \/ f.op = "data" /\ rcv # "wscat" /\ wrpos >= Size(f)
<1> DEFINE f == Head(queue)
<1>1. Decode
  BY DEF Next, Encode, BackendSend, Write, sk_write, Read, sk_read, ReadFull, Retry
<1>2. CASE NoFrame
  <2>1. Attempt[1] # "frame" /\ Attempt[2] # 0
    BY <1>2 DEF NoFrame
  <2>2. queue # <<>>
    BY <2>1, Decodings
  <2> QED BY <2>1, <2>2, Decodings DEF Sound
<1>3. ASSUME Attempt[1] = "frame"
      PROVE  /\ wrpos >= Size(f) /\ Attempt[2] + f.len = Size(f)
             /\ Attempt[2] # Size(f) => f.len > 0
  <2>1. /\ Attempt[2] = Header(f) /\ Attempt[2] + f.len = Size(f)
        /\ Size(f) \in 0 .. wrpos /\ f \in Frames
    BY <1>3, Found
  <2>2. f.len \in Nat /\ Header(f) \in Nat /\ wrpos \in Nat
    BY <2>1, FrameParts, Numbers
  <2> QED BY <2>1, <2>2
<1>4. CASE Data
  BY <1>3, <1>4 DEF Data, Decodes, Compact
<1>5. CASE Control
  BY <1>3, <1>5 DEF Control, Decodes, Compact
<1>6. CASE DataAgain
  BY <1>3, <1>6 DEF DataAgain, Decodes
<1> QED BY <1>1, <1>2, <1>4, <1>5, <1>6 DEF Decode, ControlFails, Astray

\* However a stream is cut into reads, a decoder loses its place only in a masking
\* key that is cut, behind a control frame's payload, or at a frame it must retry.
THEOREM SyncLostByProved == Spec => SyncLostBy
<1>1. TypeOK /\ [Next]_vars =>
        [sync /\ ~sync' =>
          LET f == Head(queue)
          IN  \/ KeyCut(f, wrpos)
              \/ f.op = "ctl" /\ f.len > 0 /\ wrpos >= Size(f)
              \/ f.op = "data" /\ rcv # "wscat" /\ wrpos >= Size(f)]_vars
  BY SyncStep
<1> QED BY <1>1, TypeCorrect, PTL DEF Spec, SyncLostBy

-----------------------------------------------------------------------------
(* Giving up                                                               *)

\* The connection is closed by a decoder for one of the known reasons.
LEMMA ClosedStep ==
    ASSUME TypeOK, Next, state = "recv", state' = "closed"
    PROVE  LET f == Head(queue)
           IN  \/ rcv = "wscat" /\ wrpos >= 2 /\ wrpos < 2 + Ext(f)
               \/ rcv = "wscat" /\ f.len > Cap[rcv]
               \/ f.op = "ctl" /\ wrpos >= Size(f)
<1>1. Decode
  BY DEF Next, Encode, BackendSend, Write, sk_write, Read, sk_read, ReadFull, Retry
<1>2. CASE NoFrame
  <2>1. Attempt[1] = "EBADREQ"
    BY <1>2 DEF NoFrame
  <2>2. queue # <<>>
    BY <2>1, Decodings
  <2> QED BY <2>1, <2>2, Decodings DEF Sound
<1>3. CASE ControlFails
  <2>1. Head(queue).op = "ctl" /\ Size(Head(queue)) \in 0 .. wrpos
    BY <1>3, Found DEF ControlFails, Decodes
  <2> QED BY <2>1, Numbers
<1> QED BY <1>1, <1>2, <1>3 DEF Decode, Data, Control, Compact, DataAgain, Astray

\* An unfinished frame is waited for, unless wscat has read less than an extended
\* length, or one beyond its buffer; else only a pong without room ends it.
THEOREM ClosedByProved == Spec => ClosedBy
<1>1. TypeOK /\ [Next]_vars =>
        [state = "recv" /\ state' = "closed" =>
          LET f == Head(queue)
          IN  \/ rcv = "wscat" /\ wrpos >= 2 /\ wrpos < 2 + Ext(f)
              \/ rcv = "wscat" /\ f.len > Cap[rcv]
              \/ f.op = "ctl" /\ wrpos >= Size(f)]_vars
  BY ClosedStep
<1> QED BY <1>1, TypeCorrect, PTL DEF Spec, ClosedBy

-----------------------------------------------------------------------------
(* Past the end of sendbuf                                                 *)

\* A frame is at most so much longer than it was taken to be.
LEMMA Shortfall ==
    ASSUME TypeOK, NEW f \in Frames, rcv # "pp2"
    PROVE  /\ Needed(f) \in Nat
           /\ f.op = "ctl" => Needed(f) = Size(f)
           /\ f.op = "data" => Size(f) - Needed(f) <=
                  (IF Ext(f) = 2 THEN 2 ELSE 1) + (IF rcv = "wsd" THEN 4 ELSE 0)
<1>1. /\ f.len \in Nat /\ f.op \in {"data", "ctl"}
      /\ Max7 \in Nat /\ Max16 \in Nat /\ Max7 < Max16
      /\ Size(f) \in Nat /\ Size(f) = Header(f) + f.len
  BY FrameParts, FramesAssumption
<1>2. Header(f) = 2 + Ext(f) + (IF rcv = "wsd" THEN 4 ELSE 0)
  BY DEF Header
<1>3. CASE f.op = "ctl"
  BY <1>1, <1>3 DEF Needed
<1>4. CASE f.op = "data"
  <2>1. Needed(f) = f.len + (IF f.len <= Max7 THEN 1 ELSE IF f.len <= Max16 THEN 2 ELSE 9)
    BY <1>4 DEF Needed, ws_calculate_frame_length
  <2>2. CASE f.len <= Max7
    BY <1>1, <1>2, <1>4, <2>1, <2>2 DEF Ext
  <2>3. CASE ~(f.len <= Max7) /\ f.len <= Max16
    BY <1>1, <1>2, <1>4, <2>1, <2>3 DEF Ext
  <2>4. CASE ~(f.len <= Max7) /\ ~(f.len <= Max16)
    BY <1>1, <1>2, <1>4, <2>1, <2>4 DEF Ext
  <2> QED BY <2>2, <2>3, <2>4
<1> QED BY <1>1, <1>3, <1>4

\* Only a data frame gets there, and not far.
LEMMA OverrunStep ==
    ASSUME TypeOK, Next, state # "overrun", state' = "overrun"
    PROVE  LET f == queue'[Len(queue')]
           IN  /\ f.op = "data" /\ rcv # "pp2"
               /\ out' - SendCap[rcv] <= (IF Ext(f) = 2 THEN 2 ELSE 1)
                                         + (IF rcv = "wsd" THEN 4 ELSE 0)
<1>1. PICK f \in Frames : Encode(f)
  BY DEF Next, BackendSend, Write, sk_write, Read, sk_read, ReadFull, Retry, Decode,
         NoFrame, Data, Control, Compact, DataAgain, ControlFails, Astray
<1>2. queue'[Len(queue')] = f
  <2>1. queue' = Append(queue, f) /\ queue \in Seq(Frames)
    BY <1>1 DEF Encode, TypeOK
  <2> QED BY <2>1, AppendProperties
<1>3. /\ rcv # "pp2" /\ Needed(f) <= SendCap[rcv] - out
      /\ out' = out + Size(f) /\ out' > SendCap[rcv]
  BY <1>1 DEF Encode
<1>4. out \in Nat /\ SendCap[rcv] \in Nat /\ Size(f) \in Nat /\ f.op \in {"data", "ctl"}
  BY Numbers, FrameParts
<1> DEFINE d == (IF Ext(f) = 2 THEN 2 ELSE 1) + (IF rcv = "wsd" THEN 4 ELSE 0)
<1>5. /\ Needed(f) \in Nat /\ d \in Nat
      /\ f.op = "ctl" => Needed(f) = Size(f)
      /\ f.op = "data" => Size(f) - Needed(f) <= d
  BY <1>3, Shortfall
<1> HIDE DEF d
<1>6. f.op = "data" /\ out' - SendCap[rcv] <= d
  BY <1>3, <1>4, <1>5
<1> QED BY <1>2, <1>3, <1>6 DEF d

\* ws_calculate_frame_length lets a data frame run past the end of sendbuf by one or
\* two bytes, and four more if it is masked; no other frame does, and none further.
THEOREM OverrunByProved == Spec => OverrunBy
<1>1. TypeOK /\ [Next]_vars =>
        [state # "overrun" /\ state' = "overrun" =>
          LET f == queue'[Len(queue')]
          IN  /\ f.op = "data" /\ rcv # "pp2"
              /\ out' - SendCap[rcv] <= (IF Ext(f) = 2 THEN 2 ELSE 1)
                                        + (IF rcv = "wsd" THEN 4 ELSE 0)]_vars
  BY OverrunStep
<1> QED BY <1>1, TypeCorrect, PTL DEF Spec, OverrunBy

=============================================================================
