--------------------------- MODULE WschildProofs ---------------------------
(***************************************************************************)
(* Type correctness of the daemon.  The lemmas of the first part say what  *)
(* the operations on socket records do; WschildSafety uses them, too.      *)
(***************************************************************************)
EXTENDS Wschild, SequenceTheorems, TLAPS

-----------------------------------------------------------------------------
(* Operations on socket records                                            *)

\* q is a record, and differs from r in the named fields at most.
SameBut(q, r, fields) ==
    /\ q \in Sk
    /\ "proto" \notin fields => q.proto = r.proto
    /\ "events" \notin fields => q.events = r.events
    /\ "flags" \notin fields => q.flags = r.flags
    /\ "retries" \notin fields => q.retries = r.retries
    /\ "sendbuf" \notin fields => q.sendbuf = r.sendbuf
    /\ "recvbuf" \notin fields => q.recvbuf = r.recvbuf

\* turn_on_events changes the events of a socket only.
LEMMA TurnOn ==
    ASSUME NEW r \in Sk, NEW e \in SUBSET Events
    PROVE  /\ SameBut(turn_on_events(r, e), r, {"events"})
           /\ turn_on_events(r, e).events = r.events \cup e
  BY DEF SameBut, Sk, turn_on_events

\* turn_off_events changes the events of a socket only.
LEMMA TurnOff ==
    ASSUME NEW r \in Sk, NEW e \in SUBSET Events
    PROVE  /\ SameBut(turn_off_events(r, e), r, {"events"})
           /\ turn_off_events(r, e).events = r.events \ e
  BY DEF SameBut, Sk, turn_off_events

\* Setting a flag or a timestamp changes the flags of a socket only.
LEMMA FlagSet ==
    ASSUME NEW r \in Sk, NEW f \in SUBSET Flags
    PROVE  /\ SameBut(Flag(r, f), r, {"flags"})
           /\ Flag(r, f).flags = r.flags \cup f
  BY DEF SameBut, Sk, Flag

\* Queueing a frame changes the sendbuf and turns EPOLLOUT on.
LEMMA Queued ==
    ASSUME NEW r \in Sk, NEW t \in SentToks
    PROVE  /\ SameBut(Queue(r, t), r, {"events", "sendbuf"})
           /\ Queue(r, t).events = r.events \cup {"OUT"}
           /\ Queue(r, t).sendbuf = Append(r.sendbuf, t)
  BY AppendProperties DEF SameBut, Sk, Queue, turn_on_events, Events

\* A new recvbuf changes nothing else.
LEMMA RecvbufSet ==
    ASSUME NEW r \in Sk, NEW b \in Seq(RecvToks)
    PROVE  /\ SameBut([r EXCEPT !.recvbuf = b], r, {"recvbuf"})
           /\ [r EXCEPT !.recvbuf = b].recvbuf = b
  BY DEF SameBut, Sk

\* A new sendbuf changes nothing else.
LEMMA SendbufSet ==
    ASSUME NEW r \in Sk, NEW b \in Seq(SentToks)
    PROVE  /\ SameBut([r EXCEPT !.sendbuf = b], r, {"sendbuf"})
           /\ [r EXCEPT !.sendbuf = b].sendbuf = b
  BY DEF SameBut, Sk

\* What sk_read appends to a buffer is of the type of the buffer.
LEMMA JoinType ==
    ASSUME NEW T, NEW b \in Seq(T), NEW q \in Seq(T)
    PROVE  Join(b, q) \in Seq(T)
  BY SubSeqProperties, ConcatProperties DEF Join, Front, Last

\* The events, flags and tokens the actions mention.
LEMMA Constants ==
    /\ {"IN"} \in SUBSET Events /\ {"OUT"} \in SUBSET Events
    /\ {"ts_last_io"} \in SUBSET Flags
    /\ {"closing"} \in SUBSET Flags
    /\ {"ts_closing_handshake_start"} \in SUBSET Flags
    /\ {"close_on_write"} \in SUBSET Flags
    /\ {"close_on_write", "closing"} \in SUBSET Flags
    /\ "101" \in SentToks /\ "400" \in SentToks /\ "data" \in SentToks
    /\ "ping" \in SentToks /\ "pong" \in SentToks /\ "close" \in SentToks
    /\ <<>> \in Seq(RecvToks) /\ <<"raw">> \in Seq(RecvToks)
    /\ Clients \subseteq SentToks /\ Clients \subseteq RecvToks
  BY EmptySeq DEF Events, Flags, SentToks, RecvToks

\* What ws_decode_handshake does to a socket.
LEMMA Handshake ==
    ASSUME NEW r \in Sk
    PROVE  /\ SameBut(ws_decode_handshake(r), r, {"proto", "events", "sendbuf", "recvbuf"})
           /\ ws_decode_handshake(r).proto = "ws"
           /\ ws_decode_handshake(r).events = r.events \cup {"OUT"}
           /\ ws_decode_handshake(r).sendbuf = Append(r.sendbuf, "101")
           /\ ws_decode_handshake(r).recvbuf = <<>>
<1> DEFINE q == [r EXCEPT !.proto = "ws", !.recvbuf = <<>>]
<1>1. /\ SameBut(q, r, {"proto", "recvbuf"})
      /\ q.proto = "ws" /\ q.recvbuf = <<>>
  BY Constants DEF SameBut, Sk, Protos
<1>2. ws_decode_handshake(r) = Queue(q, "101")
  BY DEF ws_decode_handshake
<1> HIDE DEF q
<1>3. /\ SameBut(Queue(q, "101"), q, {"events", "sendbuf"})
      /\ Queue(q, "101").events = q.events \cup {"OUT"}
      /\ Queue(q, "101").sendbuf = Append(q.sendbuf, "101")
  BY <1>1, Queued, Constants DEF SameBut
<1> QED BY <1>1, <1>2, <1>3 DEF SameBut

\* What http_recv does to a socket whose request it answers with a 400.
LEMMA Rejected ==
    ASSUME NEW r \in Sk
    PROVE  /\ SameBut(BadRequest(r), r, {"events", "flags", "sendbuf", "recvbuf"})
           /\ BadRequest(r).events = (r.events \cup {"OUT"}) \ {"IN"}
           /\ BadRequest(r).flags = r.flags \cup {"close_on_write"}
           /\ BadRequest(r).sendbuf = Append(r.sendbuf, "400")
           /\ BadRequest(r).recvbuf = <<>>
<1> DEFINE a == [r EXCEPT !.recvbuf = <<>>]
           b == Flag(a, {"close_on_write"})
           c == Queue(b, "400")
<1>1. SameBut(a, r, {"recvbuf"}) /\ a.recvbuf = <<>>
  BY RecvbufSet, Constants
<1>2. BadRequest(r) = turn_off_events(c, {"IN"})
  BY DEF BadRequest
<1> HIDE DEF a
<1>3. SameBut(b, a, {"flags"}) /\ b.flags = a.flags \cup {"close_on_write"}
  BY <1>1, FlagSet, Constants DEF SameBut
<1> HIDE DEF b
<1>4. /\ SameBut(c, b, {"events", "sendbuf"})
      /\ c.events = b.events \cup {"OUT"} /\ c.sendbuf = Append(b.sendbuf, "400")
  BY <1>3, Queued, Constants DEF SameBut
<1> HIDE DEF c
<1>5. /\ SameBut(turn_off_events(c, {"IN"}), c, {"events"})
      /\ turn_off_events(c, {"IN"}).events = c.events \ {"IN"}
  BY <1>4, TurnOff, Constants DEF SameBut
<1> QED BY <1>1, <1>2, <1>3, <1>4, <1>5 DEF SameBut

\* A control frame is taken off the recvbuf and nothing else changes.
LEMMA Consumed ==
    ASSUME NEW r \in Sk, r.recvbuf # <<>>, NEW t
    PROVE  /\ SameBut(Consume(r, t), r, {"recvbuf"})
           /\ Consume(r, t).recvbuf \in Seq(RecvToks)
<1> DEFINE p == IF t \in {"pingp", "pongp", "unknownp"} THEN <<"raw">> ELSE <<>>
           b == p \o Tail(r.recvbuf)
<1>1. b \in Seq(RecvToks)
  <2>1. p \in Seq(RecvToks)
    BY Constants
  <2>2. Tail(r.recvbuf) \in Seq(RecvToks)
    BY HeadTailProperties DEF Sk
  <2> HIDE DEF p
  <2> QED BY <2>1, <2>2, ConcatProperties
<1>2. Consume(r, t) = [r EXCEPT !.recvbuf = b]
  BY DEF Consume
<1> HIDE DEF b
<1> QED BY <1>1, <1>2, RecvbufSet DEF SameBut

\* What ws_finish_closing_handshake does to a socket it replies on.
LEMMA Replied ==
    ASSUME NEW r \in Sk
    PROVE  /\ SameBut(ReplyClose(r), r, {"flags", "sendbuf", "recvbuf"})
           /\ ReplyClose(r).flags = r.flags \cup {"close_on_write", "closing"}
           /\ ReplyClose(r).sendbuf = Append(r.sendbuf, "close")
           /\ ReplyClose(r).recvbuf = <<>>
<1> DEFINE q == Flag(r, {"close_on_write", "closing"})
<1>1. SameBut(q, r, {"flags"}) /\ q.flags = r.flags \cup {"close_on_write", "closing"}
  BY FlagSet, Constants
<1>2. ReplyClose(r) = [q EXCEPT !.recvbuf = <<>>, !.sendbuf = Append(q.sendbuf, "close")]
  BY DEF ReplyClose
<1> HIDE DEF q
<1>3. q \in Sk /\ Append(q.sendbuf, "close") \in Seq(SentToks) /\ <<>> \in Seq(RecvToks)
  BY <1>1, AppendProperties, Constants DEF SameBut, Sk
<1> QED BY <1>1, <1>2, <1>3 DEF SameBut, Sk

\* What ws_start_closing_handshake does to a socket.
LEMMA ClosingStarted ==
    ASSUME NEW r \in Sk
    PROVE  /\ SameBut(ws_start_closing_handshake(r), r, {"events", "flags", "sendbuf"})
           /\ ws_start_closing_handshake(r).flags = r.flags \cup {"closing"}
           /\ ws_start_closing_handshake(r).events = r.events \cup {"OUT"}
           /\ ws_start_closing_handshake(r).sendbuf = Append(r.sendbuf, "close")
<1> DEFINE q == Flag(r, {"closing"})
<1>1. SameBut(q, r, {"flags"}) /\ q.flags = r.flags \cup {"closing"}
  BY FlagSet, Constants
<1>2. ws_start_closing_handshake(r) = Queue(q, "close")
  BY DEF ws_start_closing_handshake
<1> HIDE DEF q
<1>3. /\ SameBut(Queue(q, "close"), q, {"events", "sendbuf"})
      /\ Queue(q, "close").events = q.events \cup {"OUT"}
      /\ Queue(q, "close").sendbuf = Append(q.sendbuf, "close")
  BY <1>1, Queued, Constants DEF SameBut
<1> QED BY <1>1, <1>2, <1>3 DEF SameBut

\* sk_write leaves a rest of the sendbuf and turns EPOLLOUT off if there was
\* nothing to write.
LEMMA Sent ==
    ASSUME NEW r \in Sk, NEW k \in 0 .. Len(r.sendbuf)
    PROVE  /\ SameBut(sk_write(r, k), r, {"events", "sendbuf"})
           /\ sk_write(r, k).events = IF r.sendbuf = <<>> THEN r.events \ {"OUT"} ELSE r.events
           /\ r.sendbuf = <<>> => sk_write(r, k).sendbuf = <<>>
           /\ Len(sk_write(r, k).sendbuf) <= Len(r.sendbuf)
           /\ \A T : r.sendbuf \in Seq(T) => sk_write(r, k).sendbuf \in Seq(T)
<1>1. CASE r.sendbuf = <<>>
  <2>1. sk_write(r, k) = turn_off_events(r, {"OUT"})
    BY <1>1 DEF sk_write
  <2>2. /\ SameBut(sk_write(r, k), r, {"events"})
        /\ sk_write(r, k).events = r.events \ {"OUT"}
    BY <2>1, TurnOff, Constants
  <2>3. sk_write(r, k).sendbuf = <<>> /\ Len(<<>>) <= Len(<<>>)
    BY <1>1, <2>2, EmptySeq DEF SameBut
  <2> QED BY <1>1, <2>2, <2>3 DEF SameBut
<1>2. CASE r.sendbuf # <<>>
  <2> DEFINE b == SubSeq(r.sendbuf, k + 1, Len(r.sendbuf))
  <2>1. \A T : r.sendbuf \in Seq(T) => b \in Seq(T) /\ Len(b) <= Len(r.sendbuf)
    <3> SUFFICES ASSUME NEW T, r.sendbuf \in Seq(T)
                 PROVE  b \in Seq(T) /\ Len(b) <= Len(r.sendbuf)
      OBVIOUS
    <3>1. /\ Len(r.sendbuf) \in Nat /\ k \in Nat /\ k <= Len(r.sendbuf)
          /\ \A i \in k + 1 .. Len(r.sendbuf) : r.sendbuf[i] \in T
      BY LenProperties, ElementOfSeq
    <3> QED BY <3>1, SubSeqProperties
  <2>2. r.sendbuf \in Seq(SentToks)
    BY DEF Sk
  <2>3. sk_write(r, k) = [r EXCEPT !.sendbuf = b]
    BY <1>2 DEF sk_write
  <2> HIDE DEF b
  <2> QED BY <1>2, <2>1, <2>2, <2>3, SendbufSet DEF SameBut
<1> QED BY <1>1, <1>2

\* sk_init and sk_destroy make records of the right type.
LEMMA NewSk ==
    /\ SkDestroyed \in Sk
    /\ SkInit("http") \in Sk
    /\ SkInit("pp2") \in Sk
  BY EmptySeq, CapsAssumption DEF Sk, SkDestroyed, SkInit, Protos, Events, Flags

-----------------------------------------------------------------------------
(* The type invariant                                                      *)

\* The part of it about the sockets, for the intermediate values of sk, too.
SkOK(skv) ==
    /\ skv \in [Sockets -> Sk]
    /\ \A c \in Clients : skv[c].proto # "pp2"
    /\ skv[Backend].proto \in {"free", "pp2"}
    /\ skv[Backend].sendbuf \in Seq(Clients)

\* The part about work_list, net and peer.
ListsOK(wl, n, p) ==
    /\ wl \subseteq Sockets \cup {Freed}
    /\ n \in [Sockets -> Seq(RecvToks)]
    /\ p \in [Sockets -> Peers]

\* A change to one socket that keeps to its role.
LEMMA SkUpdate ==
    ASSUME NEW skv, SkOK(skv), NEW s \in Sockets, NEW r \in Sk,
           s \in Clients => r.proto # "pp2",
           s = Backend => /\ r.proto \in {"free", "pp2"}
                          /\ r.sendbuf \in Seq(Clients)
    PROVE  SkOK([skv EXCEPT ![s] = r])
  BY SocketsAssumption DEF SkOK, Sockets

\* ops->close keeps the types.
LEMMA CloseType ==
    ASSUME NEW skv, SkOK(skv), NEW s \in Sockets, NEW wl, NEW next \in PCs,
           ListsOK(wl, net, peer), Close(skv, s, wl, next)
    PROVE  SkOK(sk') /\ ListsOK(work_list', net', peer') /\ pc' \in {"ub", next}
<1> USE SocketsAssumption DEF Sockets
<1>1. sk' = [skv EXCEPT ![s] = SkDestroyed]
  BY DEF Close, pp2_close, sk_close
<1>2. SkOK(sk')
  BY <1>1, NewSk, EmptySeq DEF SkOK, SkDestroyed
<1>3. work_list' \subseteq Sockets \cup {Freed}
  BY DEF ListsOK, Close, pp2_close, sk_close
<1>4. net' \in [Sockets -> Seq(RecvToks)]
  <2>1. <<>> \in Seq(RecvToks)
    BY EmptySeq
  <2>2. net' = [net EXCEPT ![s] = <<>>]
    BY DEF Close, pp2_close, sk_close
  <2> QED BY <2>1, <2>2 DEF ListsOK
<1>5. peer' \in [Sockets -> Peers]
  BY DEF ListsOK, Close, pp2_close, sk_close, Peers
<1>6. pc' \in {"ub", next}
  BY DEF Close, pp2_close, sk_close
<1> QED BY <1>2, <1>3, <1>4, <1>5, <1>6 DEF ListsOK

\* A step that closes nothing keeps the types.
LEMMA KeepType ==
    ASSUME NEW skv, SkOK(skv), NEW wl, NEW next \in PCs,
           ListsOK(wl, net, peer), Keep(skv, wl, next)
    PROVE  SkOK(sk') /\ ListsOK(work_list', net', peer') /\ pc' = next
  BY DEF Keep, ListsOK, SkOK

\* The rest of the state.
RestOK ==
    /\ todo \subseteq Sockets \cup {Listener, Freed}
    /\ cur \in Sockets \cup {NULL}
    /\ frames \in BOOLEAN
    /\ num \in 0 .. FhostnameNum - 1
    /\ known \subseteq Clients

\* A frame loop runs on a socket.
Typed == /\ TypeOK
         /\ pc = "decode" => cur \in Sockets

\* The type invariant, taken apart.
LEMMA TypedParts ==
    Typed <=> /\ SkOK(sk) /\ ListsOK(work_list, net, peer) /\ RestOK
              /\ pc \in PCs
              /\ pc = "decode" => cur \in Sockets
  BY DEF Typed, TypeOK, SkOK, ListsOK, RestOK

\* The same for the next state.
LEMMA TypedPartsNext ==
    Typed' <=> /\ SkOK(sk') /\ ListsOK(work_list', net', peer') /\ RestOK'
               /\ pc' \in PCs
               /\ pc' = "decode" => cur' \in Sockets
  BY DEF Typed, TypeOK, SkOK, ListsOK, RestOK

\* try_recv keeps the types, whatever recv returns.
LEMMA TryRecvReturnType ==
    ASSUME Typed, NEW skv, SkOK(skv), NEW s \in Sockets, NEW rv,
           TryRecvReturn(skv, s, rv),
           num' \in 0 .. FhostnameNum - 1, known' = known
    PROVE  Typed'
<1>1. ListsOK(work_list \ {s}, net, peer) /\ ListsOK(work_list, net, peer)
  BY TypedParts DEF ListsOK
<1>2. "try_recv" \in PCs /\ "ub" \in PCs
  BY DEF PCs, Halted
<1>3. /\ SkOK(sk') /\ ListsOK(work_list', net', peer')
      /\ pc' \in {"ub", "try_recv"}
  <2>1. CASE rv \notin {"ok", "EINPUT", "EAGAIN"}
             /\ "close_on_write" \notin skv[s].flags
    <3>1. Close(skv, s, work_list \ {s}, "try_recv")
      BY <2>1 DEF TryRecvReturn
    <3> QED BY <1>1, <1>2, <3>1, CloseType
  <2>2. CASE ~(rv \notin {"ok", "EINPUT", "EAGAIN"}
             /\ "close_on_write" \notin skv[s].flags)
    <3>1. \E wl \in {work_list, work_list \ {s}} : Keep(skv, wl, "try_recv")
      BY <2>2 DEF TryRecvReturn
    <3> QED BY <1>1, <1>2, <3>1, KeepType
  <2> QED BY <2>1, <2>2
<1>4. RestOK'
  BY TypedParts DEF TryRecvReturn, RestOK
<1> QED BY <1>2, <1>3, <1>4, TypedPartsNext

\* The frame loops keep the types after each frame.
LEMMA DecodedType ==
    ASSUME Typed, NEW skv, SkOK(skv), Decoded(skv)
    PROVE  Typed'
  BY TypedParts, TypedPartsNext DEF Decoded, RestOK, ListsOK

-----------------------------------------------------------------------------

\* What the type invariant says of sockets: only clients speak HTTP and websocket.
LEMMA SocketTypes ==
    ASSUME Typed
    PROVE  /\ SkOK(sk)
           /\ Clients \subseteq Sockets /\ Backend \in Sockets /\ Backend \notin Clients
           /\ \A s \in Sockets : sk[s] \in Sk
           /\ \A s \in Sockets : sk[s].proto \in {"http", "ws"} => s \in Clients
           /\ num \in 0 .. FhostnameNum - 1
  BY TypedParts, SocketsAssumption DEF SkOK, Sockets, RestOK

\* A change to a client's record that leaves or sets it to a client's protocol.
LEMMA ClientUpdate ==
    ASSUME NEW skv, SkOK(skv), NEW c \in Clients, NEW r, NEW fields,
           SameBut(r, skv[c], fields), "proto" \notin fields \/ r.proto # "pp2"
    PROVE  SkOK([skv EXCEPT ![c] = r])
<1>1. c \in Sockets /\ c # Backend /\ r \in Sk /\ r.proto # "pp2"
  BY SocketsAssumption DEF SkOK, Sockets, SameBut
<1> QED BY <1>1, SkUpdate

\* http_recv keeps the types.
LEMMA HttpType ==
    ASSUME Typed, NEW s \in Sockets,
           HttpIncomplete(s) \/ HttpUpgrade(s) \/ HttpReject(s) \/ HttpGarbled(s)
    PROVE  Typed'
<1>1. /\ s \in Clients /\ SkOK(sk) /\ sk[s] \in Sk
      /\ num' \in 0 .. FhostnameNum - 1 /\ known' = known
  BY SocketTypes DEF HttpRecv, HttpIncomplete, HttpUpgrade, HttpReject, HttpGarbled
<1>2. CASE HttpIncomplete(s)
  BY <1>1, <1>2, TryRecvReturnType DEF HttpIncomplete
<1>3. CASE HttpUpgrade(s)
  <2>1. SkOK([sk EXCEPT ![s] = ws_decode_handshake(sk[s])])
    BY <1>1, Handshake, ClientUpdate
  <2>2. TryRecvReturn([sk EXCEPT ![s] = ws_decode_handshake(sk[s])], s, "ok")
    BY <1>3 DEF HttpUpgrade
  <2> QED BY <1>1, <2>1, <2>2, TryRecvReturnType
<1>4. CASE HttpReject(s)
  <2>1. SkOK([sk EXCEPT ![s] = BadRequest(sk[s])])
    BY <1>1, Rejected, ClientUpdate
  <2>2. TryRecvReturn([sk EXCEPT ![s] = BadRequest(sk[s])], s, "fatal")
    BY <1>4 DEF HttpReject
  <2> QED BY <1>1, <2>1, <2>2, TryRecvReturnType
<1>5. CASE HttpGarbled(s)
  <2> DEFINE r == [sk[s] EXCEPT !.recvbuf = <<>>]
  <2>1. SkOK([sk EXCEPT ![s] = r])
    BY <1>1, Constants, RecvbufSet, ClientUpdate
  <2>2. TryRecvReturn([sk EXCEPT ![s] = r], s, "fatal")
    BY <1>5 DEF HttpGarbled
  <2> QED BY <1>1, <2>1, <2>2, TryRecvReturnType
<1> QED BY <1>2, <1>3, <1>4, <1>5

\* next_host stays within the list of forwarding hosts.
LEMMA HostType ==
    ASSUME num \in 0 .. FhostnameNum - 1, NEW k \in Nat
    PROVE  next_host(k) \in 0 .. FhostnameNum - 1
  BY CapsAssumption DEF next_host

\* The beginning of ws_recv, sk_open and the assertions of recv keep the types.
LEMMA RecvType ==
    ASSUME Typed, NEW s \in Sockets,
           RecvNothing(s) \/ WsRecvStart(s) \/ SkOpen(s) \/ SkOpenFails(s) \/ TryRecvFreed
    PROVE  Typed'
<1>1. SkOK(sk) /\ Backend \in Sockets /\ Backend \notin Clients
  BY SocketTypes
<1>2. {"exit", "ub", "decode"} \subseteq PCs
  BY DEF PCs, Halted
<1>3. CASE RecvNothing(s) \/ TryRecvFreed
  BY <1>2, <1>3, TypedParts, TypedPartsNext
     DEF RecvNothing, TryRecvFreed, Exit, Undefined, Keep, RestOK, ListsOK, SkOK
<1>4. CASE WsRecvStart(s)
  BY <1>2, <1>4, TypedParts, TypedPartsNext
     DEF WsRecvStart, StartDecoding, RestOK, ListsOK, SkOK
<1>5. CASE SkOpen(s)
  <2>1. SkOK([sk EXCEPT ![Backend] = SkInit("pp2")])
    BY <1>1, NewSk, EmptySeq, SkUpdate DEF SkInit
  <2>2. num' \in 0 .. FhostnameNum - 1
    BY <1>5, HostType, TypedParts, CapsAssumption DEF SkOpen, RestOK
  <2>3. peer' \in [Sockets -> Peers]
    BY <1>1, <1>5, TypedParts DEF SkOpen, ListsOK, Peers
  <2> QED BY <1>2, <1>5, <2>1, <2>2, <2>3, TypedParts, TypedPartsNext
             DEF SkOpen, StartDecoding, RestOK, ListsOK
<1>6. CASE SkOpenFails(s)
  <2>1. num' \in 0 .. FhostnameNum - 1
    BY <1>6, HostType, TypedParts, CapsAssumption DEF SkOpenFails, RestOK
  <2> QED BY <1>1, <1>6, <2>1, TryRecvReturnType DEF SkOpenFails
<1> QED BY <1>3, <1>4, <1>5, <1>6

\* What the end of ws_recv does to the sockets.
LEMMA RecvTail ==
    ASSUME NEW skv, SkOK(skv), cur \in Clients
    PROVE  /\ SkOK(WsRecvTail(skv))
           /\ \A x \in Sockets \ {cur, Backend} : WsRecvTail(skv)[x] = skv[x]
           /\ SameBut(WsRecvTail(skv)[Backend], skv[Backend], {"events"})
           /\ SameBut(WsRecvTail(skv)[cur], skv[cur], {"events"})
           /\ WsRecvTail(skv)[Backend].events =
                skv[Backend].events \cup
                (IF frames /\ skv[Backend].sendbuf # <<>> THEN {"OUT"} ELSE {})
           /\ WsRecvTail(skv)[cur].events =
                (skv[cur].events \cup
                 (IF "close_on_write" \in skv[cur].flags THEN {"OUT"} ELSE {}))
                \ (IF skv[cur].flags \cap {"close", "close_on_write"} # {}
                   THEN {"IN"} ELSE {})
<1> DEFINE c == skv[cur]
           b == skv[Backend]
           in == IF frames /\ "close_on_write" \in c.flags
                 THEN turn_on_events(c, {"IN"}) ELSE c
           off == IF c.flags \cap {"close", "close_on_write"} # {}
                  THEN turn_off_events(in, {"IN"}) ELSE in
           out == IF "close_on_write" \in c.flags
                  THEN turn_on_events(off, {"OUT"}) ELSE off
           back == IF frames /\ b.sendbuf # <<>>
                   THEN turn_on_events(b, {"OUT"}) ELSE b
<1>1. WsRecvTail(skv) = [skv EXCEPT ![cur] = out, ![Backend] = back]
  BY DEF WsRecvTail
<1>2. cur \in Sockets /\ Backend \in Sockets /\ cur # Backend /\ c \in Sk /\ b \in Sk
  BY SocketsAssumption DEF SkOK, Sockets
<1> HIDE DEF c, b
<1>3. /\ SameBut(in, c, {"events"})
      /\ in.events = c.events \cup
                     (IF frames /\ "close_on_write" \in c.flags THEN {"IN"} ELSE {})
  BY <1>2, TurnOn, Constants DEF SameBut
<1> HIDE DEF in
<1>4. /\ SameBut(off, c, {"events"})
      /\ off.events = in.events \
             (IF c.flags \cap {"close", "close_on_write"} # {} THEN {"IN"} ELSE {})
  BY <1>3, TurnOff, Constants DEF SameBut
<1> HIDE DEF off
<1>5. /\ SameBut(out, c, {"events"})
      /\ out.events = off.events \cup
             (IF "close_on_write" \in c.flags THEN {"OUT"} ELSE {})
  BY <1>4, TurnOn, Constants DEF SameBut
<1> HIDE DEF out
<1>6. /\ SameBut(back, b, {"events"})
      /\ back.events = b.events \cup
             (IF frames /\ b.sendbuf # <<>> THEN {"OUT"} ELSE {})
  BY <1>2, TurnOn, Constants DEF SameBut
<1> HIDE DEF back
<1>7. out.events = (c.events \cup (IF "close_on_write" \in c.flags THEN {"OUT"} ELSE {}))
                   \ (IF c.flags \cap {"close", "close_on_write"} # {} THEN {"IN"} ELSE {})
  BY <1>3, <1>4, <1>5
<1>8. SkOK(WsRecvTail(skv))
  <2>1. SkOK([skv EXCEPT ![cur] = out])
    BY <1>5, ClientUpdate DEF c
  <2>2. SkOK([[skv EXCEPT ![cur] = out] EXCEPT ![Backend] = back])
    BY <1>2, <1>6, <2>1, SkUpdate DEF SkOK, SameBut, b
  <2> QED BY <1>1, <1>2, <2>2
<1>9. /\ WsRecvTail(skv)[cur] = out /\ WsRecvTail(skv)[Backend] = back
      /\ \A x \in Sockets \ {cur, Backend} : WsRecvTail(skv)[x] = skv[x]
  BY <1>1, <1>2 DEF SkOK
<1> QED BY <1>5, <1>6, <1>7, <1>8, <1>9 DEF c, b

\* The end of ws_recv keeps the types.
LEMMA WsReturnType ==
    ASSUME Typed, cur \in Clients, NEW skv, SkOK(skv), NEW rv, WsReturn(skv, rv)
    PROVE  Typed'
<1>1. SkOK(WsRecvTail(skv)) /\ cur \in Sockets
  BY RecvTail, SocketTypes
<1>2. TryRecvReturn(WsRecvTail(skv), cur, rv) /\ num' = num /\ known' = known
  BY DEF WsReturn
<1> QED BY <1>1, <1>2, TryRecvReturnType, SocketTypes

\* The socket ws_decode_frame works on is a client with something to decode.
LEMMA WsDecodeCur ==
    ASSUME Typed, NEW t, WsDecode(t)
    PROVE  /\ pc = "decode" /\ cur \in Clients /\ cur \in Sockets
           /\ sk[cur] \in Sk /\ sk[cur].proto = "ws"
           /\ sk[cur].recvbuf # <<>>
           /\ Tail(sk[cur].recvbuf) \in Seq(RecvToks)
<1>1. pc = "decode" /\ sk[cur].proto = "ws" /\ sk[cur].recvbuf # <<>>
  BY DEF WsDecode
<1>2. cur \in Clients /\ cur \in Sockets /\ sk[cur] \in Sk
  BY <1>1, SocketTypes DEF Typed
<1>3. Tail(sk[cur].recvbuf) \in Seq(RecvToks)
  BY <1>1, <1>2, HeadTailProperties DEF Sk
<1> QED BY <1>1, <1>2, <1>3

\* A failed assertion and undefined behaviour change the control only.
LEMMA ExitType ==
    ASSUME Typed, Exit \/ Undefined, UNCHANGED <<todo, cur, frames, num, known>>
    PROVE  Typed'
<1>1. {"exit", "ub"} \subseteq PCs /\ "exit" # "decode" /\ "ub" # "decode"
  BY DEF PCs, Halted
<1> QED BY <1>1, TypedParts, TypedPartsNext
           DEF Exit, Undefined, Keep, RestOK, ListsOK, SkOK

\* ws_decode_frame keeps the types, whatever the frame.
LEMMA WsDecodeType ==
    ASSUME Typed, WsDecodeFrame
    PROVE  Typed'
<1>0. SkOK(sk) /\ Backend \in Sockets /\ Backend \notin Clients
  BY SocketTypes
<1>1. CASE WsIncomplete
  <2>1. cur \in Clients
    BY <1>1, SocketTypes DEF WsIncomplete, Typed
  <2> QED BY <1>0, <1>1, <2>1, WsReturnType DEF WsIncomplete
<1>2. CASE WsBad
  BY <1>0, <1>2, WsDecodeCur, WsReturnType DEF WsBad
<1>3. CASE PP2Encode
  <2> DEFINE r == [sk[cur] EXCEPT !.recvbuf = Tail(sk[cur].recvbuf)]
             b == [sk[Backend] EXCEPT !.sendbuf = Append(sk[Backend].sendbuf, cur)]
  <2>1. /\ cur \in Clients /\ cur \in Sockets /\ cur # Backend
        /\ sk[cur] \in Sk /\ Tail(sk[cur].recvbuf) \in Seq(RecvToks)
    BY <1>0, <1>3, WsDecodeCur DEF PP2Encode
  <2>2. SkOK([sk EXCEPT ![cur] = r])
    BY <1>0, <2>1, RecvbufSet, ClientUpdate
  <2>3. Append(sk[Backend].sendbuf, cur) \in Seq(Clients)
    BY <1>0, <2>1, AppendProperties DEF SkOK
  <2>4. Append(sk[Backend].sendbuf, cur) \in Seq(SentToks)
    BY <1>0, <2>1, AppendProperties, Constants DEF SkOK, Sk
  <2>5. b \in Sk /\ b.proto = sk[Backend].proto /\ b.sendbuf \in Seq(Clients)
    BY <1>0, <2>3, <2>4, SendbufSet DEF SkOK, SameBut
  <2>6. Decoded([[sk EXCEPT ![cur] = r] EXCEPT ![Backend] = b])
    BY <1>3, <2>1 DEF PP2Encode
  <2> HIDE DEF r, b
  <2>7. SkOK([[sk EXCEPT ![cur] = r] EXCEPT ![Backend] = b])
    BY <1>0, <2>2, <2>5, SkUpdate DEF SkOK
  <2> QED BY <2>6, <2>7, DecodedType
<1>4. CASE PP2EncodeAgain
  <2>1. /\ cur \in Clients /\ sk[cur] \in Sk /\ Tail(sk[cur].recvbuf) \in Seq(RecvToks)
    BY <1>4, WsDecodeCur DEF PP2EncodeAgain
  <2>2. PICK rest \in {<<"raw">>, <<>>} :
           WsReturn([sk EXCEPT ![cur].recvbuf = rest \o Tail(@)], "EAGAIN")
    BY <1>4 DEF PP2EncodeAgain
  <2> DEFINE b == rest \o Tail(sk[cur].recvbuf)
  <2>3. b \in Seq(RecvToks)
    BY <2>1, Constants, ConcatProperties
  <2>4. WsReturn([sk EXCEPT ![cur] = [sk[cur] EXCEPT !.recvbuf = b]], "EAGAIN")
    BY <2>2
  <2> HIDE DEF b
  <2>5. SkOK([sk EXCEPT ![cur] = [sk[cur] EXCEPT !.recvbuf = b]])
    BY <1>0, <2>1, <2>3, RecvbufSet, ClientUpdate
  <2> QED BY <2>1, <2>4, <2>5, WsReturnType
<1>5. CASE FinishClosingHandshake
  <2> DEFINE r == [sk[cur] EXCEPT !.recvbuf = <<>>,
                                  !.flags = (@ \ {"closing"}) \cup {"close"}]
  <2>1. cur \in Clients /\ cur \in Sockets /\ sk[cur] \in Sk
    BY <1>5, WsDecodeCur DEF FinishClosingHandshake
  <2>2. SameBut(r, sk[cur], {"recvbuf", "flags"})
    BY <2>1, Constants DEF SameBut, Sk, Flags
  <2>3. Decoded([sk EXCEPT ![cur] = r])
    BY <1>0, <1>5, <2>1 DEF FinishClosingHandshake, SkOK
  <2> HIDE DEF r
  <2> QED BY <1>0, <2>1, <2>2, <2>3, ClientUpdate, DecodedType
<1>6. CASE WsClose
  <2>1. cur \in Clients /\ sk[cur] \in Sk
    BY <1>6, WsDecodeCur DEF WsClose
  <2>2. SkOK([sk EXCEPT ![cur] = ReplyClose(sk[cur])])
    BY <1>0, <2>1, Replied, ClientUpdate
  <2>3. SkOK([sk EXCEPT ![cur] = [sk[cur] EXCEPT !.recvbuf = <<>>]])
    BY <1>0, <2>1, Constants, RecvbufSet, ClientUpdate
  <2>4. CASE Decoded([sk EXCEPT ![cur] = ReplyClose(sk[cur])])
    BY <2>2, <2>4, DecodedType
  <2>5. CASE WsReturn([sk EXCEPT ![cur] = [sk[cur] EXCEPT !.recvbuf = <<>>]], "fatal")
    BY <2>1, <2>3, <2>5, WsReturnType
  <2> QED BY <1>6, <2>4, <2>5 DEF WsClose
<1>7. ASSUME NEW t \in WsToks, WsPing(t) \/ WsPong(t) \/ WsUnknown(t)
      PROVE  Typed'
  <2> DEFINE r == Consume(sk[cur], t)
  <2>1. cur \in Clients /\ sk[cur] \in Sk /\ sk[cur].recvbuf # <<>>
    BY <1>7, WsDecodeCur DEF WsPing, WsPong, WsUnknown
  <2>2. SameBut(r, sk[cur], {"recvbuf"}) /\ r \in Sk
    BY <2>1, Consumed DEF SameBut
  <2> HIDE DEF r
  <2>3. SkOK([sk EXCEPT ![cur] = r])
    BY <1>0, <2>1, <2>2, ClientUpdate
  <2>4. SameBut(Queue(r, "pong"), r, {"events", "sendbuf"})
    BY <2>2, Queued, Constants
  <2>5. SkOK([sk EXCEPT ![cur] = ws_pong(r)])
    <3>1. SameBut(Queue(r, "pong"), sk[cur], {"events", "sendbuf", "recvbuf"})
      BY <2>2, <2>4 DEF SameBut
    <3> QED BY <1>0, <2>1, <3>1, ClientUpdate DEF ws_pong
  <2>6. SkOK([sk EXCEPT ![cur] = ws_start_closing_handshake(r)])
    <3>1. SameBut(ws_start_closing_handshake(r), r, {"events", "flags", "sendbuf"})
      BY <2>2, ClosingStarted
    <3>2. SameBut(ws_start_closing_handshake(r), sk[cur],
                  {"events", "flags", "sendbuf", "recvbuf"})
      BY <2>2, <3>1 DEF SameBut
    <3> QED BY <1>0, <2>1, <3>2, ClientUpdate
  <2>7. \/ Exit /\ UNCHANGED <<todo, cur, frames, num, known>>
        \/ Decoded([sk EXCEPT ![cur] = ws_pong(r)])
        \/ Decoded([sk EXCEPT ![cur] = ws_start_closing_handshake(r)])
        \/ Decoded([sk EXCEPT ![cur] = r])
        \/ WsReturn([sk EXCEPT ![cur] = r], "fatal")
    BY <1>7 DEF WsPing, WsPong, WsUnknown, r
  <2> QED BY <2>1, <2>3, <2>5, <2>6, <2>7, ExitType, DecodedType, WsReturnType
<1> QED BY <1>1, <1>2, <1>3, <1>4, <1>5, <1>6, <1>7 DEF WsDecodeFrame

\* pp2_recv and pp2_decode_frame keep the types, whatever the message.
LEMMA PP2Type ==
    ASSUME Typed, PP2DecodeFrame \/ PP2RecvStart
    PROVE  Typed'
<1>0. /\ SkOK(sk) /\ Backend \in Sockets /\ Backend \notin Clients
      /\ sk[Backend] \in Sk /\ sk[Backend].proto \in {"free", "pp2"}
      /\ sk[Backend].sendbuf \in Seq(Clients)
      /\ num \in 0 .. FhostnameNum - 1
  BY SocketTypes DEF SkOK
<1>1. CASE PP2RecvStart
  <2>1. "decode" \in PCs
    BY DEF PCs
  <2> QED BY <1>0, <1>1, <2>1, TypedParts, TypedPartsNext
             DEF PP2RecvStart, StartDecoding, RestOK, ListsOK, SkOK
<1>2. CASE PP2Incomplete \/ PP2Again \/ PP2Garbled
  BY <1>0, <1>2, TryRecvReturnType DEF PP2Incomplete, PP2Again, PP2Garbled, PP2Return
<1>3. ASSUME NEW d \in Clients, PP2Drop(d) \/ PP2Forward(d)
      PROVE  Typed'
  <2> DEFINE rest == Tail(sk[Backend].recvbuf)
             b == [sk[Backend] EXCEPT !.recvbuf = rest]
             g == [sk[Backend] EXCEPT !.recvbuf = <<"raw">> \o rest]
             r == ws_encode_frame(sk[d], sk[Backend])
  <2>1. rest \in Seq(RecvToks)
    <3>1. sk[Backend].recvbuf # <<>>
      BY <1>3 DEF PP2Drop, PP2Forward, PP2Message
    <3> QED BY <1>0, <3>1, HeadTailProperties DEF Sk
  <2>2. <<"raw">> \o rest \in Seq(RecvToks)
    BY <2>1, Constants, ConcatProperties
  <2>3. \/ Undefined /\ UNCHANGED <<todo, cur, frames, num, known>>
        \/ Decoded([sk EXCEPT ![Backend] = b])
        \/ Decoded([[sk EXCEPT ![Backend] = b] EXCEPT ![d] = r])
        \/ PP2Return([sk EXCEPT ![Backend] = g], "EAGAIN")
    <3>1. d # Backend /\ d \in Sockets
      BY <1>0, SocketTypes
    <3> QED BY <1>0, <1>3, <3>1 DEF PP2Drop, PP2Forward, SkOK
  <2> HIDE DEF rest
  <2>4. SameBut(b, sk[Backend], {"recvbuf"}) /\ SameBut(g, sk[Backend], {"recvbuf"})
    BY <1>0, <2>1, <2>2, RecvbufSet
  <2>5. d \in Sockets /\ sk[d] \in Sk
    BY SocketTypes
  <2>6. SameBut(r, sk[d], {"events", "sendbuf"})
    <3>1. SameBut(Queue(sk[d], "data"), sk[d], {"events", "sendbuf"})
      BY <2>5, Queued, Constants
    <3>2. SameBut(turn_on_events(Queue(sk[d], "data"), {"IN"}), Queue(sk[d], "data"),
                  {"events"})
      BY <3>1, TurnOn, Constants DEF SameBut
    <3> QED BY <3>1, <3>2 DEF SameBut, ws_encode_frame
  <2> HIDE DEF b, g, r
  <2>7. SkOK([sk EXCEPT ![Backend] = b]) /\ SkOK([sk EXCEPT ![Backend] = g])
    BY <1>0, <2>4, SkUpdate DEF SameBut
  <2>8. SkOK([[sk EXCEPT ![Backend] = b] EXCEPT ![d] = r])
    <3>1. [sk EXCEPT ![Backend] = b][d] = sk[d]
      BY <1>0, <2>5 DEF SkOK
    <3> QED BY <2>6, <2>7, <3>1, ClientUpdate
  <2> QED BY <1>0, <2>3, <2>7, <2>8, ExitType, DecodedType, TryRecvReturnType
             DEF PP2Return
<1> QED BY <1>1, <1>2, <1>3 DEF PP2DecodeFrame

\* A handler of one socket: it ends in Close or in Keep.
LEMMA HandlerType ==
    ASSUME Typed, NEW s \in Sockets, NEW next \in PCs \ {"decode"},
           NEW skv, SkOK(skv),
           Close(sk, s, work_list, next) \/ Keep(skv, work_list, next),
           todo' \subseteq todo, UNCHANGED <<cur, frames>>,
           num' \in 0 .. FhostnameNum - 1, known' \subseteq Clients
    PROVE  Typed'
<1>1. SkOK(sk) /\ ListsOK(work_list, net, peer) /\ "ub" \in PCs
  BY TypedParts DEF PCs, Halted
<1>2. SkOK(sk') /\ ListsOK(work_list', net', peer') /\ pc' \in {"ub", next}
  BY <1>1, CloseType, KeepType
<1>3. RestOK'
  BY TypedParts DEF RestOK
<1> QED BY <1>1, <1>2, <1>3, TypedPartsNext

\* check_timeouts and the end of wschild_main keep the types.
LEMMA TimeoutsType ==
    ASSUME Typed, NEW s \in Sockets, Timeouts(s) \/ Shutdown(s)
    PROVE  Typed'
<1>0. /\ SkOK(sk) /\ sk[s] \in Sk /\ num \in 0 .. FhostnameNum - 1
      /\ {"check_timeouts", "shutdown", "ub"} \subseteq PCs \ {"decode"}
      /\ known \subseteq Clients
  BY SocketTypes, TypedParts DEF PCs, Halted, RestOK
<1>1. /\ todo' \subseteq todo /\ UNCHANGED <<cur, frames>>
      /\ num' \in 0 .. FhostnameNum - 1 /\ known' \subseteq Clients
  BY <1>0 DEF Timeouts, IdleTimedOut, ClosingTimedOut, Ping, NoTimeout, Shutdown,
              CheckTimeouts, Visited
<1>2. CASE IdleTimedOut(s)
  <2> DEFINE q == ws_start_closing_handshake(sk[s])
             r == Flag(q, {"ts_closing_handshake_start"})
  <2>1. CASE sk[s].proto = "ws" /\ Fits(sk[s])
    <3>1. SameBut(q, sk[s], {"events", "flags", "sendbuf"})
      BY <1>0, ClosingStarted
    <3>2. Keep([sk EXCEPT ![s] = r], work_list, "check_timeouts")
      BY <1>2, <2>1 DEF IdleTimedOut
    <3> HIDE DEF q
    <3>3. SameBut(r, q, {"flags"})
      BY <3>1, FlagSet, Constants DEF SameBut
    <3>4. SameBut(r, sk[s], {"events", "flags", "sendbuf"})
      BY <3>1, <3>3 DEF SameBut
    <3>5. s \in Clients
      BY <2>1, SocketTypes
    <3> HIDE DEF r
    <3>6. SkOK([sk EXCEPT ![s] = r])
      BY <1>0, <3>4, <3>5, ClientUpdate
    <3> QED BY <1>0, <1>1, <3>2, <3>6, HandlerType
  <2>2. CASE ~(sk[s].proto = "ws" /\ Fits(sk[s]))
    BY <1>0, <1>1, <1>2, <2>2, HandlerType DEF IdleTimedOut
  <2> QED BY <2>1, <2>2
<1>3. CASE ClosingTimedOut(s) \/ NoTimeout(s) \/ Shutdown(s)
  BY <1>0, <1>1, <1>3, HandlerType DEF ClosingTimedOut, NoTimeout, Shutdown
<1>4. CASE Ping(s)
  <2>1. CASE s # Backend /\ Fits(sk[s]) /\ sk[s].proto # "http"
    <3>1. s \in Clients
      BY <2>1 DEF Sockets
    <3>2. SkOK([sk EXCEPT ![s] = ws_ping(sk[s])])
      BY <1>0, <3>1, Queued, Constants, ClientUpdate DEF ws_ping
    <3>3. Keep([sk EXCEPT ![s] = ws_ping(sk[s])], work_list, "check_timeouts")
      BY <1>4, <2>1 DEF Ping
    <3> QED BY <1>0, <1>1, <3>2, <3>3, HandlerType
  <2>2. CASE ~(s # Backend /\ Fits(sk[s]) /\ sk[s].proto # "http")
    <3>1. \E next \in {"check_timeouts", "ub"} : Keep(sk, work_list, next)
      BY <1>4, <2>2 DEF Ping, Undefined
    <3> QED BY <1>0, <1>1, <3>1, HandlerType
  <2> QED BY <2>1, <2>2
<1> QED BY <1>2, <1>3, <1>4 DEF Timeouts

\* A prefix and a suffix of a sequence are sequences of the same elements.
LEMMA Segments ==
    ASSUME NEW T, NEW q \in Seq(T), NEW k \in 0 .. Len(q)
    PROVE  SubSeq(q, 1, k) \in Seq(T) /\ SubSeq(q, k + 1, Len(q)) \in Seq(T)
<1>1. /\ Len(q) \in Nat /\ k \in Nat /\ k <= Len(q)
      /\ \A i \in 1 .. Len(q) : q[i] \in T
  BY LenProperties, ElementOfSeq
<1> QED BY <1>1, SubSeqProperties

\* on_read keeps the types: the retry counter stays within its range.
LEMMA OnReadType ==
    ASSUME Typed, NEW s \in Sockets, OnReadFull(s) \/ OnReadData(s) \/ OnReadEnd(s)
    PROVE  Typed'
<1>0. /\ SkOK(sk) /\ sk[s] \in Sk /\ ListsOK(work_list, net, peer) /\ RestOK
      /\ {"events", "exit", "ub"} \subseteq PCs \ {"decode"}
  BY SocketTypes, TypedParts DEF PCs, Halted
<1>1. todo' \subseteq todo /\ UNCHANGED <<cur, frames>> /\ known' = known /\ pc = "events"
  BY DEF OnReadFull, OnReadData, OnReadEnd, OnRead, OnEvent
<1>2. ASSUME NEW r \in Sk, r.proto = sk[s].proto, r.sendbuf = sk[s].sendbuf
      PROVE  SkOK([sk EXCEPT ![s] = ts_last_io_set(r)])
  <2>1. SameBut(ts_last_io_set(r), r, {"flags"})
    BY <1>2, FlagSet, Constants DEF ts_last_io_set
  <2> QED BY <1>0, <1>2, <2>1, SkUpdate DEF SkOK, SameBut
<1>3. ASSUME NEW r \in Sk, r.proto = sk[s].proto, r.sendbuf = sk[s].sendbuf,
             post_read(r, s), net' \in [Sockets -> Seq(RecvToks)], num' = num
      PROVE  Typed'
  <2>1. SkOK(sk')
    BY <1>2, <1>3 DEF post_read
  <2>2. ListsOK(work_list', net', peer')
    BY <1>0, <1>3 DEF post_read, ListsOK
  <2>3. pc' \in PCs \ {"decode"}
    BY <1>0, <1>3 DEF post_read
  <2>4. RestOK'
    BY <1>0, <1>1, <1>3 DEF RestOK
  <2> QED BY <2>1, <2>2, <2>3, <2>4, TypedPartsNext
<1>4. CASE OnReadFull(s)
  <2>1. SameBut(turn_off_events(sk[s], {"IN"}), sk[s], {"events"})
    BY <1>0, TurnOff, Constants
  <2> QED BY <1>0, <1>3, <1>4, <2>1 DEF OnReadFull, SameBut, ListsOK
<1>5. CASE OnReadData(s)
  <2> DEFINE room == RecvCap - Len(sk[s].recvbuf)
             k == IF Len(net[s]) < room THEN Len(net[s]) ELSE room
  <2>1. /\ net[s] \in Seq(RecvToks) /\ sk[s].recvbuf \in Seq(RecvToks)
        /\ Len(sk[s].recvbuf) \in Nat /\ Len(net[s]) \in Nat /\ RecvCap \in Nat
    BY <1>0, LenProperties, CapsAssumption DEF ListsOK, Sk
  <2>2. k \in 0 .. Len(net[s])
    BY <1>5, <2>1 DEF OnReadData
  <2>3. /\ post_read(sk_read(sk[s], s, k), s) /\ num' = num
        /\ net' = [net EXCEPT ![s] = SubSeq(net[s], k + 1, Len(net[s]))]
    BY <1>5 DEF OnReadData
  <2> HIDE DEF k
  <2>4. /\ SubSeq(net[s], 1, k) \in Seq(RecvToks)
        /\ SubSeq(net[s], k + 1, Len(net[s])) \in Seq(RecvToks)
    BY <2>1, <2>2, Segments
  <2>5. Join(sk[s].recvbuf, SubSeq(net[s], 1, k)) \in Seq(RecvToks)
    BY <2>1, <2>4, JoinType
  <2>6. SameBut(sk_read(sk[s], s, k), sk[s], {"recvbuf"})
    BY <1>0, <2>5, RecvbufSet DEF sk_read
  <2>7. net' \in [Sockets -> Seq(RecvToks)]
    BY <1>0, <2>3, <2>4 DEF ListsOK
  <2> QED BY <1>3, <2>3, <2>6, <2>7 DEF SameBut
<1>6. CASE OnReadEnd(s)
  <2> DEFINE r == ts_last_io_set(sk[s])
             t == [r EXCEPT !.retries = r.retries + 1]
  <2>1. num' \in 0 .. FhostnameNum - 1
    BY <1>0, <1>6, HostType DEF OnReadEnd, RestOK
  <2>2. SameBut(r, sk[s], {"flags"})
    BY <1>0, FlagSet, Constants DEF ts_last_io_set
  <2>3. \/ Keep(sk, work_list, "exit")
        \/ Close(sk, s, work_list, "events")
        \/ /\ r.retries + 1 < FhostnameNum
           /\ sk' = [sk EXCEPT ![s] = t]
           /\ peer' = [peer EXCEPT ![s] = "fin"]
           /\ UNCHANGED <<work_list, pc, net>>
    BY <1>6 DEF OnReadEnd, Exit
  <2>4. CASE Keep(sk, work_list, "exit") \/ Close(sk, s, work_list, "events")
    <3>1. known' \subseteq Clients
      BY <1>0, <1>1 DEF RestOK
    <3> QED BY <1>0, <1>1, <2>1, <2>4, <3>1, HandlerType
  <2>5. CASE /\ r.retries + 1 < FhostnameNum
             /\ sk' = [sk EXCEPT ![s] = t]
             /\ peer' = [peer EXCEPT ![s] = "fin"]
             /\ UNCHANGED <<work_list, pc, net>>
    <3> HIDE DEF r
    <3>1. t \in Sk /\ t.proto = r.proto /\ t.sendbuf = r.sendbuf
      <4>1. r \in Sk /\ r.retries \in 0 .. FhostnameNum
        BY <2>2 DEF SameBut, Sk
      <4>2. r.retries + 1 \in 0 .. FhostnameNum
        BY <2>5, <4>1, CapsAssumption
      <4> QED BY <4>1, <4>2 DEF Sk
    <3> HIDE DEF t
    <3>2. SkOK(sk')
      BY <1>0, <2>2, <2>5, <3>1, SkUpdate DEF SkOK, SameBut
    <3>3. ListsOK(work_list', net', peer')
      BY <1>0, <2>5 DEF ListsOK, Peers
    <3>4. RestOK'
      BY <1>0, <1>1, <2>1 DEF RestOK
    <3> QED BY <1>0, <1>1, <2>5, <3>2, <3>3, <3>4, TypedPartsNext
  <2> QED BY <2>3, <2>4, <2>5
<1> QED BY <1>4, <1>5, <1>6

\* What on_write makes of a socket.
LEMMA WrittenType ==
    ASSUME NEW r \in Sk, NEW k \in 0 .. Len(r.sendbuf)
    PROVE  /\ SameBut(ts_last_io_set(sk_write(r, k)), r, {"events", "flags", "sendbuf"})
           /\ ts_last_io_set(sk_write(r, k)).flags = r.flags \cup {"ts_last_io"}
           /\ ts_last_io_set(sk_write(r, k)).events = sk_write(r, k).events
           /\ ts_last_io_set(sk_write(r, k)).sendbuf = sk_write(r, k).sendbuf
<1> DEFINE q == sk_write(r, k)
<1>1. SameBut(q, r, {"events", "sendbuf"})
  BY Sent
<1> HIDE DEF q
<1>2. /\ SameBut(Flag(q, {"ts_last_io"}), q, {"flags"})
      /\ Flag(q, {"ts_last_io"}).flags = q.flags \cup {"ts_last_io"}
  BY <1>1, FlagSet, Constants DEF SameBut
<1> QED BY <1>1, <1>2 DEF SameBut, ts_last_io_set, q

\* on_write and the handling of errors in on_epoll_event keep the types.
LEMMA OnWriteType ==
    ASSUME Typed, NEW s \in Sockets,
           OnWrite(s) \/ OnWriteFails(s) \/ OnHup(s) \/ NotWritable(s)
    PROVE  Typed'
<1>0. /\ SkOK(sk) /\ sk[s] \in Sk /\ RestOK
      /\ {"events", "exit"} \subseteq PCs \ {"decode"}
  BY SocketTypes, TypedParts DEF PCs, Halted
<1>1. /\ todo' \subseteq todo /\ UNCHANGED <<cur, frames>>
      /\ num' \in 0 .. FhostnameNum - 1
  BY <1>0 DEF OnWrite, OnWriteFails, OnHup, NotWritable, OnWritable, OnEvent, RestOK
<1>2. CASE OnWriteFails(s) \/ OnHup(s) \/ NotWritable(s)
  <2>1. known' \subseteq Clients
    BY <1>0, <1>2 DEF OnWriteFails, OnHup, NotWritable, RestOK
  <2>2. \/ Close(sk, s, work_list, "events")
        \/ Keep(sk, work_list, "events")
        \/ Keep(sk, work_list, "exit")
    BY <1>2 DEF OnWriteFails, OnHup, NotWritable, Exit
  <2> QED BY <1>0, <1>1, <2>1, <2>2, HandlerType
<1>3. CASE OnWrite(s)
  <2>1. PICK k \in 0 .. Len(sk[s].sendbuf) :
          /\ Written(s, k)
          /\ known' = IF s = Backend
                      THEN known \cup {sk[s].sendbuf[i] : i \in 1 .. k} ELSE known
    BY <1>3 DEF OnWrite
  <2> DEFINE r == ts_last_io_set(sk_write(sk[s], k))
  <2>2. known' \subseteq Clients
    <3>1. CASE s = Backend
      <4>1. sk[s].sendbuf \in Seq(Clients) /\ Len(sk[s].sendbuf) \in Nat
        BY <1>0, <3>1, LenProperties DEF SkOK
      <4>2. \A i \in 1 .. k : sk[s].sendbuf[i] \in Clients
        BY <2>1, <4>1, ElementOfSeq
      <4> QED BY <1>0, <2>1, <4>2 DEF RestOK
    <3> QED BY <1>0, <2>1, <3>1 DEF RestOK
  <2>3. SkOK([sk EXCEPT ![s] = r])
    <3>1. SameBut(r, sk[s], {"events", "flags", "sendbuf"})
      BY <1>0, <2>1, WrittenType
    <3>2. s = Backend => r.sendbuf \in Seq(Clients)
      BY <1>0, <2>1, WrittenType, Sent DEF SkOK
    <3> HIDE DEF r
    <3> QED BY <1>0, <3>1, <3>2, SkUpdate DEF SkOK, SameBut
  <2>4. \/ Close(sk, s, work_list, "events")
        \/ Keep([sk EXCEPT ![s] = r], work_list, "events")
    BY <2>1 DEF Written
  <2> HIDE DEF r
  <2> QED BY <1>0, <1>1, <2>2, <2>3, <2>4, HandlerType
<1> QED BY <1>2, <1>3

\* sk_accept keeps the types.
LEMMA AcceptType ==
    ASSUME Typed, NEW c \in Clients, sk_accept(c)
    PROVE  Typed'
<1>0. SkOK(sk) /\ ListsOK(work_list, net, peer) /\ RestOK /\ "exit" \in PCs
      /\ c \in Sockets /\ pc \in PCs
  BY TypedParts, SocketTypes DEF PCs, Halted
<1>1. RestOK' /\ pc = "events"
  BY <1>0 DEF sk_accept, Visited, RestOK
<1>2. CASE Exit
  BY <1>0, <1>1, <1>2, TypedPartsNext DEF Exit, Keep, SkOK, ListsOK
<1>3. CASE /\ sk' = [sk EXCEPT ![c] = SkInit("http")]
           /\ peer' = [peer EXCEPT ![c] = "up"]
           /\ UNCHANGED <<work_list, pc, net>>
  <2>1. SkOK(sk')
    BY <1>0, <1>3, NewSk, SkUpdate, SocketsAssumption DEF SkInit
  <2>2. ListsOK(work_list', net', peer')
    BY <1>0, <1>3 DEF ListsOK, Peers
  <2> QED BY <1>0, <1>1, <1>3, <2>1, <2>2, TypedPartsNext
<1> QED BY <1>2, <1>3 DEF sk_accept

\* The steps of event_loop between two handlers keep the types.
LEMMA LoopType ==
    ASSUME Typed, Loop
    PROVE  Typed'
<1>1. /\ UNCHANGED <<sk, work_list, cur, frames, num, net, peer, known>>
      /\ pc' \in PCs \ {"decode"}
      /\ todo' \subseteq Sockets \cup {Listener, Freed}
  <2>1. sk_list \subseteq Sockets /\ Ready \subseteq Sockets
    BY DEF sk_list, Ready
  <2> QED BY <2>1, TypedParts
             DEF Loop, Iterate, Sigterm, TryRecvDone, TimeoutsDone, EventsDone,
                 ShutdownDone, epoll_wait, Goto, PCs, Halted, ListsOK
<1> QED BY <1>1, TypedParts, TypedPartsNext DEF RestOK, SkOK, ListsOK

\* What clients, backend and kernel do keeps the types.
LEMMA EnvironmentType ==
    ASSUME Typed, pc = "epoll_wait", Environment
    PROVE  Typed'
<1>0. SkOK(sk) /\ ListsOK(work_list, net, peer) /\ RestOK
  BY TypedParts
<1>1. UNCHANGED <<daemon, known>>
  BY DEF Environment, Connect, ClientSend, BackendSend, PeerClose, BackendConnect, Arrive
<1>2. peer' \in [Sockets -> Peers]
  BY <1>0 DEF Environment, Connect, ClientSend, BackendSend, PeerClose, BackendConnect,
              Arrive, ListsOK, Peers, Sockets
<1>3. net' \in [Sockets -> Seq(RecvToks)]
  <2>1. ASSUME NEW s \in Sockets, NEW t \in RecvToks, Arrive(s, t)
        PROVE  net' \in [Sockets -> Seq(RecvToks)]
    <3>1. net[s] \in Seq(RecvToks) /\ <<t>> \in Seq(RecvToks)
      BY <1>0 DEF ListsOK
    <3>2. Join(net[s], <<t>>) \in Seq(RecvToks)
      BY <3>1, JoinType
    <3> QED BY <1>0, <2>1, <3>2 DEF Arrive, ListsOK
  <2>2. ASSUME NEW s \in Sockets, PeerClose(s)
        PROVE  net' \in [Sockets -> Seq(RecvToks)]
    <3>1. \A q \in {net[s], <<>>} : q \in Seq(RecvToks)
      BY <1>0, Constants DEF ListsOK
    <3> QED BY <1>0, <2>2, <3>1 DEF PeerClose, ListsOK
  <2>3. /\ ClientToks \subseteq RecvToks /\ known \cup BackendFrags \subseteq RecvToks
        /\ Clients \subseteq Sockets /\ Backend \in Sockets
    BY <1>0, InputsAssumption DEF RecvToks, RestOK, Sockets
  <2>4. CASE UNCHANGED net
    BY <1>0, <2>4 DEF ListsOK
  <2>5. \/ UNCHANGED net
        \/ \E s \in Sockets, t \in RecvToks : Arrive(s, t)
        \/ \E s \in Sockets : PeerClose(s)
    BY <2>3 DEF Environment, Connect, ClientSend, BackendSend, BackendConnect
  <2> QED BY <2>1, <2>2, <2>4, <2>5
<1> QED BY <1>0, <1>1, <1>2, <1>3, TypedParts, TypedPartsNext
        DEF daemon, RestOK, SkOK, ListsOK

\* The types are right when event_loop is entered.
LEMMA TypedInit == Init => Typed
<1> SUFFICES ASSUME Init PROVE Typed
  OBVIOUS
<1>1. SkOK(sk)
  BY NewSk, EmptySeq, SocketsAssumption DEF Init, SkOK, Sockets, SkDestroyed
<1>2. ListsOK(work_list, net, peer)
  BY Constants DEF Init, ListsOK, Peers
<1>3. RestOK /\ pc \in PCs /\ pc # "decode"
  <2>1. 0 \in 0 .. FhostnameNum - 1
    BY CapsAssumption
  <2>2. todo = {} /\ cur = NULL /\ frames = FALSE /\ num = 0 /\ known = {} /\ pc = "loop"
    BY DEF Init
  <2> QED BY <2>1, <2>2 DEF RestOK, PCs
<1> QED BY <1>1, <1>2, <1>3, TypedParts

\* Every step keeps the types.
LEMMA TypedNext == Typed /\ [Next]_vars => Typed'
<1> SUFFICES ASSUME Typed, [Next]_vars PROVE Typed'
  OBVIOUS
<1>1. CASE UNCHANGED vars
  BY <1>1 DEF vars, daemon, Typed, TypeOK
<1>2. CASE Gone
  BY <1>1, <1>2 DEF Gone
<1>3. CASE pc = "epoll_wait" /\ Environment
  BY <1>3, EnvironmentType
<1>4. CASE Loop
  BY <1>4, LoopType
<1>5. CASE PP2RecvStart \/ PP2DecodeFrame
  BY <1>5, PP2Type
<1>6. CASE WsDecodeFrame
  BY <1>6, WsDecodeType
<1>7. CASE \E c \in Clients : sk_accept(c)
  BY <1>7, AcceptType
<1>8. ASSUME NEW s \in Sockets, Recv(s) \/ TryRecvFreed
      PROVE  Typed'
  BY <1>8, HttpType, RecvType DEF Recv
<1>9. ASSUME NEW s \in Sockets, Timeouts(s) \/ Shutdown(s)
      PROVE  Typed'
  BY <1>9, TimeoutsType
<1>10. ASSUME NEW s \in Sockets, Event(s)
       PROVE  Typed'
  BY <1>10, OnReadType, OnWriteType DEF Event
<1>11. Backend \in Sockets
  BY DEF Sockets
<1> QED BY <1>1, <1>2, <1>3, <1>4, <1>5, <1>6, <1>7, <1>8, <1>9, <1>10, <1>11
        DEF Next, Daemon

\* Type correctness, for any clients, buffer sizes and inputs: a socket keeps to
\* its role (http_recv and ws_recv never run on pp2sk, pp2_recv on nothing else),
\* what is queued for the backend comes from a client, and next_host and the
\* retry counter of check_errno stay within the list of forwarding hosts.
THEOREM TypeCorrect == Spec => []TypeOK
<1>1. Typed => TypeOK
  BY DEF Typed
<1> QED BY <1>1, TypedInit, TypedNext, PTL DEF Spec

=============================================================================
