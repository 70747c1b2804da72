--------------------------- MODULE WschildSafety ---------------------------
(***************************************************************************)
(* The safety properties of the daemon, proved from one inductive          *)
(* invariant: what holds of every socket (SockInv) between any two steps,  *)
(* the frame loops of ws_recv and pp2_recv included.                       *)
(***************************************************************************)
EXTENDS WschildProofs

\* The socket is only waiting to be closed.
Waiting(r) == r.flags \cap {"close", "close_on_write"} # {}

\* ws_recv is going to announce what it has queued for the backend.
Lax(s) == \/ pc \in Halted
          \/ pc = "decode" /\ s = Backend /\ frames /\ cur # Backend

\* ws_recv is going to adjust the events of the socket it decodes.
Mine(s) == pc \in Halted \/ (pc = "decode" /\ s = cur)

\* Since the backend was last read from, pp2_recv has run on it.
Served == \/ pc \in {"try_recv", "decode"} /\ Backend \notin todo
          \/ pc \in {"check_timeouts", "epoll_wait"}
          \/ pc = "events" /\ Backend \in todo

\* What holds of the record r of the socket s; in says if s is in work_list.
\* The last conjunct is what keeps ws_encode_frame from watching a client that
\* waits to be closed for input: it does so only when the backend is not
\* watched, and then there is no message to encode.
SockInv(s, r, in, lax, mine, served) ==
    /\ r.proto = "free" => r = SkDestroyed
    /\ in => r.proto # "free"
    /\ Decodable(r) => in
    /\ r.sendbuf # <<>> => \/ "OUT" \in r.events
                           \/ lax
                           \/ mine /\ "close_on_write" \in r.flags
    /\ Waiting(r) => r.recvbuf = <<>> /\ ("IN" \notin r.events \/ mine)
    /\ s = Backend => ~Waiting(r)
    /\ s = Backend /\ ("IN" \notin r.events \/ served) => ~Decodable(r)

SocketsInv ==
    \A s \in Sockets :
        SockInv(s, sk[s], s \in work_list, Lax(s), Mine(s), Served)

\* Where the loop over the work_list is.
ControlInv ==
    /\ pc \in {"try_recv", "decode"} => todo \subseteq work_list
    /\ pc = "decode" => /\ cur \in todo /\ cur \in Sockets
                        /\ cur # Backend => /\ sk[cur].proto = "ws"
                                            /\ sk[Backend].proto # "free"

Inv == Typed /\ SocketsInv /\ ControlInv

-----------------------------------------------------------------------------
(* How control passes from one step to the next                            *)

\* A socket that has been closed.
LEMMA ClosedSound ==
    ASSUME NEW s, NEW lax, NEW mine, NEW served
    PROVE  SockInv(s, SkDestroyed, FALSE, lax, mine, served)
  BY DEF SockInv, SkDestroyed, Decodable, Waiting

\* What ops->close does: the socket is destroyed and off work_list, the others
\* stay where they are.
LEMMA CloseEffect ==
    ASSUME NEW skv, SkOK(skv), NEW s \in Sockets, NEW wl, NEW next,
           Close(skv, s, wl, next)
    PROVE  /\ sk'[s] = SkDestroyed
           /\ \A x \in Sockets \ {s} : sk'[x] = skv[x]
           /\ s \notin work_list'
           /\ \A x \in Sockets \ {s} : x \in work_list' <=> x \in wl
           /\ pc' \in {next, "ub"}
           /\ s \notin wl => work_list' = wl
<1>1. /\ sk' = [skv EXCEPT ![s] = SkDestroyed]
      /\ pc' \in {next, "ub"}
  BY DEF Close, pp2_close, sk_close
<1>2. Freed \notin Sockets
  BY SocketsAssumption
<1>3. \/ work_list' = wl \ {s}
      \/ /\ s = Backend
         /\ work_list' = IF s \in wl THEN (wl \ {s}) \cup {Freed} ELSE wl
  BY DEF Close, pp2_close, sk_close
<1> QED BY <1>1, <1>2, <1>3 DEF SkOK

\* A step on the socket s outside the recv functions.
LEMMA HandlerInv ==
    ASSUME Inv, Typed', NEW s \in Sockets,
           pc \in {"events", "check_timeouts", "shutdown"},
           pc' \in {pc} \cup Halted,
           todo' = todo \ {s},
           \A x \in Sockets \ {s} : /\ sk'[x] = sk[x]
                                    /\ x \in work_list' <=> x \in work_list,
           SockInv(s, sk'[s], s \in work_list', pc' \in Halted, pc' \in Halted,
                   pc' = "check_timeouts")
    PROVE  Inv'
<1>1. /\ {"events", "check_timeouts", "shutdown"} \cap Halted = {}
      /\ pc' \notin {"try_recv", "decode", "epoll_wait"}
      /\ pc \notin {"try_recv", "decode", "epoll_wait"}
  BY DEF Halted
<1>2. ControlInv'
  BY <1>1 DEF ControlInv
<1>3. ASSUME NEW x \in Sockets
      PROVE  SockInv(x, sk'[x], x \in work_list', Lax(x)', Mine(x)', Served')
  <2>1. /\ Lax(x)' <=> pc' \in Halted
        /\ Mine(x)' <=> pc' \in Halted
    BY <1>1 DEF Lax, Mine
  <2>2. CASE x = s
    <3>1. x = Backend => (Served' <=> pc' = "check_timeouts")
      BY <1>1, <2>2 DEF Served
    <3> QED BY <2>1, <2>2, <3>1 DEF SockInv
  <2>3. CASE x # s
    <3>1. SockInv(x, sk[x], x \in work_list, Lax(x), Mine(x), Served)
      BY DEF Inv, SocketsInv
    <3>2. x = Backend => (Served' => Served)
      BY <1>1, <2>3 DEF Served
    <3>3. ~Lax(x) /\ ~Mine(x)
      BY <1>1 DEF Lax, Mine
    <3> QED BY <2>1, <2>3, <3>1, <3>2, <3>3 DEF SockInv
  <2> QED BY <2>2, <2>3
<1> QED BY <1>2, <1>3 DEF Inv, SocketsInv

\* A handler that closes its socket keeps the invariant.
LEMMA HandlerCloseInv ==
    ASSUME Inv, Typed', NEW s \in Sockets,
           pc \in {"events", "check_timeouts", "shutdown"},
           todo' = todo \ {s}, Close(sk, s, work_list, pc)
    PROVE  Inv'
<1>1. SkOK(sk) /\ "ub" \in Halted
  BY SocketTypes DEF Inv, Halted
<1>2. /\ sk'[s] = SkDestroyed
      /\ \A x \in Sockets \ {s} : sk'[x] = sk[x]
      /\ s \notin work_list'
      /\ \A x \in Sockets \ {s} : x \in work_list' <=> x \in work_list
      /\ pc' \in {pc} \cup Halted
  BY <1>1, CloseEffect
<1>3. SockInv(s, SkDestroyed, s \in work_list', pc' \in Halted, pc' \in Halted,
              pc' = "check_timeouts")
  BY <1>2, ClosedSound DEF SockInv
<1> QED BY <1>2, <1>3, HandlerInv

\* A handler that leaves every list alone and s at r.
LEMMA HandlerKeepInv ==
    ASSUME Inv, Typed', NEW s \in Sockets, NEW r, NEW next \in {pc} \cup Halted,
           pc \in {"events", "check_timeouts", "shutdown"},
           todo' = todo \ {s}, Keep([sk EXCEPT ![s] = r], work_list, next),
           SockInv(s, r, s \in work_list, next \in Halted, next \in Halted,
                   next = "check_timeouts")
    PROVE  Inv'
<1>1. SkOK(sk)
  BY SocketTypes DEF Inv
<1>2. /\ sk'[s] = r /\ work_list' = work_list /\ pc' = next
      /\ \A x \in Sockets \ {s} : sk'[x] = sk[x]
  BY <1>1 DEF Keep, SkOK
<1> QED BY <1>2, HandlerInv

\* The process is gone, or its behaviour undefined.
LEMMA ExitInv ==
    ASSUME Inv, Typed', pc' \in Halted, UNCHANGED <<sk, work_list>>
    PROVE  Inv'
<1>1. pc' \notin {"try_recv", "decode", "check_timeouts", "epoll_wait", "events"}
  BY DEF Halted
<1>2. \A x \in Sockets : Lax(x)' /\ Mine(x)'
  BY DEF Lax, Mine
<1>3. ~Served'
  BY <1>1 DEF Served
<1>4. ASSUME NEW x \in Sockets
      PROVE  SockInv(x, sk'[x], x \in work_list', Lax(x)', Mine(x)', Served')
  <2>1. SockInv(x, sk[x], x \in work_list, Lax(x), Mine(x), Served)
    BY DEF Inv, SocketsInv
  <2> QED BY <1>2, <1>3, <2>1 DEF SockInv
<1> QED BY <1>1, <1>4 DEF Inv, SocketsInv, ControlInv

\* The result rv of recv on s suits the sockets as it leaves them: s may leave
\* work_list if nothing is left to decode.
Returnable(skv, s, rv) ==
    /\ \A x \in Sockets \ {s} :
          SockInv(x, skv[x], x \in work_list, FALSE, FALSE, Backend \notin todo)
    /\ rv = "EAGAIN" => SockInv(s, skv[s], TRUE, FALSE, FALSE, TRUE)
    /\ rv \in {"ok", "EINPUT"} \/ (rv # "EAGAIN" /\ "close_on_write" \in skv[s].flags)
          => SockInv(s, skv[s], FALSE, FALSE, FALSE, TRUE)

\* try_recv takes the result of recv on s.
LEMMA TryRecvReturnInv ==
    ASSUME Inv, Typed', NEW skv, SkOK(skv), NEW s \in Sockets, NEW rv,
           pc \in {"try_recv", "decode"}, s \in todo,
           TryRecvReturn(skv, s, rv), Returnable(skv, s, rv)
    PROVE  Inv'
<1> USE DEF Returnable
<1>0. todo \subseteq work_list /\ s \in work_list
  BY DEF Inv, ControlInv
<1>1. /\ pc' \in {"try_recv", "ub"} /\ "ub" \in Halted /\ "try_recv" \notin Halted
      /\ \A x \in Sockets \ {s} : /\ sk'[x] = skv[x]
                                  /\ x \in work_list' <=> x \in work_list
      /\ SockInv(s, sk'[s], s \in work_list', FALSE, FALSE, TRUE)
      /\ todo \ {s} \subseteq work_list'
  <2>1. CASE rv \in {"ok", "EINPUT"} \/ (rv # "EAGAIN" /\ "close_on_write" \in skv[s].flags)
    <3>1. Keep(skv, work_list \ {s}, "try_recv")
      BY <2>1 DEF TryRecvReturn
    <3> QED BY <1>0, <2>1, <3>1 DEF Keep, Halted, SockInv
  <2>2. CASE rv = "EAGAIN"
    <3>1. Keep(skv, work_list, "try_recv")
      BY <2>2 DEF TryRecvReturn
    <3> QED BY <1>0, <2>2, <3>1 DEF Keep, Halted, SockInv
  <2>3. CASE rv \notin {"ok", "EINPUT", "EAGAIN"} /\ "close_on_write" \notin skv[s].flags
    <3>1. Close(skv, s, work_list \ {s}, "try_recv")
      BY <2>3 DEF TryRecvReturn
    <3>2. /\ sk'[s] = SkDestroyed
          /\ \A x \in Sockets \ {s} : sk'[x] = skv[x]
          /\ s \notin work_list'
          /\ \A x \in Sockets \ {s} : x \in work_list' <=> x \in work_list
          /\ pc' \in {"try_recv", "ub"}
          /\ work_list' = work_list \ {s}
      BY <3>1, CloseEffect
    <3>3. SockInv(s, SkDestroyed, s \in work_list', FALSE, FALSE, TRUE)
      BY <3>2, ClosedSound DEF SockInv
    <3> QED BY <1>0, <3>2, <3>3 DEF Halted
  <2> QED BY <2>1, <2>2, <2>3
<1>2. todo' = todo \ {s}
  BY DEF TryRecvReturn
<1>3. ControlInv'
  BY <1>1, <1>2 DEF ControlInv
<1>4. ASSUME NEW x \in Sockets
      PROVE  SockInv(x, sk'[x], x \in work_list', Lax(x)', Mine(x)', Served')
  <2>1. x = Backend /\ x # s => (Served' => Backend \notin todo)
    BY <1>1, <1>2 DEF Served
  <2> QED BY <1>1, <2>1 DEF SockInv
<1> QED BY <1>3, <1>4 DEF Inv, SocketsInv

\* The frame loop may go on with the sockets at skv.
Decodes(skv) ==
    /\ \A x \in Sockets :
          SockInv(x, skv[x], x \in work_list,
                  x = Backend /\ cur # Backend, x = cur, Backend \notin todo)
    /\ skv[cur].proto = sk[cur].proto
    /\ skv[Backend].proto = sk[Backend].proto

\* decode_frame has succeeded.
LEMMA DecodedInv ==
    ASSUME Inv, Typed', NEW skv, pc = "decode", Decoded(skv), Decodes(skv)
    PROVE  Inv'
<1> USE DEF Decodes
<1>1. sk' = skv /\ frames' = TRUE /\ UNCHANGED <<work_list, pc, todo, cur>>
  BY DEF Decoded
<1>2. pc \notin Halted
  BY DEF Halted
<1>3. ControlInv'
  BY <1>1 DEF Inv, ControlInv
<1>4. ASSUME NEW x \in Sockets
      PROVE  SockInv(x, sk'[x], x \in work_list', Lax(x)', Mine(x)', Served')
  <2>1. /\ Lax(x)' <=> x = Backend /\ cur # Backend
        /\ Mine(x)' <=> x = cur
        /\ Served' <=> Backend \notin todo
    BY <1>1, <1>2 DEF Lax, Mine, Served
  <2> QED BY <1>1, <2>1 DEF SockInv
<1> QED BY <1>3, <1>4 DEF Inv, SocketsInv

-----------------------------------------------------------------------------
(* The actions                                                             *)

\* What the invariant says of a socket in the walk over the work_list.
LEMMA SockFacts ==
    ASSUME Inv, NEW x \in Sockets
    PROVE  /\ SockInv(x, sk[x], x \in work_list, Lax(x), Mine(x), Served)
           /\ sk[x] \in Sk
           /\ pc = "try_recv" => /\ ~Lax(x) /\ ~Mine(x) /\ todo \subseteq work_list
                                 /\ Served <=> Backend \notin todo
           /\ pc = "decode" => /\ Lax(x) <=> x = Backend /\ frames /\ cur # Backend
                               /\ Mine(x) <=> x = cur
                               /\ todo \subseteq work_list
                               /\ Served <=> Backend \notin todo
           /\ pc \in {"events", "check_timeouts"} => ~Lax(x) /\ ~Mine(x)
  BY SocketTypes DEF Inv, SocketsInv, ControlInv, Lax, Mine, Served, Halted

\* A record with an empty recvbuf has nothing to decode.
LEMMA NothingDecodable ==
    ASSUME NEW r, r.recvbuf = <<>> \/ Head(r.recvbuf) \in Partial \cup {"raw"}
    PROVE  ~Decodable(r)
  BY DEF Decodable

\* A step of http_recv keeps the invariant.
LEMMA HttpInv ==
    ASSUME Inv, Typed', NEW s \in Sockets,
           HttpIncomplete(s) \/ HttpUpgrade(s) \/ HttpReject(s) \/ HttpGarbled(s)
    PROVE  Inv'
<1>0. /\ s \in Clients /\ s # Backend /\ SkOK(sk) /\ sk[s] \in Sk /\ s \in todo
      /\ pc = "try_recv" /\ sk[s].proto = "http" /\ sk[s].recvbuf # <<>>
  BY SocketTypes DEF HttpRecv, TryRecv, Inv,
                     HttpIncomplete, HttpUpgrade, HttpReject, HttpGarbled
<1>1. \A x \in Sockets \ {s} :
         SockInv(x, sk[x], x \in work_list, FALSE, FALSE, Backend \notin todo)
  BY <1>0, SockFacts DEF SockInv
<1>2. SockInv(s, sk[s], TRUE, FALSE, FALSE, FALSE) /\ ~Waiting(sk[s])
  BY <1>0, SockFacts DEF SockInv
<1>3. ASSUME NEW r, SameBut(r, sk[s], {"proto", "events", "flags", "sendbuf", "recvbuf"}),
             r.proto \in {"http", "ws"}, NEW rv \in {"ok", "EINPUT", "fatal"},
             ~Decodable(r), SkOK([sk EXCEPT ![s] = r]),
             r.sendbuf # <<>> => "OUT" \in r.events,
             Waiting(r) => r.recvbuf = <<>> /\ "IN" \notin r.events,
             TryRecvReturn([sk EXCEPT ![s] = r], s, rv)
      PROVE  Inv'
  <2> DEFINE skv == [sk EXCEPT ![s] = r]
  <2>1. skv[s] = r /\ \A x \in Sockets \ {s} : skv[x] = sk[x]
    BY <1>0 DEF SkOK
  <2>2. SockInv(s, skv[s], FALSE, FALSE, FALSE, TRUE)
    BY <1>0, <1>3, <2>1 DEF SockInv
  <2>3. \A x \in Sockets \ {s} :
         SockInv(x, skv[x], x \in work_list, FALSE, FALSE, Backend \notin todo)
    BY <1>1, <2>1
  <2> HIDE DEF skv
  <2>4. SkOK(skv) /\ TryRecvReturn(skv, s, rv)
    BY <1>3 DEF skv
  <2>5. Returnable(skv, s, rv)
    BY <1>3, <2>2, <2>3 DEF Returnable
  <2> QED BY <1>0, <2>4, <2>5, TryRecvReturnInv
<1>4. CASE HttpIncomplete(s)
  <2>1. ~Decodable(sk[s])
    BY <1>4, NothingDecodable DEF HttpIncomplete, Partial
  <2>2. [sk EXCEPT ![s] = sk[s]] = sk
    BY <1>0 DEF SkOK
  <2>3. SameBut(sk[s], sk[s], {"proto", "events", "flags", "sendbuf", "recvbuf"})
    BY <1>0 DEF SameBut
  <2>4. TryRecvReturn([sk EXCEPT ![s] = sk[s]], s, "EINPUT") /\ SkOK([sk EXCEPT ![s] = sk[s]])
    BY <1>0, <1>4, <2>2 DEF HttpIncomplete
  <2>5. sk[s].sendbuf # <<>> => "OUT" \in sk[s].events
    BY <1>2 DEF SockInv
  <2> QED BY <1>0, <1>2, <1>3, <2>1, <2>3, <2>4, <2>5
<1>5. CASE HttpUpgrade(s)
  <2> DEFINE r == ws_decode_handshake(sk[s])
  <2>1. /\ SameBut(r, sk[s], {"proto", "events", "sendbuf", "recvbuf"})
        /\ r.proto = "ws" /\ r.recvbuf = <<>> /\ "OUT" \in r.events
    BY <1>0, Handshake
  <2>2. TryRecvReturn([sk EXCEPT ![s] = r], s, "ok")
    BY <1>5 DEF HttpUpgrade
  <2> HIDE DEF r
  <2>3. SkOK([sk EXCEPT ![s] = r])
    BY <1>0, <2>1, ClientUpdate
  <2>4. ~Decodable(r) /\ ~Waiting(r)
    BY <1>2, <2>1, NothingDecodable DEF SameBut, Waiting
  <2>5. SameBut(r, sk[s], {"proto", "events", "flags", "sendbuf", "recvbuf"})
    BY <2>1 DEF SameBut
  <2> QED BY <1>3, <2>1, <2>2, <2>3, <2>4, <2>5
<1>6. CASE HttpReject(s)
  <2> DEFINE r == BadRequest(sk[s])
  <2>1. /\ SameBut(r, sk[s], {"events", "flags", "sendbuf", "recvbuf"})
        /\ r.recvbuf = <<>> /\ "OUT" \in r.events /\ "IN" \notin r.events
    BY <1>0, Rejected
  <2>2. TryRecvReturn([sk EXCEPT ![s] = r], s, "fatal")
    BY <1>6 DEF HttpReject
  <2> HIDE DEF r
  <2>3. SkOK([sk EXCEPT ![s] = r])
    BY <1>0, <2>1, ClientUpdate
  <2>4. ~Decodable(r)
    BY <2>1, NothingDecodable
  <2>5. SameBut(r, sk[s], {"proto", "events", "flags", "sendbuf", "recvbuf"})
        /\ r.proto = "http"
    BY <1>0, <2>1 DEF SameBut
  <2> QED BY <1>3, <2>1, <2>2, <2>3, <2>4, <2>5
<1>7. CASE HttpGarbled(s)
  <2> DEFINE r == [sk[s] EXCEPT !.recvbuf = <<>>]
  <2>1. SameBut(r, sk[s], {"recvbuf"}) /\ r.recvbuf = <<>>
    BY <1>0, Constants, RecvbufSet
  <2>2. TryRecvReturn([sk EXCEPT ![s] = r], s, "fatal")
    BY <1>7 DEF HttpGarbled
  <2> HIDE DEF r
  <2>3. SkOK([sk EXCEPT ![s] = r])
    BY <1>0, <2>1, ClientUpdate
  <2>4. ~Decodable(r) /\ ~Waiting(r)
    BY <1>2, <2>1, NothingDecodable DEF SameBut, Waiting
  <2>5. SameBut(r, sk[s], {"proto", "events", "flags", "sendbuf", "recvbuf"})
        /\ r.proto = "http" /\ (r.sendbuf # <<>> => "OUT" \in r.events)
    BY <1>0, <1>2, <2>1 DEF SameBut, SockInv
  <2> QED BY <1>3, <2>1, <2>2, <2>3, <2>4, <2>5
<1> QED BY <1>4, <1>5, <1>6, <1>7

\* A recv function starts, and its frame loop, too.
LEMMA StartDecodingInv ==
    ASSUME Inv, Typed', NEW s \in Sockets, TryRecv(s), StartDecoding(s),
           \A x \in Sockets : sk'[x] = sk[x] \/ (x = Backend /\ sk'[x] = SkInit("pp2")),
           s # Backend => sk'[s].proto = "ws" /\ sk'[Backend].proto # "free"
    PROVE  Inv'
<1>0. /\ pc = "try_recv" /\ pc' = "decode" /\ cur' = s /\ frames' = FALSE
      /\ UNCHANGED <<todo, work_list>> /\ s \in todo
      /\ todo \subseteq work_list /\ "decode" \notin Halted
  BY SockFacts DEF TryRecv, StartDecoding, Halted
<1>1. ControlInv'
  BY <1>0 DEF ControlInv
<1>2. ASSUME NEW x \in Sockets
      PROVE  SockInv(x, sk'[x], x \in work_list', Lax(x)', Mine(x)', Served')
  <2>1. Served' <=> Backend \notin todo
    BY <1>0 DEF Served
  <2>2. CASE sk'[x] = sk[x]
    BY <1>0, <2>1, <2>2, SockFacts DEF SockInv
  <2>3. CASE x = Backend /\ sk'[x] = SkInit("pp2")
    BY <2>3 DEF SockInv, SkInit, Decodable, Waiting
  <2> QED BY <2>2, <2>3
<1> QED BY <1>1, <1>2 DEF Inv, SocketsInv

\* The beginning of ws_recv and pp2_recv, sk_open and a failed assertion there
\* keep the invariant.
LEMMA RecvInv ==
    ASSUME Inv, Typed', NEW s \in Sockets,
           \/ RecvNothing(s) \/ WsRecvStart(s) \/ SkOpen(s) \/ SkOpenFails(s)
           \/ TryRecvFreed \/ PP2RecvStart
    PROVE  Inv'
<1>0. SkOK(sk) /\ Backend \in Sockets /\ "ub" \in Halted /\ "exit" \in Halted
  BY SocketTypes DEF Inv, Halted
<1>1. CASE RecvNothing(s) \/ TryRecvFreed
  BY <1>0, <1>1, ExitInv DEF RecvNothing, TryRecvFreed, Exit, Undefined, Keep
<1>2. CASE WsRecvStart(s)
  BY <1>2, StartDecodingInv DEF WsRecvStart, WsRecv, Open
<1>3. CASE PP2RecvStart
  BY <1>0, <1>3, StartDecodingInv DEF PP2RecvStart
<1>4. CASE SkOpen(s)
  <2>1. sk' = [sk EXCEPT ![Backend] = SkInit("pp2")] /\ s # Backend /\ sk[s].proto = "ws"
    BY <1>4 DEF SkOpen, WsRecv, Open
  <2>2. /\ \A x \in Sockets : sk'[x] = sk[x] \/ (x = Backend /\ sk'[x] = SkInit("pp2"))
        /\ sk'[s].proto = "ws" /\ sk'[Backend].proto # "free"
    BY <1>0, <2>1 DEF SkOK, SkInit
  <2> QED BY <1>4, <2>2, StartDecodingInv DEF SkOpen, WsRecv
<1>5. CASE SkOpenFails(s)
  <2>1. /\ pc = "try_recv" /\ s \in todo /\ sk[s].recvbuf # <<>>
        /\ TryRecvReturn(sk, s, "fatal")
    BY <1>5 DEF SkOpenFails, WsRecv, TryRecv
  <2>2. \A x \in Sockets \ {s} :
         SockInv(x, sk[x], x \in work_list, FALSE, FALSE, Backend \notin todo)
    BY <2>1, SockFacts DEF SockInv
  <2>3. "close_on_write" \notin sk[s].flags
    BY <2>1, SockFacts DEF SockInv, Waiting
  <2>4. Returnable(sk, s, "fatal")
    BY <2>2, <2>3 DEF Returnable
  <2> QED BY <1>0, <2>1, <2>4, TryRecvReturnInv
<1> QED BY <1>1, <1>2, <1>3, <1>4, <1>5

\* ws_decode_frame has handled a frame: it leaves the client at r and may have
\* queued something for the backend, which is now at b.
LEMMA WsDecodedInv ==
    ASSUME Inv, Typed', pc = "decode", cur \in Clients, NEW r, NEW b,
           SameBut(r, sk[cur], {"events", "flags", "sendbuf", "recvbuf"}),
           SameBut(b, sk[Backend], {"sendbuf"}),
           r.sendbuf # <<>> => "OUT" \in r.events \/ "close_on_write" \in r.flags,
           Waiting(r) => r.recvbuf = <<>>,
           Decoded([sk EXCEPT ![cur] = r, ![Backend] = b])
    PROVE  Inv'
<1> DEFINE skv == [sk EXCEPT ![cur] = r, ![Backend] = b]
<1>0. /\ cur \in Sockets /\ Backend \in Sockets /\ cur # Backend /\ SkOK(sk)
      /\ cur \in work_list /\ sk[cur].proto = "ws" /\ sk[Backend].proto # "free"
  BY SocketTypes, SockFacts DEF Inv, ControlInv
<1>1. skv[cur] = r /\ skv[Backend] = b /\ \A x \in Sockets \ {cur, Backend} : skv[x] = sk[x]
  BY <1>0 DEF SkOK
<1>2. \A x \in Sockets :
         SockInv(x, sk[x], x \in work_list,
                 x = Backend /\ frames, x = cur, Backend \notin todo)
  BY <1>0, SockFacts DEF SockInv
<1>3. Decoded(skv)
  OBVIOUS
<1> HIDE DEF skv
<1>4. SockInv(cur, r, TRUE, FALSE, TRUE, Backend \notin todo)
  BY <1>0 DEF SockInv, SameBut
<1>5. SockInv(Backend, b, Backend \in work_list, TRUE, FALSE, Backend \notin todo)
  BY <1>0, <1>2 DEF SockInv, SameBut, Decodable, Waiting
<1>6. Decodes(skv)
  BY <1>0, <1>1, <1>2, <1>4, <1>5 DEF Decodes, SockInv, SameBut
<1> QED BY <1>3, <1>6, DecodedInv

\* ws_recv returns, having consumed some of the client's input: the end of it
\* announces the output for the backend and stops watching a client that waits.
LEMMA WsReturnInv ==
    ASSUME Inv, Typed', pc = "decode", cur \in Clients, NEW r,
           SameBut(r, sk[cur], {"recvbuf"}),
           NEW rv \in {"EINPUT", "EAGAIN", "fatal"},
           Waiting(r) => r.recvbuf = <<>>,
           rv = "EINPUT" => ~Decodable(r),
           rv = "fatal" => ~Waiting(r),
           WsReturn([sk EXCEPT ![cur] = r], rv)
    PROVE  Inv'
<1> DEFINE skv == [sk EXCEPT ![cur] = r]
           skw == WsRecvTail(skv)
<1>0. /\ cur \in Sockets /\ Backend \in Sockets /\ cur # Backend /\ SkOK(sk)
      /\ cur \in todo /\ cur \in work_list /\ sk[cur].proto = "ws"
      /\ sk[Backend].proto # "free"
  BY SocketTypes, SockFacts DEF Inv, ControlInv
<1>1. skv[cur] = r /\ \A x \in Sockets \ {cur} : skv[x] = sk[x]
  BY <1>0 DEF SkOK
<1>2. \A x \in Sockets :
         SockInv(x, sk[x], x \in work_list,
                 x = Backend /\ frames, x = cur, Backend \notin todo)
  BY <1>0, SockFacts DEF SockInv
<1>3. SkOK(skv)
  BY <1>0, ClientUpdate
<1>4. TryRecvReturn(skw, cur, rv)
  BY DEF WsReturn
<1> HIDE DEF skv
<1>5. /\ SkOK(skw)
      /\ \A x \in Sockets \ {cur, Backend} : skw[x] = skv[x]
      /\ SameBut(skw[Backend], skv[Backend], {"events"})
      /\ SameBut(skw[cur], skv[cur], {"events"})
      /\ skw[Backend].events =
           skv[Backend].events \cup
           (IF frames /\ skv[Backend].sendbuf # <<>> THEN {"OUT"} ELSE {})
      /\ skw[cur].events =
           (skv[cur].events \cup
            (IF "close_on_write" \in skv[cur].flags THEN {"OUT"} ELSE {}))
           \ (IF skv[cur].flags \cap {"close", "close_on_write"} # {}
              THEN {"IN"} ELSE {})
  BY <1>3, RecvTail
<1> HIDE DEF skw
<1>6. SockInv(Backend, skw[Backend], Backend \in work_list, FALSE, FALSE, Backend \notin todo)
  BY <1>0, <1>1, <1>2, <1>5 DEF SockInv, SameBut, Decodable, Waiting
<1>7. /\ skw[cur].proto = "ws" /\ skw[cur].recvbuf = r.recvbuf
      /\ skw[cur].flags = r.flags /\ skw[cur].sendbuf = sk[cur].sendbuf
      /\ r.flags = sk[cur].flags /\ r.events = sk[cur].events
      /\ Decodable(skw[cur]) <=> Decodable(r)
      /\ Waiting(skw[cur]) <=> Waiting(r)
  BY <1>0, <1>1, <1>5 DEF SameBut, Decodable, Waiting
<1>8. skw[cur].sendbuf # <<>> => "OUT" \in skw[cur].events
  BY <1>0, <1>1, <1>2, <1>5, <1>7 DEF SockInv
<1>9. Waiting(r) => "IN" \notin skw[cur].events
  BY <1>1, <1>5 DEF Waiting
<1>10. SockInv(cur, skw[cur], TRUE, FALSE, FALSE, TRUE)
  BY <1>0, <1>7, <1>8, <1>9 DEF SockInv
<1>11. ~Decodable(r) => SockInv(cur, skw[cur], FALSE, FALSE, FALSE, TRUE)
  BY <1>0, <1>7, <1>8, <1>9 DEF SockInv
<1>12. "close_on_write" \in skw[cur].flags => Waiting(r)
  BY <1>7 DEF Waiting
<1>13. Returnable(skw, cur, rv)
  <2>1. \A x \in Sockets \ {cur} :
           SockInv(x, skw[x], x \in work_list, FALSE, FALSE, Backend \notin todo)
    BY <1>1, <1>2, <1>5, <1>6 DEF SockInv
  <2> QED BY <1>10, <1>11, <1>12, <2>1 DEF Returnable
<1> QED BY <1>0, <1>4, <1>5, <1>13, TryRecvReturnInv

\* Every step of the frame loop of ws_recv keeps the invariant.
LEMMA WsDecodeInv ==
    ASSUME Inv, Typed', WsDecodeFrame
    PROVE  Inv'
<1>0. SkOK(sk) /\ Typed /\ Backend \in Sockets /\ Backend \notin Clients
      /\ sk[Backend] \in Sk /\ SameBut(sk[Backend], sk[Backend], {"sendbuf"})
  BY SocketTypes DEF Inv, SameBut
<1>1. ASSUME cur \in Clients
      PROVE  /\ cur \in Sockets /\ sk[cur] \in Sk
             /\ SameBut(sk[cur], sk[cur], {"recvbuf"}) /\ [sk EXCEPT ![cur] = sk[cur]] = sk
             /\ \A r : [sk EXCEPT ![cur] = r, ![Backend] = sk[Backend]]
                       = [sk EXCEPT ![cur] = r]
  BY <1>0, <1>1, SocketTypes DEF SameBut, SkOK
<1>2. ASSUME NEW t, WsDecode(t)
      PROVE  /\ pc = "decode" /\ cur \in Clients /\ sk[cur].recvbuf # <<>>
             /\ ~Waiting(sk[cur])
             /\ Head(sk[cur].recvbuf) \in {t, "raw"}
             /\ sk[cur].sendbuf # <<>> => "OUT" \in sk[cur].events
             /\ Tail(sk[cur].recvbuf) \in Seq(RecvToks)
  <2>1. pc = "decode" /\ cur \in Clients /\ sk[cur].recvbuf # <<>>
        /\ Tail(sk[cur].recvbuf) \in Seq(RecvToks)
    BY <1>0, <1>2, WsDecodeCur
  <2>2. ~Waiting(sk[cur])
    BY <1>1, <2>1, SockFacts DEF SockInv
  <2>3. sk[cur].sendbuf # <<>> => "OUT" \in sk[cur].events
    BY <1>0, <1>1, <2>1, <2>2, SockFacts DEF SockInv, Waiting
  <2> QED BY <1>2, <2>1, <2>2, <2>3 DEF WsDecode
<1>3. CASE WsIncomplete
  <2>1. pc = "decode" /\ cur \in Clients /\ WsReturn(sk, "EINPUT")
    BY <1>0, <1>3, SocketTypes DEF WsIncomplete, Typed
  <2>2. ~Decodable(sk[cur])
    <3>1. sk[cur].recvbuf = <<>> \/ Head(sk[cur].recvbuf) \in {"frag", "raw"}
      BY <1>2, <1>3 DEF WsIncomplete
    <3> QED BY <3>1, NothingDecodable DEF Partial
  <2>3. Waiting(sk[cur]) => sk[cur].recvbuf = <<>>
    BY <1>1, <2>1, SockFacts DEF SockInv
  <2>4. WsReturn([sk EXCEPT ![cur] = sk[cur]], "EINPUT")
    BY <1>1, <2>1
  <2> QED BY <1>1, <2>1, <2>2, <2>3, <2>4, WsReturnInv
<1>4. CASE WsBad
  <2>1. pc = "decode" /\ cur \in Clients /\ ~Waiting(sk[cur]) /\ WsReturn(sk, "fatal")
    BY <1>2, <1>4 DEF WsBad
  <2>2. WsReturn([sk EXCEPT ![cur] = sk[cur]], "fatal")
    BY <1>1, <2>1
  <2> QED BY <1>1, <2>1, <2>2, WsReturnInv
<1>5. CASE PP2Encode
  <2> DEFINE r == [sk[cur] EXCEPT !.recvbuf = Tail(sk[cur].recvbuf)]
             b == [sk[Backend] EXCEPT !.sendbuf = Append(sk[Backend].sendbuf, cur)]
  <2>1. /\ pc = "decode" /\ cur \in Clients /\ ~Waiting(sk[cur]) /\ cur # Backend
        /\ sk[cur].sendbuf # <<>> => "OUT" \in sk[cur].events
        /\ Tail(sk[cur].recvbuf) \in Seq(RecvToks)
    BY <1>0, <1>2, <1>5 DEF PP2Encode
  <2>2. Decoded([sk EXCEPT ![cur] = r, ![Backend] = b])
    BY <1>0, <1>1, <1>5, <2>1 DEF PP2Encode, SkOK
  <2>3. SameBut(r, sk[cur], {"recvbuf"})
    BY <1>1, <2>1, RecvbufSet
  <2>4. Append(sk[Backend].sendbuf, cur) \in Seq(SentToks)
    BY <1>0, <2>1, AppendProperties, Constants DEF Sk
  <2>5. SameBut(b, sk[Backend], {"sendbuf"})
    BY <1>0, <2>4, SendbufSet
  <2> HIDE DEF r, b
  <2>6. /\ SameBut(r, sk[cur], {"events", "flags", "sendbuf", "recvbuf"})
        /\ ~Waiting(r) /\ (r.sendbuf # <<>> => "OUT" \in r.events)
    BY <2>1, <2>3 DEF SameBut, Waiting
  <2> QED BY <2>1, <2>2, <2>5, <2>6, WsDecodedInv
<1>6. CASE PP2EncodeAgain
  <2>1. pc = "decode" /\ cur \in Clients /\ ~Waiting(sk[cur])
        /\ Tail(sk[cur].recvbuf) \in Seq(RecvToks)
    BY <1>2, <1>6 DEF PP2EncodeAgain
  <2>2. PICK rest \in {<<"raw">>, <<>>} :
           WsReturn([sk EXCEPT ![cur].recvbuf = rest \o Tail(@)], "EAGAIN")
    BY <1>6 DEF PP2EncodeAgain
  <2> DEFINE b == rest \o Tail(sk[cur].recvbuf)
             r == [sk[cur] EXCEPT !.recvbuf = b]
  <2>3. b \in Seq(RecvToks)
    BY <2>1, Constants, ConcatProperties
  <2>4. WsReturn([sk EXCEPT ![cur] = r], "EAGAIN")
    BY <2>2
  <2> HIDE DEF b
  <2>5. SameBut(r, sk[cur], {"recvbuf"})
    BY <1>1, <2>1, <2>3, RecvbufSet
  <2> HIDE DEF r
  <2>6. ~Waiting(r)
    BY <2>1, <2>5 DEF SameBut, Waiting
  <2> QED BY <2>1, <2>4, <2>5, <2>6, WsReturnInv
<1>7. CASE FinishClosingHandshake
  <2> DEFINE r == [sk[cur] EXCEPT !.recvbuf = <<>>,
                                  !.flags = (@ \ {"closing"}) \cup {"close"}]
  <2>1. /\ pc = "decode" /\ cur \in Clients
        /\ sk[cur].sendbuf # <<>> => "OUT" \in sk[cur].events
    BY <1>2, <1>7 DEF FinishClosingHandshake
  <2>2. SameBut(r, sk[cur], {"recvbuf", "flags"}) /\ r.recvbuf = <<>>
    BY <1>1, <2>1, Constants DEF SameBut, Sk, Flags
  <2>3. Decoded([sk EXCEPT ![cur] = r])
    BY <1>0, <1>1, <1>7, <2>1 DEF FinishClosingHandshake, SkOK
  <2> HIDE DEF r
  <2>4. Decoded([sk EXCEPT ![cur] = r, ![Backend] = sk[Backend]])
    BY <1>1, <2>1, <2>3
  <2>5. /\ SameBut(r, sk[cur], {"events", "flags", "sendbuf", "recvbuf"})
        /\ (r.sendbuf # <<>> => "OUT" \in r.events)
    BY <2>1, <2>2 DEF SameBut
  <2> QED BY <1>0, <2>1, <2>2, <2>4, <2>5, WsDecodedInv
<1>8. CASE WsClose
  <2>1. pc = "decode" /\ cur \in Clients /\ ~Waiting(sk[cur])
    BY <1>2, <1>8 DEF WsClose
  <2>2. CASE Decoded([sk EXCEPT ![cur] = ReplyClose(sk[cur])])
    <3> DEFINE r == ReplyClose(sk[cur])
    <3>1. /\ SameBut(r, sk[cur], {"flags", "sendbuf", "recvbuf"})
          /\ "close_on_write" \in r.flags /\ r.recvbuf = <<>>
      BY <1>1, <2>1, Replied
    <3>2. Decoded([sk EXCEPT ![cur] = r, ![Backend] = sk[Backend]])
      BY <1>1, <2>1, <2>2
    <3> HIDE DEF r
    <3>3. SameBut(r, sk[cur], {"events", "flags", "sendbuf", "recvbuf"})
      BY <3>1 DEF SameBut
    <3> QED BY <1>0, <2>1, <3>1, <3>2, <3>3, WsDecodedInv
  <2>3. CASE WsReturn([sk EXCEPT ![cur].recvbuf = <<>>], "fatal")
    <3> DEFINE r == [sk[cur] EXCEPT !.recvbuf = <<>>]
    <3>1. WsReturn([sk EXCEPT ![cur] = r], "fatal")
      BY <2>3
    <3>2. SameBut(r, sk[cur], {"recvbuf"}) /\ r.recvbuf = <<>>
      BY <1>1, <2>1, Constants, RecvbufSet
    <3> HIDE DEF r
    <3>3. ~Waiting(r)
      BY <2>1, <3>2 DEF SameBut, Waiting
    <3> QED BY <2>1, <3>1, <3>2, <3>3, WsReturnInv
  <2> QED BY <1>8, <2>2, <2>3 DEF WsClose
<1>9. ASSUME NEW t \in WsToks, WsPing(t) \/ WsPong(t) \/ WsUnknown(t)
      PROVE  Inv'
  <2> DEFINE r == Consume(sk[cur], t)
  <2>1. /\ pc = "decode" /\ cur \in Clients /\ ~Waiting(sk[cur])
        /\ sk[cur].recvbuf # <<>>
        /\ sk[cur].sendbuf # <<>> => "OUT" \in sk[cur].events
    BY <1>2, <1>9 DEF WsPing, WsPong, WsUnknown
  <2>2. SameBut(r, sk[cur], {"recvbuf"}) /\ r \in Sk
    BY <1>1, <2>1, Consumed DEF SameBut
  <2>3. \/ Exit
        \/ Decoded([sk EXCEPT ![cur] = ws_pong(r)])
        \/ Decoded([sk EXCEPT ![cur] = ws_start_closing_handshake(r)])
        \/ Decoded([sk EXCEPT ![cur] = r])
        \/ WsReturn([sk EXCEPT ![cur] = r], "fatal")
    BY <1>9 DEF WsPing, WsPong, WsUnknown
  <2> HIDE DEF r
  <2>4. ~Waiting(r) /\ (r.sendbuf # <<>> => "OUT" \in r.events)
    BY <2>1, <2>2 DEF SameBut, Waiting
  <2>5. ASSUME NEW q, SameBut(q, r, {"events", "flags", "sendbuf"}),
               q.sendbuf # <<>> => "OUT" \in q.events, ~Waiting(q),
               Decoded([sk EXCEPT ![cur] = q])
        PROVE  Inv'
    <3>1. SameBut(q, sk[cur], {"events", "flags", "sendbuf", "recvbuf"})
      BY <2>2, <2>5 DEF SameBut
    <3>2. Decoded([sk EXCEPT ![cur] = q, ![Backend] = sk[Backend]])
      BY <1>1, <2>1, <2>5
    <3> QED BY <1>0, <2>1, <2>5, <3>1, <3>2, WsDecodedInv
  <2>6. CASE Exit
    BY <2>6, ExitInv DEF Exit, Keep, Halted
  <2>7. CASE Decoded([sk EXCEPT ![cur] = ws_pong(r)])
    <3>1. /\ SameBut(ws_pong(r), r, {"events", "sendbuf"})
          /\ "OUT" \in ws_pong(r).events
      BY <2>2, Queued, Constants DEF ws_pong
    <3>2. SameBut(ws_pong(r), r, {"events", "flags", "sendbuf"}) /\ ~Waiting(ws_pong(r))
      BY <2>4, <3>1 DEF SameBut, Waiting
    <3> QED BY <2>5, <2>7, <3>1, <3>2
  <2>8. CASE Decoded([sk EXCEPT ![cur] = ws_start_closing_handshake(r)])
    <3>1. /\ SameBut(ws_start_closing_handshake(r), r, {"events", "flags", "sendbuf"})
          /\ "OUT" \in ws_start_closing_handshake(r).events
          /\ ws_start_closing_handshake(r).flags = r.flags \cup {"closing"}
      BY <2>2, ClosingStarted
    <3>2. ~Waiting(ws_start_closing_handshake(r))
      BY <2>4, <3>1 DEF Waiting
    <3> QED BY <2>5, <2>8, <3>1, <3>2
  <2>9. CASE Decoded([sk EXCEPT ![cur] = r])
    <3>1. SameBut(r, r, {"events", "flags", "sendbuf"})
      BY <2>2 DEF SameBut
    <3> QED BY <2>4, <2>5, <2>9, <3>1
  <2>10. CASE WsReturn([sk EXCEPT ![cur] = r], "fatal")
    BY <2>1, <2>2, <2>4, <2>10, WsReturnInv
  <2> QED BY <2>3, <2>6, <2>7, <2>8, <2>9, <2>10
<1> QED BY <1>3, <1>4, <1>5, <1>6, <1>7, <1>8, <1>9 DEF WsDecodeFrame

\* pp2_recv returns: nothing decodable is left, or the backend is closed.
LEMMA PP2ReturnInv ==
    ASSUME Inv, Typed', pc = "decode", cur = Backend, NEW r,
           SameBut(r, sk[Backend], {"recvbuf"}),
           NEW rv \in {"EINPUT", "EAGAIN", "fatal"},
           rv # "fatal" => ~Decodable(r),
           PP2Return([sk EXCEPT ![Backend] = r], rv)
    PROVE  Inv'
<1> DEFINE skv == [sk EXCEPT ![Backend] = r]
<1>0. /\ Backend \in Sockets /\ SkOK(sk) /\ Backend \in todo /\ Backend \in work_list
  BY SocketTypes, SockFacts DEF Inv, ControlInv
<1>1. skv[Backend] = r /\ \A x \in Sockets \ {Backend} : skv[x] = sk[x]
  BY <1>0 DEF SkOK
<1>2. \A x \in Sockets :
         SockInv(x, sk[x], x \in work_list, FALSE, x = Backend, Backend \notin todo)
  BY <1>0, SockFacts DEF SockInv
<1>3. TryRecvReturn(skv, Backend, rv)
  BY DEF PP2Return
<1>4. SkOK(skv)
  BY <1>0, SkUpdate DEF SkOK, SameBut
<1> HIDE DEF skv
<1>5. ~Waiting(r) /\ (r.sendbuf # <<>> => "OUT" \in r.events) /\ r.proto # "free"
  BY <1>0, <1>2 DEF SockInv, SameBut, Waiting
<1>6. rv # "fatal" => SockInv(Backend, r, TRUE, FALSE, FALSE, TRUE)
                      /\ SockInv(Backend, r, FALSE, FALSE, FALSE, TRUE)
  BY <1>5 DEF SockInv
<1>7. "close_on_write" \notin r.flags
  BY <1>5 DEF Waiting
<1>8. Returnable(skv, Backend, rv)
  <2>1. \A x \in Sockets \ {Backend} :
           SockInv(x, skv[x], x \in work_list, FALSE, FALSE, Backend \notin todo)
    BY <1>1, <1>2 DEF SockInv
  <2> QED BY <1>1, <1>6, <1>7, <2>1 DEF Returnable
<1> QED BY <1>0, <1>3, <1>4, <1>8, TryRecvReturnInv

\* Every step of the frame loop of pp2_recv keeps the invariant.
LEMMA PP2DecodeInv ==
    ASSUME Inv, Typed', PP2DecodeFrame
    PROVE  Inv'
<1>0. /\ SkOK(sk) /\ Backend \in Sockets /\ Backend \notin Clients
      /\ sk[Backend] \in Sk /\ SameBut(sk[Backend], sk[Backend], {"recvbuf"})
      /\ [sk EXCEPT ![Backend] = sk[Backend]] = sk
  BY SocketTypes DEF Inv, SameBut, SkOK
<1>1. pc = "decode" /\ cur = Backend
  BY DEF PP2DecodeFrame, PP2Decode, PP2Incomplete, PP2Again, PP2Garbled, PP2Drop,
         PP2Forward, PP2Message
<1>2. CASE PP2Incomplete
  <2>1. ~Decodable(sk[Backend])
    <3>1. \/ sk[Backend].recvbuf = <<>> \/ Head(sk[Backend].recvbuf) = "hdr"
          \/ Head(sk[Backend].recvbuf) = "raw"
      BY <1>2 DEF PP2Incomplete
    <3> QED BY <3>1, NothingDecodable DEF Partial
  <2>2. PP2Return([sk EXCEPT ![Backend] = sk[Backend]], "EINPUT")
    BY <1>0, <1>2 DEF PP2Incomplete
  <2> QED BY <1>0, <1>1, <2>1, <2>2, PP2ReturnInv
<1>3. CASE PP2Again
  <2>1. ~Decodable(sk[Backend])
    BY <1>3, NothingDecodable DEF PP2Again, Partial
  <2>2. PP2Return([sk EXCEPT ![Backend] = sk[Backend]], "EAGAIN")
    BY <1>0, <1>3 DEF PP2Again
  <2> QED BY <1>0, <1>1, <2>1, <2>2, PP2ReturnInv
<1>4. CASE PP2Garbled
  <2>1. PP2Return([sk EXCEPT ![Backend] = sk[Backend]], "fatal")
    BY <1>0, <1>4 DEF PP2Garbled
  <2> QED BY <1>0, <1>1, <2>1, PP2ReturnInv
<1>5. ASSUME NEW d \in Clients, PP2Drop(d) \/ PP2Forward(d)
      PROVE  Inv'
  <2> DEFINE rest == Tail(sk[Backend].recvbuf)
             b == [sk[Backend] EXCEPT !.recvbuf = rest]
             g == [sk[Backend] EXCEPT !.recvbuf = <<"raw">> \o rest]
             q == ws_encode_frame(sk[d], sk[Backend])
  <2>0. /\ sk[Backend].recvbuf # <<>> /\ Head(sk[Backend].recvbuf) = d
        /\ d # Backend /\ d \in Sockets /\ sk[d] \in Sk
    BY <1>0, <1>5, SocketTypes DEF PP2Drop, PP2Forward, PP2Message, Inv
  <2>1. rest \in Seq(RecvToks)
    BY <1>0, <2>0, HeadTailProperties DEF Sk
  <2>2. <<"raw">> \o rest \in Seq(RecvToks)
    BY <2>1, Constants, ConcatProperties
  <2>3. Decodable(sk[Backend])
    BY <2>0, SocketsAssumption DEF Decodable, Partial
  <2>4. /\ \A x \in Sockets :
              SockInv(x, sk[x], x \in work_list, FALSE, x = Backend, Backend \notin todo)
        /\ Backend \in todo /\ Backend \in work_list
    BY <1>0, <1>1, SockFacts DEF SockInv, Inv, ControlInv
  <2>5. "IN" \in sk[Backend].events /\ ~Waiting(sk[Backend]) /\ sk[Backend].proto # "free"
        /\ (sk[Backend].sendbuf # <<>> => "OUT" \in sk[Backend].events)
    BY <1>0, <2>3, <2>4 DEF SockInv, Waiting
  <2>6. \/ Undefined
        \/ PP2Return([sk EXCEPT ![Backend] = g], "EAGAIN")
        \/ Decoded([sk EXCEPT ![Backend] = b, ![d] = sk[d]])
        \/ /\ sk[d].proto = "ws"
           /\ Decoded([sk EXCEPT ![Backend] = b, ![d] = q])
    <3>1. [sk EXCEPT ![Backend] = b, ![d] = sk[d]] = [sk EXCEPT ![Backend] = b]
      BY <1>0, <2>0 DEF SkOK
    <3> QED BY <1>0, <1>5, <2>0, <3>1 DEF PP2Drop, PP2Forward, SkOK
  <2>7. SameBut(g, sk[Backend], {"recvbuf"}) /\ ~Decodable(g)
    <3>1. SameBut(g, sk[Backend], {"recvbuf"}) /\ g.recvbuf = <<"raw">> \o rest
      BY <1>0, <2>2, RecvbufSet
    <3>2. Head(<<"raw">> \o rest) = "raw"
      BY <2>1
    <3> QED BY <3>1, <3>2, NothingDecodable
  <2>8. SameBut(b, sk[Backend], {"recvbuf"})
    BY <1>0, <2>1, RecvbufSet
  <2> HIDE DEF rest, b, g
  <2>9. CASE Undefined
    BY <2>9, ExitInv DEF Undefined, Keep, Halted
  <2>10. CASE PP2Return([sk EXCEPT ![Backend] = g], "EAGAIN")
    BY <1>1, <2>7, <2>10, PP2ReturnInv
  <2>11. ASSUME NEW p,
                SockInv(d, p, d \in work_list, FALSE, FALSE, Backend \notin todo),
                Decoded([sk EXCEPT ![Backend] = b, ![d] = p])
         PROVE  Inv'
    <3> DEFINE skv == [sk EXCEPT ![Backend] = b, ![d] = p]
    <3>1. skv[Backend] = b /\ skv[d] = p
          /\ \A x \in Sockets \ {Backend, d} : skv[x] = sk[x]
      BY <1>0, <2>0 DEF SkOK
    <3>2. Decoded(skv)
      BY <2>11
    <3> HIDE DEF skv
    <3>3. SockInv(Backend, b, TRUE, FALSE, TRUE, FALSE)
      BY <2>5, <2>8 DEF SockInv, SameBut, Waiting
    <3>4. Decodes(skv)
      BY <1>1, <2>0, <2>4, <2>8, <2>11, <3>1, <3>3 DEF Decodes, SockInv, SameBut
    <3> QED BY <1>1, <3>2, <3>4, DecodedInv
  <2>12. CASE Decoded([sk EXCEPT ![Backend] = b, ![d] = sk[d]])
    BY <2>0, <2>4, <2>11, <2>12 DEF SockInv
  <2>13. CASE sk[d].proto = "ws" /\ Decoded([sk EXCEPT ![Backend] = b, ![d] = q])
    <3>1. q = Queue(sk[d], "data")
      BY <2>5 DEF ws_encode_frame
    <3>2. SameBut(q, sk[d], {"events", "sendbuf"}) /\ q.events = sk[d].events \cup {"OUT"}
      BY <2>0, <3>1, Queued, Constants
    <3> HIDE DEF q
    <3>3. SockInv(d, sk[d], d \in work_list, FALSE, FALSE, Backend \notin todo)
      BY <2>0, <2>4 DEF SockInv
    <3>4. SockInv(d, q, d \in work_list, FALSE, FALSE, Backend \notin todo)
      BY <2>0, <2>13, <3>2, <3>3 DEF SockInv, SameBut, Decodable, Waiting
    <3> QED BY <2>11, <2>13, <3>4
  <2> QED BY <2>6, <2>9, <2>10, <2>12, <2>13
<1> QED BY <1>2, <1>3, <1>4, <1>5 DEF PP2DecodeFrame

\* check_timeouts and the end of wschild_main keep the invariant.
LEMMA TimeoutsInv ==
    ASSUME Inv, Typed', NEW s \in Sockets, Timeouts(s) \/ Shutdown(s)
    PROVE  Inv'
<1>0. /\ SkOK(sk) /\ sk[s] \in Sk /\ [sk EXCEPT ![s] = sk[s]] = sk
      /\ pc \in {"check_timeouts", "shutdown"} /\ todo' = todo \ {s}
      /\ "ub" \in Halted /\ "check_timeouts" \notin Halted
  BY SocketTypes DEF Inv, SkOK, Halted, Timeouts, IdleTimedOut, ClosingTimedOut,
                     Ping, NoTimeout, Shutdown, CheckTimeouts, Visited
<1>1. CASE Close(sk, s, work_list, pc)
  BY <1>0, <1>1, HandlerCloseInv
<1>2. CASE Undefined
  BY <1>0, <1>2, ExitInv DEF Undefined, Keep
<1>3. ASSUME NEW r, pc = "check_timeouts", Keep([sk EXCEPT ![s] = r], work_list, pc),
             \/ r = sk[s]
             \/ /\ SameBut(r, sk[s], {"events", "flags", "sendbuf"})
                /\ r.events = sk[s].events \cup {"OUT"}
                /\ ~Waiting(r) /\ s # Backend /\ sk[s].proto # "free"
      PROVE  Inv'
  <2>1. SockInv(s, sk[s], s \in work_list, FALSE, FALSE, TRUE)
    BY <1>3, SockFacts DEF SockInv, Served
  <2>2. SockInv(s, r, s \in work_list, FALSE, FALSE, TRUE)
    BY <1>3, <2>1 DEF SockInv, SameBut, Decodable
  <2>3. SockInv(s, r, s \in work_list, pc \in Halted, pc \in Halted, pc = "check_timeouts")
    BY <1>0, <1>3, <2>2 DEF SockInv
  <2> QED BY <1>0, <1>3, <2>3, HandlerKeepInv
<1>4. CASE NoTimeout(s)
  BY <1>0, <1>3, <1>4 DEF NoTimeout, CheckTimeouts
<1>5. ASSUME check_timeout(sk[s])
      PROVE  ~Waiting(sk[s]) /\ sk[s].proto # "free" /\ "closing" \notin sk[s].flags
  BY <1>5, SockFacts DEF check_timeout, Waiting, SockInv, SkDestroyed
<1>6. CASE IdleTimedOut(s)
  <2> DEFINE q == ws_start_closing_handshake(sk[s])
             r == Flag(q, {"ts_closing_handshake_start"})
  <2>0. pc = "check_timeouts" /\ check_timeout(sk[s])
    BY <1>6 DEF IdleTimedOut, CheckTimeouts
  <2>1. CASE sk[s].proto = "ws" /\ Fits(sk[s])
    <3>1. /\ SameBut(q, sk[s], {"events", "flags", "sendbuf"})
          /\ q.events = sk[s].events \cup {"OUT"}
          /\ q.flags = sk[s].flags \cup {"closing"}
      BY <1>0, ClosingStarted
    <3>2. Keep([sk EXCEPT ![s] = r], work_list, pc)
      BY <1>6, <2>0, <2>1 DEF IdleTimedOut
    <3> HIDE DEF q
    <3>3. SameBut(r, q, {"flags"}) /\ r.flags = q.flags \cup {"ts_closing_handshake_start"}
      BY <3>1, FlagSet, Constants DEF SameBut
    <3> HIDE DEF r
    <3>4. /\ SameBut(r, sk[s], {"events", "flags", "sendbuf"})
          /\ r.events = sk[s].events \cup {"OUT"}
          /\ ~Waiting(r)
      BY <1>5, <2>0, <3>1, <3>3 DEF SameBut, Waiting
    <3>5. s # Backend
      BY <1>0, <2>1 DEF SkOK
    <3> QED BY <1>3, <1>5, <2>0, <3>2, <3>4, <3>5
  <2>2. CASE ~(sk[s].proto = "ws" /\ Fits(sk[s]))
    BY <1>1, <1>6, <2>0, <2>2 DEF IdleTimedOut
  <2> QED BY <2>1, <2>2
<1>7. CASE Ping(s)
  <2>0. pc = "check_timeouts" /\ check_timeout(sk[s])
    BY <1>7 DEF Ping, CheckTimeouts
  <2>1. CASE s # Backend /\ Fits(sk[s]) /\ sk[s].proto # "http"
    <3>1. Keep([sk EXCEPT ![s] = ws_ping(sk[s])], work_list, pc)
      BY <1>7, <2>0, <2>1 DEF Ping
    <3>2. /\ SameBut(ws_ping(sk[s]), sk[s], {"events", "sendbuf"})
          /\ ws_ping(sk[s]).events = sk[s].events \cup {"OUT"}
      BY <1>0, Queued, Constants DEF ws_ping
    <3>3. /\ SameBut(ws_ping(sk[s]), sk[s], {"events", "flags", "sendbuf"})
          /\ ~Waiting(ws_ping(sk[s]))
      BY <1>5, <2>0, <3>2 DEF SameBut, Waiting
    <3> QED BY <1>3, <1>5, <2>0, <2>1, <3>1, <3>2, <3>3
  <2>2. CASE ~(s # Backend /\ Fits(sk[s]) /\ sk[s].proto # "http")
    <3>1. Undefined \/ Keep([sk EXCEPT ![s] = sk[s]], work_list, pc)
      BY <1>0, <1>7, <2>0, <2>2 DEF Ping
    <3> QED BY <1>2, <1>3, <2>0, <3>1
  <2> QED BY <2>1, <2>2
<1>8. CASE ClosingTimedOut(s) \/ Shutdown(s)
  BY <1>1, <1>8 DEF ClosingTimedOut, Shutdown, CheckTimeouts
<1> QED BY <1>4, <1>6, <1>7, <1>8 DEF Timeouts

\* sk_accept keeps the invariant.
LEMMA AcceptInv ==
    ASSUME Inv, Typed', NEW c \in Clients, sk_accept(c)
    PROVE  Inv'
<1>0. /\ SkOK(sk) /\ c \in Sockets /\ c # Backend /\ pc = "events"
      /\ todo' = todo \ {Listener} /\ Listener \notin Sockets
      /\ "events" \notin Halted /\ "exit" \in Halted
  BY SocketTypes, SocketsAssumption DEF Inv, sk_accept, Visited, Halted
<1>1. CASE Exit
  BY <1>0, <1>1, ExitInv DEF Exit, Keep
<1>2. CASE /\ sk' = [sk EXCEPT ![c] = SkInit("http")]
           /\ UNCHANGED <<work_list, pc>>
  <2>1. sk'[c] = SkInit("http") /\ \A x \in Sockets \ {c} : sk'[x] = sk[x]
    BY <1>0, <1>2 DEF SkOK
  <2>2. Backend \in todo' <=> Backend \in todo
    BY <1>0, SocketTypes DEF Inv
  <2>3. ASSUME NEW x \in Sockets
        PROVE  SockInv(x, sk'[x], x \in work_list', Lax(x)', Mine(x)', Served')
    <3>1. CASE x = c
      BY <1>0, <2>1, <3>1 DEF SockInv, SkInit, Decodable, Waiting
    <3>2. CASE x # c
      <4>1. SockInv(x, sk[x], x \in work_list, FALSE, FALSE, Served)
        BY <1>0, SockFacts DEF SockInv
      <4>2. Served' => Served
        BY <1>0, <1>2, <2>2 DEF Served
      <4> QED BY <1>2, <2>1, <3>2, <4>1, <4>2 DEF SockInv
    <3> QED BY <3>1, <3>2
  <2>4. ControlInv'
    BY <1>0, <1>2 DEF ControlInv
  <2> QED BY <2>3, <2>4 DEF Inv, SocketsInv
<1> QED BY <1>1, <1>2 DEF sk_accept

\* on_read on the socket s, which it leaves at r.
LEMMA PostReadInv ==
    ASSUME Inv, Typed', NEW s \in Sockets, pc = "events", s \in todo, todo' = todo \ {s},
           "IN" \in sk[s].events, NEW r \in Sk, post_read(r, s),
           SameBut(r, sk[s], {"events", "recvbuf"}),
           "OUT" \in sk[s].events => "OUT" \in r.events,
           \/ r.recvbuf = sk[s].recvbuf
           \/ "IN" \in r.events
    PROVE  Inv'
<1> DEFINE q == ts_last_io_set(r)
<1>0. /\ SkOK(sk) /\ {"exit", "ub"} \subseteq Halted /\ "events" \notin Halted
  BY SocketTypes DEF Inv, Halted
<1>1. /\ sk'[s] = q /\ \A x \in Sockets \ {s} : sk'[x] = sk[x]
      /\ work_list' = work_list \cup {s}
      /\ pc' \in {pc} \cup Halted /\ pc' # "check_timeouts"
  BY <1>0 DEF post_read, SkOK
<1>2. SameBut(q, r, {"flags"}) /\ q.flags = r.flags \cup {"ts_last_io"}
  BY FlagSet, Constants DEF ts_last_io_set
<1> HIDE DEF q
<1>3. SockInv(s, sk[s], s \in work_list, FALSE, FALSE, s = Backend)
  BY SockFacts DEF SockInv, Served
<1>4. sk[s].proto # "free" /\ ~Waiting(sk[s]) /\ (s = Backend => ~Decodable(sk[s]))
      /\ (sk[s].sendbuf # <<>> => "OUT" \in sk[s].events)
  BY <1>3 DEF SockInv, SkDestroyed, Waiting
<1>5. /\ q.proto # "free" /\ ~Waiting(q)
      /\ q.sendbuf # <<>> => "OUT" \in q.events
      /\ s = Backend /\ "IN" \notin q.events => ~Decodable(q)
  BY <1>2, <1>4 DEF SameBut, Waiting, Decodable
<1>6. SockInv(s, sk'[s], s \in work_list', pc' \in Halted, pc' \in Halted,
              pc' = "check_timeouts")
  BY <1>1, <1>5 DEF SockInv
<1> QED BY <1>1, <1>6, HandlerInv

\* on_read keeps the invariant.
LEMMA OnReadInv ==
    ASSUME Inv, Typed', NEW s \in Sockets, OnReadFull(s) \/ OnReadData(s) \/ OnReadEnd(s)
    PROVE  Inv'
<1>0. /\ SkOK(sk) /\ sk[s] \in Sk /\ pc = "events" /\ s \in todo /\ todo' = todo \ {s}
      /\ "IN" \in sk[s].events
      /\ {"exit", "ub"} \subseteq Halted /\ "events" \notin Halted
  BY SocketTypes DEF Inv, Halted, OnReadFull, OnReadData, OnReadEnd, OnRead, OnEvent
<1>1. CASE OnReadFull(s)
  <2> DEFINE r == turn_off_events(sk[s], {"IN"})
  <2>1. /\ SameBut(r, sk[s], {"events"}) /\ r.events = sk[s].events \ {"IN"}
    BY <1>0, TurnOff, Constants
  <2>2. post_read(r, s)
    BY <1>1 DEF OnReadFull
  <2> HIDE DEF r
  <2>3. /\ SameBut(r, sk[s], {"events", "recvbuf"}) /\ r \in Sk
        /\ r.recvbuf = sk[s].recvbuf /\ ("OUT" \in sk[s].events => "OUT" \in r.events)
    BY <2>1 DEF SameBut
  <2> QED BY <1>0, <2>2, <2>3, PostReadInv
<1>2. CASE OnReadData(s)
  <2> DEFINE room == RecvCap - Len(sk[s].recvbuf)
             k == IF Len(net[s]) < room THEN Len(net[s]) ELSE room
             q == Join(sk[s].recvbuf, SubSeq(net[s], 1, k))
             r == sk_read(sk[s], s, k)
  <2>1. /\ net[s] \in Seq(RecvToks) /\ sk[s].recvbuf \in Seq(RecvToks)
        /\ Len(sk[s].recvbuf) \in Nat /\ Len(net[s]) \in Nat /\ RecvCap \in Nat
    BY <1>0, TypedParts, LenProperties, CapsAssumption DEF Inv, ListsOK, Sk
  <2>2. k \in 0 .. Len(net[s])
    BY <1>2, <2>1 DEF OnReadData
  <2>3. post_read(r, s)
    BY <1>2 DEF OnReadData
  <2> HIDE DEF k
  <2>4. SubSeq(net[s], 1, k) \in Seq(RecvToks)
    BY <2>1, <2>2, Segments
  <2>5. q \in Seq(RecvToks) /\ r = [sk[s] EXCEPT !.recvbuf = q]
    BY <2>1, <2>4, JoinType DEF sk_read
  <2> HIDE DEF q, r
  <2>6. SameBut(r, sk[s], {"recvbuf"})
    BY <1>0, <2>5, RecvbufSet
  <2>7. /\ SameBut(r, sk[s], {"events", "recvbuf"}) /\ r \in Sk
        /\ r.events = sk[s].events
    BY <2>6 DEF SameBut
  <2> QED BY <1>0, <2>3, <2>7, PostReadInv
<1>3. CASE OnReadEnd(s)
  <2> DEFINE r == ts_last_io_set(sk[s])
             t == [r EXCEPT !.retries = r.retries + 1]
  <2>1. SameBut(r, sk[s], {"flags"}) /\ r.flags = sk[s].flags \cup {"ts_last_io"}
    BY <1>0, FlagSet, Constants DEF ts_last_io_set
  <2>2. \/ Exit
        \/ Close(sk, s, work_list, pc)
        \/ /\ sk' = [sk EXCEPT ![s] = t]
           /\ UNCHANGED <<work_list, pc>>
    BY <1>0, <1>3 DEF OnReadEnd
  <2> HIDE DEF r
  <2>3. CASE Exit
    BY <1>0, <2>3, ExitInv DEF Exit, Keep
  <2>4. CASE Close(sk, s, work_list, pc)
    BY <1>0, <2>4, HandlerCloseInv
  <2>5. CASE sk' = [sk EXCEPT ![s] = t] /\ UNCHANGED <<work_list, pc>>
    <3>1. /\ t.proto = r.proto /\ t.events = r.events /\ t.flags = r.flags
          /\ t.sendbuf = r.sendbuf /\ t.recvbuf = r.recvbuf
      BY <2>1 DEF SameBut, Sk
    <3>2. SockInv(s, sk[s], s \in work_list, FALSE, FALSE, FALSE)
      BY <1>0, SockFacts DEF SockInv
    <3>3. sk[s].proto # "free"
      BY <1>0, <3>2 DEF SockInv, SkDestroyed
    <3> HIDE DEF t
    <3>4. SockInv(s, t, s \in work_list, FALSE, FALSE, FALSE)
      BY <2>1, <3>1, <3>2, <3>3 DEF SockInv, SameBut, Decodable, Waiting
    <3>5. sk'[s] = t /\ \A x \in Sockets \ {s} : sk'[x] = sk[x]
      BY <1>0, <2>5 DEF SkOK
    <3>6. SockInv(s, sk'[s], s \in work_list', pc' \in Halted, pc' \in Halted,
                  pc' = "check_timeouts")
      BY <1>0, <2>5, <3>4, <3>5 DEF SockInv
    <3> QED BY <1>0, <2>5, <3>5, <3>6, HandlerInv
  <2> QED BY <2>2, <2>3, <2>4, <2>5
<1> QED BY <1>1, <1>2, <1>3

\* on_write and the handling of errors in on_epoll_event keep the invariant.
LEMMA OnWriteInv ==
    ASSUME Inv, Typed', NEW s \in Sockets,
           OnWrite(s) \/ OnWriteFails(s) \/ OnHup(s) \/ NotWritable(s)
    PROVE  Inv'
<1>0. /\ SkOK(sk) /\ sk[s] \in Sk /\ pc = "events" /\ todo' = todo \ {s}
      /\ "exit" \in Halted /\ "events" \notin Halted
  BY SocketTypes DEF Inv, Halted, OnWrite, OnWriteFails, OnHup, NotWritable, OnWritable,
                     OnEvent
<1>1. SockInv(s, sk[s], s \in work_list, FALSE, FALSE, FALSE)
  BY <1>0, SockFacts DEF SockInv
<1>2. CASE Close(sk, s, work_list, pc)
  BY <1>0, <1>2, HandlerCloseInv
<1>3. CASE Exit
  BY <1>0, <1>3, ExitInv DEF Exit, Keep
<1>4. CASE Keep(sk, work_list, pc)
  <2>1. [sk EXCEPT ![s] = sk[s]] = sk
    BY <1>0 DEF SkOK
  <2>2. SockInv(s, sk[s], s \in work_list, pc \in Halted, pc \in Halted,
                pc = "check_timeouts")
    BY <1>0, <1>1 DEF SockInv
  <2> QED BY <1>0, <1>4, <2>1, <2>2, HandlerKeepInv
<1>5. CASE OnWrite(s)
  <2>1. PICK k \in 0 .. Len(sk[s].sendbuf) : Written(s, k)
    BY <1>5 DEF OnWrite
  <2> DEFINE r == ts_last_io_set(sk_write(sk[s], k))
  <2>2. /\ SameBut(r, sk[s], {"events", "flags", "sendbuf"})
        /\ r.flags = sk[s].flags \cup {"ts_last_io"}
        /\ r.events = sk_write(sk[s], k).events
        /\ r.sendbuf = sk_write(sk[s], k).sendbuf
    BY <1>0, <2>1, WrittenType
  <2>3. /\ r.events = IF sk[s].sendbuf = <<>> THEN sk[s].events \ {"OUT"} ELSE sk[s].events
        /\ sk[s].sendbuf = <<>> => r.sendbuf = <<>>
    BY <1>0, <2>1, <2>2, Sent
  <2>4. Close(sk, s, work_list, pc) \/ Keep([sk EXCEPT ![s] = r], work_list, pc)
    BY <1>0, <2>1 DEF Written
  <2> HIDE DEF r
  <2>5. sk[s].proto # "free"
    BY <1>1, <1>5 DEF OnWrite, OnWritable, SockInv, SkDestroyed
  <2>6. SockInv(s, r, s \in work_list, FALSE, FALSE, FALSE)
    BY <1>1, <2>2, <2>3, <2>5 DEF SockInv, SameBut, Decodable, Waiting
  <2>7. SockInv(s, r, s \in work_list, pc \in Halted, pc \in Halted,
                pc = "check_timeouts")
    BY <1>0, <2>6 DEF SockInv
  <2> QED BY <1>0, <1>2, <2>4, <2>7, HandlerKeepInv
<1> QED BY <1>0, <1>2, <1>3, <1>4, <1>5 DEF OnWriteFails, OnHup, NotWritable

\* The steps of event_loop between two handlers keep the invariant.
LEMMA LoopInv ==
    ASSUME Inv, Typed', Loop
    PROVE  Inv'
<1>0. /\ UNCHANGED <<sk, work_list>>
      /\ pc \notin Halted \cup {"decode"} /\ pc' # "decode"
      /\ pc' = "try_recv" => todo' = work_list
      /\ pc' \in {"check_timeouts", "epoll_wait"} => Served
      /\ pc' = "events" => Served
  BY DEF Loop, Iterate, Sigterm, TryRecvDone, TimeoutsDone, EventsDone,
         ShutdownDone, epoll_wait, Goto, Halted, Served
<1>1. ControlInv'
  BY <1>0 DEF ControlInv
<1>2. ASSUME NEW x \in Sockets
      PROVE  SockInv(x, sk'[x], x \in work_list', Lax(x)', Mine(x)', Served')
  <2>1. SockInv(x, sk[x], x \in work_list, FALSE, FALSE, Served)
    BY <1>0, SockFacts DEF SockInv, Lax, Mine
  <2>2. Served' => Served \/ Backend \notin work_list
    BY <1>0 DEF Served
  <2> QED BY <1>0, <2>1, <2>2 DEF SockInv
<1> QED BY <1>1, <1>2 DEF Inv, SocketsInv

\* What clients, backend and kernel do keeps the invariant.
LEMMA SameInv ==
    ASSUME Inv, Typed', UNCHANGED daemon
    PROVE  Inv'
  BY DEF Inv, SocketsInv, ControlInv, daemon, Lax, Mine, Served

\* The invariant holds when event_loop is entered.
LEMMA InvInit == Init => Inv
<1> SUFFICES ASSUME Init PROVE Inv
  OBVIOUS
<1>1. /\ \A s \in Sockets : sk[s] = SkDestroyed /\ s \notin work_list
      /\ pc = "loop"
  BY DEF Init
<1>2. SocketsInv
  BY <1>1, ClosedSound DEF SocketsInv, SockInv
<1>3. ControlInv
  BY <1>1 DEF ControlInv
<1> QED BY <1>2, <1>3, TypedInit DEF Inv

\* The invariant is inductive.
LEMMA InvNext == Inv /\ [Next]_vars => Inv'
<1> SUFFICES ASSUME Inv, [Next]_vars PROVE Inv'
  OBVIOUS
<1>0. Typed'
  BY TypedNext DEF Inv
<1>1. CASE UNCHANGED vars \/ Gone
  BY <1>0, <1>1, SameInv DEF vars, daemon, Gone
<1>2. CASE Environment
  <2>1. UNCHANGED daemon
    BY <1>2 DEF Environment, Connect, ClientSend, BackendSend, PeerClose, BackendConnect,
                Arrive
  <2> QED BY <1>0, <2>1, SameInv
<1>3. CASE Loop
  BY <1>0, <1>3, LoopInv
<1>4. CASE WsDecodeFrame
  BY <1>0, <1>4, WsDecodeInv
<1>5. CASE PP2DecodeFrame
  BY <1>0, <1>5, PP2DecodeInv
<1>6. CASE \E c \in Clients : sk_accept(c)
  BY <1>0, <1>6, AcceptInv
<1>7. ASSUME NEW s \in Sockets, Recv(s) \/ TryRecvFreed \/ PP2RecvStart
      PROVE  Inv'
  BY <1>0, <1>7, HttpInv, RecvInv DEF Recv
<1>8. ASSUME NEW s \in Sockets, Timeouts(s) \/ Shutdown(s)
      PROVE  Inv'
  BY <1>0, <1>8, TimeoutsInv
<1>9. ASSUME NEW s \in Sockets, Event(s)
      PROVE  Inv'
  BY <1>0, <1>9, OnReadInv, OnWriteInv DEF Event
<1>10. Backend \in Sockets
  BY DEF Sockets
<1> QED BY <1>1, <1>2, <1>3, <1>4, <1>5, <1>6, <1>7, <1>8, <1>9, <1>10 DEF Next, Daemon

-----------------------------------------------------------------------------
(* The properties                                                          *)

\* The inductive invariant holds in every state of the daemon.
THEOREM Invariance == Spec => []Inv
  BY InvInit, InvNext, PTL DEF Spec

\* No lost wakeup, for any clients, buffer sizes and inputs: what recv leaves
\* decodable in a recvbuf keeps its socket in work_list, because every result
\* but EAGAIN leaves at most a fragment there.
THEOREM InputNotStranded == Spec => []NoStrandedInput
<1>1. Inv => NoStrandedInput
  BY DEF Inv, SocketsInv, SockInv, NoStrandedInput
<1> QED BY <1>1, Invariance, PTL

\* No stranded output, for any clients, buffer sizes and inputs: whoever queues
\* a frame turns EPOLLOUT on, ws_recv for the backend at its end.
THEOREM OutputNotStranded == Spec => []NoStrandedOutput
<1>1. Inv => NoStrandedOutput
  BY DEF Inv, SocketsInv, SockInv, NoStrandedOutput, Lax, Mine
<1> QED BY <1>1, Invariance, PTL

\* The assertions of on_read never fail, for any clients, buffer sizes and
\* inputs: nothing watches a socket for input that waits to be closed.
THEOREM OnReadAssertsProved == Spec => []OnReadAssertsHold
<1>1. Inv => OnReadAssertsHold
  BY DEF Inv, SocketsInv, SockInv, OnReadAssertsHold, OnReadAsserts, Mine, Waiting
<1> QED BY <1>1, Invariance, PTL

\* work_list holds no client whose sk_t has been freed.
THEOREM WorkListOpenProved == Spec => []WorkListOpen
<1>1. Inv => WorkListOpen
  BY DEF Inv, SocketsInv, SockInv, WorkListOpen, sk_list, Open, Sockets
<1> QED BY <1>1, Invariance, PTL

-----------------------------------------------------------------------------
(* At most one close frame                                                 *)

\* A socket is being closed, one way or another.
Closing(r) == r.flags \cap {"closing", "close", "close_on_write"} # {}

\* From r to q, no close frame is queued on a socket being closed.
Quiet(r, q) ==
    \/ Len(q.sendbuf) <= Len(r.sendbuf)
    \/ \E t \in SentToks \ {"close"} : q.sendbuf = Append(r.sendbuf, t)
    \/ ~Closing(r)

\* The step leaves every socket at skv, or destroys it.
Outcome(skv) == \A x \in Sockets : sk'[x] \in {skv[x], SkDestroyed}

\* A step that is quiet for every socket satisfies the action of OneCloseFrame.
LEMMA QuietStep ==
    ASSUME Typed, NEW skv, Outcome(skv), \A x \in Sockets : Quiet(sk[x], skv[x])
    PROVE  \A s \in Sockets : Closing(sk[s]) => ~QueuesClose(s)
<1> SUFFICES ASSUME NEW s \in Sockets, Closing(sk[s]) PROVE ~QueuesClose(s)
  OBVIOUS
<1>1. sk[s].sendbuf \in Seq(SentToks) /\ Len(sk[s].sendbuf) \in Nat
  BY SocketTypes, LenProperties DEF Sk
<1>2. CASE sk'[s] = SkDestroyed
  BY <1>1, <1>2, EmptySeq DEF QueuesClose, SkDestroyed
<1>3. CASE sk'[s] = skv[s] /\ Len(skv[s].sendbuf) <= Len(sk[s].sendbuf)
  <2>1. ~(Len(skv[s].sendbuf) > Len(sk[s].sendbuf))
    BY <1>1, <1>3
  <2> QED BY <1>3, <2>1 DEF QueuesClose
<1>4. ASSUME sk'[s] = skv[s], NEW t \in SentToks \ {"close"},
             skv[s].sendbuf = Append(sk[s].sendbuf, t)
      PROVE  ~QueuesClose(s)
  <2>1. /\ Len(Append(sk[s].sendbuf, t)) = Len(sk[s].sendbuf) + 1
        /\ Append(sk[s].sendbuf, t)[Len(sk[s].sendbuf) + 1] = t
    BY <1>1, AppendProperties
  <2> QED BY <1>4, <2>1 DEF QueuesClose, Last
<1>5. Quiet(sk[s], skv[s]) /\ sk'[s] \in {skv[s], SkDestroyed}
  BY DEF Outcome
<1> QED BY <1>2, <1>3, <1>4, <1>5 DEF Quiet

\* A record whose sendbuf stays as it is.
LEMMA QuietSame ==
    ASSUME NEW r \in Sk, NEW q, q.sendbuf = r.sendbuf
    PROVE  Quiet(r, q)
<1>1. Len(r.sendbuf) \in Nat
  BY LenProperties DEF Sk
<1> QED BY <1>1 DEF Quiet

\* Only the socket s changes, quietly.
LEMMA QuietUpdate ==
    ASSUME Typed, NEW s \in Sockets, NEW r, Quiet(sk[s], r)
    PROVE  \A x \in Sockets : Quiet(sk[x], [sk EXCEPT ![s] = r][x])
<1>1. SkOK(sk) /\ \A x \in Sockets : sk[x] \in Sk
  BY SocketTypes
<1>2. \A x \in Sockets : Quiet(sk[x], sk[x])
  BY <1>1, QuietSame
<1> QED BY <1>1, <1>2 DEF SkOK

\* What the functions that close or keep sockets make of them.
LEMMA Outcomes ==
    ASSUME NEW skv, SkOK(skv)
    PROVE  /\ \A s \in Sockets : \A rv : TryRecvReturn(skv, s, rv) => Outcome(skv)
           /\ \A s \in Sockets : \A wl, next :
                  Close(skv, s, wl, next) => Outcome(skv)
           /\ \A wl, next : Keep(skv, wl, next) => Outcome(skv)
           /\ Decoded(skv) => Outcome(skv)
<1>1. ASSUME NEW s \in Sockets, NEW wl, NEW next, Close(skv, s, wl, next)
      PROVE  Outcome(skv)
  BY <1>1, CloseEffect DEF Outcome
<1>2. ASSUME NEW wl, NEW next, Keep(skv, wl, next)
      PROVE  Outcome(skv)
  BY <1>2 DEF Keep, Outcome
<1>3. ASSUME NEW s \in Sockets, NEW rv, TryRecvReturn(skv, s, rv)
      PROVE  Outcome(skv)
  BY <1>1, <1>2, <1>3 DEF TryRecvReturn
<1> QED BY <1>1, <1>2, <1>3 DEF Decoded, Outcome

\* The recv functions before their frame loops.
LEMMA RecvQuiet ==
    ASSUME Inv, NEW s \in Sockets, Recv(s) \/ PP2RecvStart \/ TryRecvFreed
    PROVE  \A x \in Sockets : Closing(sk[x]) => ~QueuesClose(x)
<1>0. /\ Typed /\ SkOK(sk) /\ Backend \in Sockets /\ sk[s] \in Sk
      /\ \A x \in Sockets : Quiet(sk[x], sk[x])
  BY SocketTypes, QuietSame DEF Inv
<1>1. ASSUME NEW r, Quiet(sk[s], r), SkOK([sk EXCEPT ![s] = r]),
             NEW rv, TryRecvReturn([sk EXCEPT ![s] = r], s, rv)
      PROVE  \A x \in Sockets : Closing(sk[x]) => ~QueuesClose(x)
  <2> DEFINE skv == [sk EXCEPT ![s] = r]
  <2>1. \A x \in Sockets : Quiet(sk[x], skv[x])
    BY <1>0, <1>1, QuietUpdate
  <2>2. Outcome(skv)
    BY <1>1, Outcomes
  <2> HIDE DEF skv
  <2> QED BY <1>0, <2>1, <2>2, QuietStep
<1>2. CASE RecvNothing(s) \/ TryRecvFreed \/ HttpIncomplete(s) \/ SkOpenFails(s)
           \/ WsRecvStart(s) \/ PP2RecvStart
  <2>1. Outcome(sk)
    <3>1. CASE RecvNothing(s) \/ TryRecvFreed
      BY <3>1 DEF RecvNothing, TryRecvFreed, Exit, Undefined, Keep, Outcome
    <3>2. CASE HttpIncomplete(s) \/ SkOpenFails(s)
      BY <1>0, <3>2, Outcomes DEF HttpIncomplete, SkOpenFails
    <3>3. CASE WsRecvStart(s) \/ PP2RecvStart
      BY <3>3 DEF WsRecvStart, PP2RecvStart, Outcome
    <3> QED BY <1>2, <3>1, <3>2, <3>3
  <2> QED BY <1>0, <2>1, QuietStep
<1>3. CASE HttpUpgrade(s) \/ HttpReject(s) \/ HttpGarbled(s)
  <2>0. s \in Clients
    BY <1>0, <1>3, SocketTypes DEF HttpUpgrade, HttpReject, HttpGarbled, HttpRecv
  <2>1. CASE HttpUpgrade(s)
    <3>1. /\ SameBut(ws_decode_handshake(sk[s]), sk[s],
                     {"proto", "events", "sendbuf", "recvbuf"})
          /\ ws_decode_handshake(sk[s]).proto = "ws"
          /\ ws_decode_handshake(sk[s]).sendbuf = Append(sk[s].sendbuf, "101")
      BY <1>0, Handshake
    <3>2. Quiet(sk[s], ws_decode_handshake(sk[s]))
      BY <3>1, Constants DEF Quiet
    <3>3. SkOK([sk EXCEPT ![s] = ws_decode_handshake(sk[s])])
      BY <1>0, <2>0, <3>1, ClientUpdate
    <3> QED BY <1>1, <2>1, <3>2, <3>3 DEF HttpUpgrade
  <2>2. CASE HttpReject(s)
    <3>1. /\ SameBut(BadRequest(sk[s]), sk[s], {"events", "flags", "sendbuf", "recvbuf"})
          /\ BadRequest(sk[s]).sendbuf = Append(sk[s].sendbuf, "400")
      BY <1>0, Rejected
    <3>2. Quiet(sk[s], BadRequest(sk[s]))
      BY <3>1, Constants DEF Quiet
    <3>3. SkOK([sk EXCEPT ![s] = BadRequest(sk[s])])
      BY <1>0, <2>0, <3>1, ClientUpdate
    <3> QED BY <1>1, <2>2, <3>2, <3>3 DEF HttpReject
  <2>3. CASE HttpGarbled(s)
    <3> DEFINE r == [sk[s] EXCEPT !.recvbuf = <<>>]
    <3>1. SameBut(r, sk[s], {"recvbuf"})
      BY <1>0, Constants, RecvbufSet
    <3>2. TryRecvReturn([sk EXCEPT ![s] = r], s, "fatal")
      BY <2>3 DEF HttpGarbled
    <3> HIDE DEF r
    <3>3. Quiet(sk[s], r)
      BY <1>0, <3>1, QuietSame DEF SameBut
    <3>4. SkOK([sk EXCEPT ![s] = r])
      BY <1>0, <2>0, <3>1, ClientUpdate
    <3> QED BY <1>1, <3>2, <3>3, <3>4
  <2> QED BY <1>3, <2>1, <2>2, <2>3
<1>4. CASE SkOpen(s)
  <2> DEFINE r == SkInit("pp2")
  <2>1. Quiet(sk[Backend], r)
    <3>1. Len(sk[Backend].sendbuf) \in Nat /\ Len(r.sendbuf) = 0
      BY <1>0, LenProperties, EmptySeq DEF SkOK, Sk, SkInit
    <3> QED BY <3>1 DEF Quiet
  <2>2. Outcome([sk EXCEPT ![Backend] = r])
    BY <1>4 DEF SkOpen, Outcome
  <2> HIDE DEF r
  <2> QED BY <1>0, <2>1, <2>2, QuietUpdate, QuietStep
<1> QED BY <1>2, <1>3, <1>4 DEF Recv

\* The frame loop of ws_recv.
LEMMA WsDecodeQuiet ==
    ASSUME Inv, WsDecodeFrame
    PROVE  \A x \in Sockets : Closing(sk[x]) => ~QueuesClose(x)
<1>0. /\ Typed /\ SkOK(sk) /\ Backend \in Sockets /\ Backend \notin Clients
      /\ \A x \in Sockets : sk[x] \in Sk /\ Quiet(sk[x], sk[x])
  BY SocketTypes, QuietSame DEF Inv
<1>1. cur \in Clients /\ cur \in Sockets /\ pc = "decode"
  <2>1. pc = "decode" /\ sk[cur].proto = "ws"
    BY DEF WsDecodeFrame, WsIncomplete, WsBad, PP2Encode, PP2EncodeAgain,
           FinishClosingHandshake, WsClose, WsPing, WsPong, WsUnknown, WsDecode
  <2> QED BY <1>0, <2>1, SocketTypes DEF Typed
<1>2. ASSUME NEW r, SameBut(r, sk[cur], {"events", "flags", "sendbuf", "recvbuf"}),
             Quiet(sk[cur], r),
             Decoded([sk EXCEPT ![cur] = r]) \/ \E rv : WsReturn([sk EXCEPT ![cur] = r], rv)
      PROVE  \A x \in Sockets : Closing(sk[x]) => ~QueuesClose(x)
  <2> DEFINE skv == [sk EXCEPT ![cur] = r]
             skw == WsRecvTail(skv)
  <2>1. /\ \A x \in Sockets : Quiet(sk[x], skv[x])
        /\ SkOK(skv)
    BY <1>0, <1>1, <1>2, QuietUpdate, ClientUpdate
  <2>2. Decoded(skv) \/ \E rv : TryRecvReturn(skw, cur, rv)
    BY <1>2 DEF WsReturn
  <2> HIDE DEF skv
  <2>3. SkOK(skw) /\ \A x \in Sockets : skw[x].sendbuf = skv[x].sendbuf
    BY <1>1, <2>1, RecvTail DEF SameBut
  <2> HIDE DEF skw
  <2>4. \A x \in Sockets : Quiet(sk[x], skw[x])
    BY <2>1, <2>3 DEF Quiet
  <2>5. Outcome(skv) \/ Outcome(skw)
    BY <1>1, <2>1, <2>2, <2>3, Outcomes
  <2> QED BY <1>0, <2>1, <2>4, <2>5, QuietStep
<1>3. CASE WsIncomplete \/ WsBad
  <2>1. [sk EXCEPT ![cur] = sk[cur]] = sk
    BY <1>0, <1>1 DEF SkOK
  <2>2. SameBut(sk[cur], sk[cur], {"events", "flags", "sendbuf", "recvbuf"})
    BY <1>0, <1>1 DEF SameBut
  <2> QED BY <1>0, <1>1, <1>2, <1>3, <2>1, <2>2 DEF WsIncomplete, WsBad
<1>4. CASE PP2Encode
  <2> DEFINE r == [sk[cur] EXCEPT !.recvbuf = Tail(sk[cur].recvbuf)]
             b == [sk[Backend] EXCEPT !.sendbuf = Append(sk[Backend].sendbuf, cur)]
             skv == [sk EXCEPT ![cur] = r, ![Backend] = b]
  <2>1. Decoded(skv)
    BY <1>0, <1>1, <1>4 DEF PP2Encode, SkOK
  <2>2. /\ skv[cur].sendbuf = sk[cur].sendbuf
        /\ skv[Backend].sendbuf = Append(sk[Backend].sendbuf, cur)
        /\ \A x \in Sockets \ {cur, Backend} : skv[x] = sk[x]
    BY <1>0, <1>1 DEF SkOK, Sk
  <2>3. cur \in SentToks \ {"close"}
    BY <1>1, SocketsAssumption DEF SentToks, WsToks
  <2> HIDE DEF skv
  <2>4. Quiet(sk[cur], skv[cur])
    BY <1>0, <1>1, <2>2, QuietSame
  <2>5. Quiet(sk[Backend], skv[Backend])
    BY <2>2, <2>3 DEF Quiet
  <2>6. Outcome(skv)
    BY <2>1 DEF Decoded, Outcome
  <2> QED BY <1>0, <2>2, <2>4, <2>5, <2>6, QuietStep
<1>5. CASE PP2EncodeAgain
  <2>1. PICK rest \in {<<"raw">>, <<>>} :
           WsReturn([sk EXCEPT ![cur].recvbuf = rest \o Tail(@)], "EAGAIN")
    BY <1>5 DEF PP2EncodeAgain
  <2> DEFINE b == rest \o Tail(sk[cur].recvbuf)
             r == [sk[cur] EXCEPT !.recvbuf = b]
  <2>2. b \in Seq(RecvToks)
    BY <1>0, <1>5, WsDecodeCur, Constants, ConcatProperties DEF PP2EncodeAgain
  <2>3. WsReturn([sk EXCEPT ![cur] = r], "EAGAIN")
    BY <2>1
  <2> HIDE DEF b
  <2>4. SameBut(r, sk[cur], {"recvbuf"})
    BY <1>0, <1>1, <2>2, RecvbufSet
  <2> HIDE DEF r
  <2>5. SameBut(r, sk[cur], {"events", "flags", "sendbuf", "recvbuf"})
        /\ Quiet(sk[cur], r)
    BY <1>0, <1>1, <2>4, QuietSame DEF SameBut
  <2> QED BY <1>2, <2>3, <2>5
<1>6. CASE FinishClosingHandshake
  <2> DEFINE r == [sk[cur] EXCEPT !.recvbuf = <<>>,
                                  !.flags = (@ \ {"closing"}) \cup {"close"}]
  <2>1. SameBut(r, sk[cur], {"recvbuf", "flags"})
    BY <1>0, <1>1, Constants DEF SameBut, Sk, Flags
  <2>2. Decoded([sk EXCEPT ![cur] = r])
    BY <1>0, <1>1, <1>6 DEF FinishClosingHandshake, SkOK
  <2> HIDE DEF r
  <2>3. SameBut(r, sk[cur], {"events", "flags", "sendbuf", "recvbuf"})
        /\ Quiet(sk[cur], r)
    BY <1>0, <1>1, <2>1, QuietSame DEF SameBut
  <2> QED BY <1>2, <2>2, <2>3
<1>7. ASSUME NEW t, WsDecode(t), "closing" \notin sk[cur].flags
      PROVE  ~Closing(sk[cur])
  <2>1. sk[cur].recvbuf # <<>>
    BY <1>7 DEF WsDecode
  <2>2. ~Waiting(sk[cur])
    BY <1>1, <2>1, SockFacts DEF SockInv
  <2> QED BY <1>7, <2>2 DEF Closing, Waiting
<1>8. CASE WsClose
  <2>1. CASE Decoded([sk EXCEPT ![cur] = ReplyClose(sk[cur])])
    <3>1. SameBut(ReplyClose(sk[cur]), sk[cur], {"flags", "sendbuf", "recvbuf"})
      BY <1>0, <1>1, Replied
    <3>2. Quiet(sk[cur], ReplyClose(sk[cur]))
      BY <1>7, <1>8 DEF WsClose, Quiet
    <3>3. SameBut(ReplyClose(sk[cur]), sk[cur], {"events", "flags", "sendbuf", "recvbuf"})
      BY <3>1 DEF SameBut
    <3> QED BY <1>2, <2>1, <3>2, <3>3
  <2>2. CASE WsReturn([sk EXCEPT ![cur].recvbuf = <<>>], "fatal")
    <3> DEFINE r == [sk[cur] EXCEPT !.recvbuf = <<>>]
    <3>1. WsReturn([sk EXCEPT ![cur] = r], "fatal")
      BY <2>2
    <3>2. SameBut(r, sk[cur], {"recvbuf"})
      BY <1>0, <1>1, Constants, RecvbufSet
    <3> HIDE DEF r
    <3>3. SameBut(r, sk[cur], {"events", "flags", "sendbuf", "recvbuf"})
          /\ Quiet(sk[cur], r)
      BY <1>0, <1>1, <3>2, QuietSame DEF SameBut
    <3> QED BY <1>2, <3>1, <3>3
  <2> QED BY <1>8, <2>1, <2>2 DEF WsClose
<1>9. ASSUME NEW t \in WsToks, WsPing(t) \/ WsPong(t) \/ WsUnknown(t)
      PROVE  \A x \in Sockets : Closing(sk[x]) => ~QueuesClose(x)
  <2> DEFINE r == Consume(sk[cur], t)
  <2>1. sk[cur].recvbuf # <<>>
    BY <1>9 DEF WsPing, WsPong, WsUnknown, WsDecode
  <2>2. SameBut(r, sk[cur], {"recvbuf"}) /\ r \in Sk
    BY <1>0, <1>1, <2>1, Consumed DEF SameBut
  <2>3. \/ Exit
        \/ Decoded([sk EXCEPT ![cur] = ws_pong(r)])
        \/ /\ ~Closing(sk[cur])
           /\ Decoded([sk EXCEPT ![cur] = ws_start_closing_handshake(r)])
        \/ Decoded([sk EXCEPT ![cur] = r])
        \/ WsReturn([sk EXCEPT ![cur] = r], "fatal")
    BY <1>7, <1>9 DEF WsPing, WsPong, WsUnknown
  <2> HIDE DEF r
  <2>4. CASE Exit
    <3>1. Outcome(sk)
      BY <2>4 DEF Exit, Keep, Outcome
    <3> QED BY <1>0, <3>1, QuietStep
  <2>5. CASE Decoded([sk EXCEPT ![cur] = ws_pong(r)])
    <3>1. /\ SameBut(ws_pong(r), r, {"events", "sendbuf"})
          /\ ws_pong(r).sendbuf = Append(r.sendbuf, "pong")
      BY <2>2, Queued, Constants DEF ws_pong
    <3>2. SameBut(ws_pong(r), sk[cur], {"events", "flags", "sendbuf", "recvbuf"})
      BY <2>2, <3>1 DEF SameBut
    <3>3. Quiet(sk[cur], ws_pong(r))
      BY <2>2, <3>1, Constants DEF Quiet, SameBut
    <3> QED BY <1>2, <2>5, <3>2, <3>3
  <2>6. CASE /\ ~Closing(sk[cur])
             /\ Decoded([sk EXCEPT ![cur] = ws_start_closing_handshake(r)])
    <3>1. SameBut(ws_start_closing_handshake(r), r, {"events", "flags", "sendbuf"})
      BY <2>2, ClosingStarted
    <3>2. SameBut(ws_start_closing_handshake(r), sk[cur],
                  {"events", "flags", "sendbuf", "recvbuf"})
      BY <2>2, <3>1 DEF SameBut
    <3>3. Quiet(sk[cur], ws_start_closing_handshake(r))
      BY <2>6 DEF Quiet
    <3> QED BY <1>2, <2>6, <3>2, <3>3
  <2>7. CASE Decoded([sk EXCEPT ![cur] = r]) \/ WsReturn([sk EXCEPT ![cur] = r], "fatal")
    <3>1. SameBut(r, sk[cur], {"events", "flags", "sendbuf", "recvbuf"})
          /\ Quiet(sk[cur], r)
      BY <1>0, <1>1, <2>2, QuietSame DEF SameBut
    <3> QED BY <1>2, <2>7, <3>1
  <2> QED BY <2>3, <2>4, <2>5, <2>6, <2>7
<1> QED BY <1>3, <1>4, <1>5, <1>6, <1>8, <1>9 DEF WsDecodeFrame

\* The frame loop of pp2_recv.
LEMMA PP2DecodeQuiet ==
    ASSUME Inv, PP2DecodeFrame
    PROVE  \A x \in Sockets : Closing(sk[x]) => ~QueuesClose(x)
<1>0. /\ Typed /\ SkOK(sk) /\ Backend \in Sockets /\ Backend \notin Clients
      /\ \A x \in Sockets : sk[x] \in Sk /\ Quiet(sk[x], sk[x])
  BY SocketTypes, QuietSame DEF Inv
<1>1. CASE PP2Incomplete \/ PP2Again \/ PP2Garbled
  <2>1. Outcome(sk)
    BY <1>0, <1>1, Outcomes DEF PP2Incomplete, PP2Again, PP2Garbled, PP2Return
  <2> QED BY <1>0, <2>1, QuietStep
<1>2. ASSUME NEW d \in Clients, PP2Drop(d) \/ PP2Forward(d)
      PROVE  \A x \in Sockets : Closing(sk[x]) => ~QueuesClose(x)
  <2> DEFINE rest == Tail(sk[Backend].recvbuf)
             b == [sk[Backend] EXCEPT !.recvbuf = rest]
             g == [sk[Backend] EXCEPT !.recvbuf = <<"raw">> \o rest]
             q == ws_encode_frame(sk[d], sk[Backend])
             skb == [sk EXCEPT ![Backend] = b]
             skg == [sk EXCEPT ![Backend] = g]
             skq == [sk EXCEPT ![Backend] = b, ![d] = q]
  <2>0. d # Backend /\ d \in Sockets /\ sk[Backend].recvbuf # <<>>
    BY <1>0, <1>2, SocketTypes DEF PP2Drop, PP2Forward, PP2Message
  <2>1. Undefined \/ PP2Return(skg, "EAGAIN") \/ Decoded(skb) \/ Decoded(skq)
    BY <1>0, <1>2, <2>0 DEF PP2Drop, PP2Forward, SkOK
  <2>2. rest \in Seq(RecvToks) /\ <<"raw">> \o rest \in Seq(RecvToks)
    BY <1>0, <2>0, HeadTailProperties, ConcatProperties, Constants DEF Sk
  <2>3. SameBut(b, sk[Backend], {"recvbuf"}) /\ SameBut(g, sk[Backend], {"recvbuf"})
    BY <1>0, <2>2, RecvbufSet
  <2>4. q.sendbuf = Append(sk[d].sendbuf, "data")
    <3>1. SameBut(Queue(sk[d], "data"), sk[d], {"events", "sendbuf"})
          /\ Queue(sk[d], "data").sendbuf = Append(sk[d].sendbuf, "data")
      BY <1>0, <2>0, Queued, Constants
    <3>2. SameBut(turn_on_events(Queue(sk[d], "data"), {"IN"}), Queue(sk[d], "data"),
                  {"events"})
      BY <3>1, TurnOn, Constants DEF SameBut
    <3> QED BY <3>1, <3>2 DEF SameBut, ws_encode_frame
  <2> HIDE DEF rest, b, g, q
  <2>5. /\ SkOK(skg)
        /\ \A x \in Sockets : Quiet(sk[x], skb[x]) /\ Quiet(sk[x], skg[x])
    <3>1. Quiet(sk[Backend], b) /\ Quiet(sk[Backend], g)
      BY <1>0, <2>3, QuietSame DEF SameBut
    <3> QED BY <1>0, <2>3, <3>1, QuietUpdate, SkUpdate DEF SkOK, SameBut
  <2>6. \A x \in Sockets : Quiet(sk[x], skq[x])
    <3>1. skq[d] = q /\ \A x \in Sockets \ {d} : skq[x] = skb[x]
      BY <1>0, <2>0 DEF SkOK
    <3>2. Quiet(sk[d], q)
      BY <2>4, Constants DEF Quiet
    <3> QED BY <2>5, <3>1, <3>2
  <2>7. Outcome(sk) \/ Outcome(skg) \/ Outcome(skb) \/ Outcome(skq)
    <3>1. CASE Undefined
      BY <3>1 DEF Undefined, Keep, Outcome
    <3>2. CASE PP2Return(skg, "EAGAIN")
      BY <1>0, <2>5, <3>2, Outcomes DEF PP2Return
    <3>3. CASE Decoded(skb)
      BY <3>3 DEF Decoded, Outcome
    <3>4. CASE Decoded(skq)
      BY <3>4 DEF Decoded, Outcome
    <3> QED BY <2>1, <3>1, <3>2, <3>3, <3>4
  <2> HIDE DEF skb, skg, skq
  <2> QED BY <1>0, <2>5, <2>6, <2>7, QuietStep
<1> QED BY <1>1, <1>2 DEF PP2DecodeFrame

\* The timeouts, the events and the end of the daemon.
LEMMA HandlerQuiet ==
    ASSUME Inv, NEW s \in Sockets, Timeouts(s) \/ Event(s) \/ Shutdown(s)
    PROVE  \A x \in Sockets : Closing(sk[x]) => ~QueuesClose(x)
<1>0. /\ Typed /\ SkOK(sk) /\ sk[s] \in Sk /\ [sk EXCEPT ![s] = sk[s]] = sk
      /\ \A x \in Sockets : sk[x] \in Sk /\ Quiet(sk[x], sk[x])
  BY SocketTypes, QuietSame DEF Inv, SkOK
<1>1. ASSUME Outcome(sk)
      PROVE  \A x \in Sockets : Closing(sk[x]) => ~QueuesClose(x)
  BY <1>0, <1>1, QuietStep
<1>2. ASSUME NEW next, Close(sk, s, work_list, next) \/ Keep(sk, work_list, next)
      PROVE  \A x \in Sockets : Closing(sk[x]) => ~QueuesClose(x)
  BY <1>0, <1>1, <1>2, Outcomes
<1>3. ASSUME NEW r, Quiet(sk[s], r), sk' = [sk EXCEPT ![s] = r]
      PROVE  \A x \in Sockets : Closing(sk[x]) => ~QueuesClose(x)
  <2> DEFINE skv == [sk EXCEPT ![s] = r]
  <2>1. \A x \in Sockets : Quiet(sk[x], skv[x])
    BY <1>0, <1>3, QuietUpdate
  <2>2. Outcome(skv)
    BY <1>3 DEF Outcome
  <2> HIDE DEF skv
  <2> QED BY <1>0, <2>1, <2>2, QuietStep
<1>4. CASE IdleTimedOut(s)
  <2>1. ~Closing(sk[s])
    BY <1>4 DEF IdleTimedOut, check_timeout, Closing
  <2>2. CASE Close(sk, s, work_list, "check_timeouts")
    BY <1>2, <2>2
  <2>3. CASE ~Close(sk, s, work_list, "check_timeouts")
    <3> DEFINE r == Flag(ws_start_closing_handshake(sk[s]), {"ts_closing_handshake_start"})
    <3>1. sk' = [sk EXCEPT ![s] = r]
      BY <1>4, <2>3 DEF IdleTimedOut, Keep
    <3> HIDE DEF r
    <3> QED BY <1>3, <2>1, <3>1 DEF Quiet
  <2> QED BY <2>2, <2>3
<1>5. CASE Ping(s)
  <2>1. Keep(sk, work_list, "ub") \/ Keep(sk, work_list, "check_timeouts")
        \/ sk' = [sk EXCEPT ![s] = ws_ping(sk[s])]
    BY <1>5 DEF Ping, Undefined, Keep
  <2>2. ws_ping(sk[s]).sendbuf = Append(sk[s].sendbuf, "ping")
    BY <1>0, Queued, Constants DEF ws_ping
  <2>3. Quiet(sk[s], ws_ping(sk[s]))
    BY <2>2, Constants DEF Quiet
  <2> QED BY <1>2, <1>3, <2>1, <2>3
<1>6. CASE ClosingTimedOut(s) \/ NoTimeout(s) \/ Shutdown(s)
           \/ OnWriteFails(s) \/ OnHup(s) \/ NotWritable(s)
  <2>1. \E next : Close(sk, s, work_list, next) \/ Keep(sk, work_list, next)
    BY <1>6 DEF ClosingTimedOut, NoTimeout, Shutdown, OnWriteFails, OnHup, NotWritable, Exit
  <2> QED BY <1>2, <2>1
<1>7. ASSUME NEW r \in Sk, r.sendbuf = sk[s].sendbuf
      PROVE  Quiet(sk[s], ts_last_io_set(r)) /\ ts_last_io_set(r) \in Sk
             /\ ts_last_io_set(r).sendbuf = sk[s].sendbuf
  <2>1. SameBut(ts_last_io_set(r), r, {"flags"})
    BY FlagSet, Constants DEF ts_last_io_set
  <2> QED BY <1>0, <1>7, <2>1, QuietSame DEF SameBut
<1>8. CASE OnReadFull(s)
  <2> DEFINE r == turn_off_events(sk[s], {"IN"})
  <2>1. SameBut(r, sk[s], {"events"})
    BY <1>0, TurnOff, Constants
  <2>2. sk' = [sk EXCEPT ![s] = ts_last_io_set(r)]
    BY <1>8 DEF OnReadFull, post_read
  <2> HIDE DEF r
  <2> QED BY <1>3, <1>7, <2>1, <2>2 DEF SameBut
<1>9. CASE OnReadData(s)
  <2> DEFINE room == RecvCap - Len(sk[s].recvbuf)
             k == IF Len(net[s]) < room THEN Len(net[s]) ELSE room
             q == Join(sk[s].recvbuf, SubSeq(net[s], 1, k))
             r == [sk[s] EXCEPT !.recvbuf = q]
  <2>1. /\ net[s] \in Seq(RecvToks) /\ sk[s].recvbuf \in Seq(RecvToks)
        /\ Len(sk[s].recvbuf) \in Nat /\ Len(net[s]) \in Nat /\ RecvCap \in Nat
    BY <1>0, TypedParts, LenProperties, CapsAssumption DEF Inv, ListsOK, Sk
  <2>2. k \in 0 .. Len(net[s])
    BY <1>9, <2>1 DEF OnReadData
  <2>3. sk' = [sk EXCEPT ![s] = ts_last_io_set(r)]
    BY <1>9 DEF OnReadData, post_read, sk_read
  <2> HIDE DEF k
  <2>4. q \in Seq(RecvToks)
    BY <2>1, <2>2, Segments, JoinType
  <2> HIDE DEF q
  <2>5. SameBut(r, sk[s], {"recvbuf"})
    BY <1>0, <2>4, RecvbufSet
  <2> HIDE DEF r
  <2> QED BY <1>3, <1>7, <2>3, <2>5 DEF SameBut
<1>10. CASE OnReadEnd(s)
  <2> DEFINE r == ts_last_io_set(sk[s])
             t == [r EXCEPT !.retries = r.retries + 1]
  <2>1. \/ Keep(sk, work_list, "exit")
        \/ Close(sk, s, work_list, "events")
        \/ sk' = [sk EXCEPT ![s] = t]
    BY <1>10 DEF OnReadEnd, Exit
  <2>2. r \in Sk /\ r.sendbuf = sk[s].sendbuf
    BY <1>0, <1>7
  <2> HIDE DEF r
  <2>3. t.sendbuf = sk[s].sendbuf
    BY <2>2 DEF Sk
  <2> HIDE DEF t
  <2>4. Quiet(sk[s], t)
    BY <1>0, <2>3, QuietSame
  <2> QED BY <1>2, <1>3, <2>1, <2>4
<1>11. CASE OnWrite(s)
  <2>1. PICK k \in 0 .. Len(sk[s].sendbuf) : Written(s, k)
    BY <1>11 DEF OnWrite
  <2> DEFINE r == ts_last_io_set(sk_write(sk[s], k))
  <2>2. Len(r.sendbuf) <= Len(sk[s].sendbuf)
    BY <1>0, <2>1, WrittenType, Sent
  <2>3. Close(sk, s, work_list, "events") \/ sk' = [sk EXCEPT ![s] = r]
    BY <2>1 DEF Written, Keep
  <2> HIDE DEF r
  <2>4. Quiet(sk[s], r)
    BY <2>2 DEF Quiet
  <2> QED BY <1>2, <1>3, <2>3, <2>4
<1> QED BY <1>4, <1>5, <1>6, <1>8, <1>9, <1>10, <1>11 DEF Timeouts, Event

\* No step queues a close frame on a socket that is being closed.
LEMMA StepQuiet ==
    Inv /\ [Next]_vars => [\A s \in Sockets : Closing(sk[s]) => ~QueuesClose(s)]_vars
<1> SUFFICES ASSUME Inv, Next
             PROVE  (\A s \in Sockets : Closing(sk[s]) => ~QueuesClose(s)) \/ UNCHANGED vars
  OBVIOUS
<1>0. Typed /\ SkOK(sk) /\ \A x \in Sockets : sk[x] \in Sk /\ Quiet(sk[x], sk[x])
  BY SocketTypes, QuietSame DEF Inv
<1>1. ASSUME UNCHANGED sk
      PROVE  \A s \in Sockets : Closing(sk[s]) => ~QueuesClose(s)
  <2>1. Outcome(sk)
    BY <1>1 DEF Outcome
  <2> QED BY <1>0, <2>1, QuietStep
<1>2. CASE Gone
  BY <1>2 DEF Gone
<1>3. CASE Loop \/ Environment
  BY <1>1, <1>3 DEF Loop, Iterate, Sigterm, TryRecvDone, TimeoutsDone, EventsDone,
                    ShutdownDone, epoll_wait, Goto, Environment, Connect, ClientSend,
                    BackendSend, PeerClose, BackendConnect, Arrive, daemon
<1>4. ASSUME NEW c \in Clients, sk_accept(c)
      PROVE  \A s \in Sockets : Closing(sk[s]) => ~QueuesClose(s)
  <2>1. CASE Exit
    BY <1>1, <2>1 DEF Exit, Keep
  <2>2. CASE sk' = [sk EXCEPT ![c] = SkInit("http")]
    <3> DEFINE r == SkInit("http")
    <3>1. c \in Sockets
      BY DEF Sockets
    <3>2. Len(sk[c].sendbuf) \in Nat /\ Len(r.sendbuf) = 0
      BY <1>0, <3>1, LenProperties, EmptySeq DEF Sk, SkInit
    <3>3. Quiet(sk[c], r)
      BY <3>2 DEF Quiet
    <3>4. Outcome([sk EXCEPT ![c] = r])
      BY <2>2 DEF Outcome
    <3> HIDE DEF r
    <3> QED BY <1>0, <3>1, <3>3, <3>4, QuietUpdate, QuietStep
  <2> QED BY <1>4, <2>1, <2>2 DEF sk_accept
<1>5. CASE WsDecodeFrame \/ PP2DecodeFrame
  BY <1>5, WsDecodeQuiet, PP2DecodeQuiet
<1>6. ASSUME NEW s \in Sockets, Recv(s) \/ PP2RecvStart \/ TryRecvFreed
      PROVE  \A x \in Sockets : Closing(sk[x]) => ~QueuesClose(x)
  BY <1>6, RecvQuiet
<1>7. ASSUME NEW s \in Sockets, Timeouts(s) \/ Event(s) \/ Shutdown(s)
      PROVE  \A x \in Sockets : Closing(sk[x]) => ~QueuesClose(x)
  BY <1>7, HandlerQuiet
<1>8. Backend \in Sockets
  BY DEF Sockets
<1> QED BY <1>2, <1>3, <1>4, <1>5, <1>6, <1>7, <1>8 DEF Next, Daemon

\* At most one close frame per connection, whichever of the idle timeout, an
\* unknown opcode and the peer's close frame comes first: ws_decode_frame never
\* gets to decode on a socket that waits to be closed, and what else queues a
\* close frame looks at the flags.
THEOREM OneCloseFrameProved == Spec => OneCloseFrame
<1>1. [\A s \in Sockets : Closing(sk[s]) => ~QueuesClose(s)]_vars
      => [\A s \in Sockets :
            sk[s].flags \cap {"closing", "close", "close_on_write"} # {}
            => ~QueuesClose(s)]_vars
  BY DEF Closing
<1> QED BY <1>1, StepQuiet, Invariance, PTL DEF Spec, OneCloseFrame

=============================================================================
