------------------------- MODULE WschildRefinement -------------------------
(***************************************************************************)
(* The daemon implements the multiplexer of Mux, for any number of clients *)
(* and any size of the buffers, and ends only by the causes CrashCauses    *)
(* lists.                                                                  *)
(***************************************************************************)
EXTENDS WschildMux, WschildSafety, FiniteSetTheorems

\* A client's socket exists only once it has been accepted.  Before the
\* handshake nothing is queued for it but a 400, and no handshake closes it.
SessionInv(r, p) ==
    /\ p \in {"none", "syn"} => r.proto = "free"
    /\ r.proto = "http" => "closing" \notin r.flags
    /\ r.proto = "http" /\ ~Closing(r) => r.sendbuf = <<>>

Sessions == \A c \in Clients : SessionInv(sk[c], peer[c])

\* What the backend sends is for clients it has heard of, all the way from the
\* net through recvbuf.
Heard == /\ sk[Backend].recvbuf \in Seq(known \cup Partial \cup {"raw"})
         /\ net[Backend] \in Seq(known \cup Partial \cup {"raw"})

\* A batch of events and a walk over sk_list visit clients that exist.
ListsOpen == pc \in {"events", "check_timeouts", "shutdown"} =>
                \A c \in Clients \cap todo : sk[c].proto # "free"

\* Clients whose messages have been queued for the backend have been upgraded.
Spoken == \A c \in Clients :
             c \in known \/ (\E i \in 1 .. Len(sk[Backend].sendbuf) :
                                sk[Backend].sendbuf[i] = c)
             => phase[c] \in {"ws", "over"}

MuxInv == Inv /\ Sessions /\ Heard /\ ListsOpen /\ Spoken

\* The step is one of the multiplexer, or none.
Simulated == Abstract!Next \/ UNCHANGED Abstract!vars

-----------------------------------------------------------------------------
(* Steps as the multiplexer sees them                                      *)

\* The multiplexer sees no difference between a client's records q and r.
Alike(q, r) ==
    /\ q.proto = r.proto
    /\ q.sendbuf = r.sendbuf
    /\ Closing(q) <=> Closing(r)
    /\ "closing" \in q.flags => "closing" \in r.flags \/ r.proto # "http"

\* Nor between the peers p and q of a record r.
PeersAlike(p, q, r) ==
    /\ r.proto = "free" => (p = "gone" <=> q = "gone")
    /\ p \in {"none", "syn"} => q \in {"none", "syn"}

\* What a client's session looks like, before and after a step.
LEMMA Views ==
    ASSUME NEW c \in Clients
    PROVE  /\ phase[c] = IF sk[c].proto # "free" THEN sk[c].proto
                         ELSE IF peer[c] = "gone" THEN "over" ELSE "idle"
           /\ phase'[c] = IF sk'[c].proto # "free" THEN sk'[c].proto
                          ELSE IF peer'[c] = "gone" THEN "over" ELSE "idle"
           /\ c \in leaving <=> Closing(sk[c])
           /\ c \in leaving' <=> Closing(sk'[c])
           /\ out[c] = sk[c].sendbuf
           /\ out'[c] = sk'[c].sendbuf
  BY DEF phase, leaving, out, Open, Closing

\* The domains of the multiplexer's functions.
LEMMA ViewTypes ==
    /\ phase = [c \in Clients |-> phase[c]] /\ phase' = [c \in Clients |-> phase'[c]]
    /\ out = [c \in Clients |-> out[c]] /\ out' = [c \in Clients |-> out'[c]]
    /\ leaving \subseteq Clients /\ leaving' \subseteq Clients
  BY DEF phase, leaving, out

\* Clients the step does not touch keep their sessions.
LEMMA SessionKept ==
    ASSUME Sessions, NEW c \in Clients, Alike(sk'[c], sk[c]),
           PeersAlike(peer'[c], peer[c], sk[c])
    PROVE  /\ SessionInv(sk'[c], peer'[c])
           /\ phase'[c] = phase[c]
           /\ c \in leaving' <=> c \in leaving
           /\ out'[c] = out[c]
  BY Views DEF Sessions, SessionInv, Alike, PeersAlike

\* A step that changes the session of the client c only.
LEMMA OneSession ==
    ASSUME Sessions, NEW c \in Clients,
           \A x \in Clients \ {c} : /\ Alike(sk'[x], sk[x])
                                    /\ PeersAlike(peer'[x], peer[x], sk[x])
    PROVE  /\ \A x \in Clients \ {c} : SessionInv(sk'[x], peer'[x])
           /\ phase' = [phase EXCEPT ![c] = phase'[c]]
           /\ leaving' = IF Closing(sk'[c]) THEN leaving \cup {c} ELSE leaving \ {c}
           /\ out' = [out EXCEPT ![c] = sk'[c].sendbuf]
<1>1. \A x \in Clients \ {c} : /\ SessionInv(sk'[x], peer'[x])
                               /\ phase'[x] = phase[x]
                               /\ x \in leaving' <=> x \in leaving
                               /\ out'[x] = out[x]
  BY SessionKept
<1>2. phase' = [phase EXCEPT ![c] = phase'[c]]
  BY <1>1, ViewTypes
<1>3. leaving' = IF Closing(sk'[c]) THEN leaving \cup {c} ELSE leaving \ {c}
  BY <1>1, Views, ViewTypes
<1>4. out' = [out EXCEPT ![c] = sk'[c].sendbuf]
  BY <1>1, Views, ViewTypes
<1> QED BY <1>1, <1>2, <1>3, <1>4

\* A step that changes no session.
LEMMA NoSession ==
    ASSUME Sessions,
           \A x \in Clients : /\ Alike(sk'[x], sk[x])
                              /\ PeersAlike(peer'[x], peer[x], sk[x])
    PROVE  Sessions' /\ UNCHANGED <<phase, leaving, out>>
<1>1. \A x \in Clients : /\ SessionInv(sk'[x], peer'[x])
                         /\ phase'[x] = phase[x]
                         /\ x \in leaving' <=> x \in leaving
                         /\ out'[x] = out[x]
  BY SessionKept
<1>2. Sessions'
  BY <1>1 DEF Sessions
<1>3. phase' = phase /\ out' = out
  BY <1>1, ViewTypes
<1>4. leaving' = leaving
  BY <1>1, ViewTypes
<1> QED BY <1>2, <1>3, <1>4

\* A step the multiplexer does not notice.
LEMMA Stutters ==
    ASSUME Sessions, known' = known, sk'[Backend].sendbuf = sk[Backend].sendbuf,
           \A x \in Clients : /\ Alike(sk'[x], sk[x])
                              /\ PeersAlike(peer'[x], peer[x], sk[x])
    PROVE  Sessions' /\ Simulated
  BY NoSession DEF Simulated, Abstract!vars

\* ops->close on a socket that exists, which left the others alike.
LEMMA Ended ==
    ASSUME MuxInv, NEW skv, SkOK(skv), NEW s \in Sockets, sk[s].proto # "free",
           NEW wl, NEW next, Close(skv, s, wl, next), known' = known,
           \A x \in Sockets \ {s} : Alike(skv[x], sk[x])
    PROVE  Sessions' /\ Simulated
<1>0. /\ Typed /\ SkOK(sk) /\ Clients \subseteq Sockets /\ Backend \in Sockets
      /\ Backend \notin Clients /\ Sessions /\ peer \in [Sockets -> Peers]
  BY SocketTypes, TypedParts DEF MuxInv, Inv, ListsOK
<1>1. /\ sk'[s] = SkDestroyed
      /\ \A x \in Sockets \ {s} : Alike(sk'[x], sk[x])
  BY CloseEffect
<1>2. /\ peer' = [peer EXCEPT ![s] = IF s = Backend THEN "none" ELSE "gone"]
  BY DEF Close, pp2_close, sk_close
<1>3. \A x \in Sockets \ {s} : PeersAlike(peer'[x], peer[x], sk[x])
  BY <1>0, <1>2 DEF PeersAlike
<1>4. CASE s = Backend
  <2>1. sk'[Backend].sendbuf = <<>>
    BY <1>1, <1>4 DEF SkDestroyed
  <2>2. Sessions' /\ UNCHANGED <<phase, leaving, out>>
    BY <1>0, <1>1, <1>3, <1>4, NoSession
  <2> QED BY <2>1, <2>2 DEF Simulated, Abstract!Next, Abstract!LoseBackend
<1>5. CASE s # Backend
  <2>0. s \in Clients /\ peer'[s] = "gone"
    BY <1>0, <1>2, <1>5 DEF Sockets
  <2>1. sk'[s].proto = "free" /\ sk'[s].sendbuf = <<>> /\ ~Closing(sk'[s])
    BY <1>1 DEF SkDestroyed, Closing
  <2>2. /\ \A x \in Clients \ {s} : SessionInv(sk'[x], peer'[x])
        /\ phase' = [phase EXCEPT ![s] = phase'[s]]
        /\ leaving' = IF Closing(sk'[s]) THEN leaving \cup {s} ELSE leaving \ {s}
        /\ out' = [out EXCEPT ![s] = sk'[s].sendbuf]
    BY <1>0, <1>1, <1>3, <2>0, OneSession
  <2>3. Sessions'
    BY <2>0, <2>1, <2>2 DEF Sessions, SessionInv
  <2>4. phase'[s] = "over" /\ phase[s] \in {"http", "ws"}
    <3>1. sk[s].proto \in {"http", "ws"}
      BY <1>0, <2>0 DEF SkOK, Sk, Protos
    <3> QED BY <2>0, <2>1, <3>1, Views
  <2>5. sk'[Backend].sendbuf = sk[Backend].sendbuf
    BY <1>0, <1>1, <1>5 DEF Alike
  <2>6. Abstract!End(s)
    BY <2>1, <2>2, <2>4, <2>5 DEF Abstract!End
  <2> QED BY <2>0, <2>3, <2>6 DEF Simulated, Abstract!Next
<1> QED BY <1>4, <1>5

\* A record is like itself, and a peer, too.
LEMMA AlikeSame ==
    /\ \A r : Alike(r, r)
    /\ \A p, r : PeersAlike(p, p, r)
  BY DEF Alike, PeersAlike

\* Records that differ in events, retries and recvbuf only.
LEMMA AlikeBut ==
    ASSUME NEW r, NEW q, SameBut(q, r, {"events", "retries", "recvbuf"})
    PROVE  Alike(q, r)
  BY DEF Alike, SameBut, Closing

\* ts_last_io and ts_closing_handshake_start do not tell a session.
LEMMA AlikeStamp ==
    ASSUME NEW r \in Sk, NEW q, SameBut(q, r, {"events", "flags", "retries", "recvbuf"}),
           NEW e \in SUBSET {"ts_last_io", "ts_closing_handshake_start"},
           q.flags = r.flags \cup e
    PROVE  Alike(q, r)
  BY DEF Alike, SameBut, Closing

\* A step that leaves the sockets at skv, peers and net alone.
Leaves(skv) == sk' = skv /\ UNCHANGED <<peer, net, known>>

\* The step queues f for the client c, whose record becomes r.
LEMMA QueuedFor ==
    ASSUME MuxInv, NEW c \in Clients, NEW r, NEW skv,
           Leaves(skv), skv[c] = r, skv[Backend].sendbuf = sk[Backend].sendbuf,
           \A x \in Clients \ {c} : Alike(skv[x], sk[x]),
           NEW f, r.sendbuf = Append(sk[c].sendbuf, f), Fits(sk[c]),
           \/ /\ sk[c].proto = "http" /\ ~Closing(sk[c])
              /\ r.proto = "ws" /\ ~Closing(r) /\ f = "101"
           \/ /\ sk[c].proto = "http" /\ ~Closing(sk[c])
              /\ r.proto = "http" /\ Closing(r) /\ "closing" \notin r.flags
              /\ f = "400"
           \/ /\ sk[c].proto = "ws" /\ r.proto = "ws" /\ ~Closing(sk[c])
              /\ \/ ~Closing(r) /\ f \in {"ping", "pong"}
                 \/ Closing(r) /\ f = "close"
           \/ /\ sk[c].proto = "ws" /\ r.proto = "ws" /\ (Closing(r) <=> Closing(sk[c]))
              /\ f = "data" /\ c \in known
    PROVE  Sessions' /\ Simulated
<1>0. Sessions /\ SessionInv(sk[c], peer[c]) /\ sk'[c] = r
  BY DEF MuxInv, Sessions, Leaves
<1>1. \A x \in Clients \ {c} : /\ Alike(sk'[x], sk[x])
                               /\ PeersAlike(peer'[x], peer[x], sk[x])
  BY AlikeSame DEF Leaves
<1>2. /\ \A x \in Clients \ {c} : SessionInv(sk'[x], peer'[x])
      /\ phase' = [phase EXCEPT ![c] = phase'[c]]
      /\ leaving' = IF Closing(r) THEN leaving \cup {c} ELSE leaving \ {c}
      /\ out' = [out EXCEPT ![c] = r.sendbuf]
  BY <1>0, <1>1, OneSession
<1>3. Sessions'
  <2>1. peer[c] \notin {"none", "syn"}
    BY <1>0 DEF SessionInv
  <2>2. SessionInv(sk'[c], peer'[c])
    BY <1>0, <2>1 DEF SessionInv, Leaves
  <2> QED BY <1>2, <2>2 DEF Sessions
<1>4. /\ phase[c] = sk[c].proto /\ phase'[c] = r.proto
      /\ out[c] = sk[c].sendbuf /\ (c \in leaving <=> Closing(sk[c]))
  BY <1>0, Views
<1>5. /\ sk'[Backend].sendbuf = sk[Backend].sendbuf /\ known' = known
      /\ phase = [x \in Clients |-> phase[x]]
      /\ leaving \subseteq Clients
  BY ViewTypes DEF Leaves
<1>6. Abstract!Push(c, f)
  BY <1>2, <1>4, ViewTypes DEF Abstract!Push, Fits
<1>7. CASE f = "101" /\ sk[c].proto = "http"
  <2>1. out[c] = <<>> /\ c \notin leaving /\ leaving' = leaving /\ phase'[c] = "ws"
    BY <1>0, <1>2, <1>4, <1>7 DEF SessionInv
  <2>2. Abstract!Upgrade(c)
    BY <1>2, <1>4, <1>5, <1>6, <1>7, <2>1 DEF Abstract!Upgrade
  <2> QED BY <1>3, <2>2 DEF Simulated, Abstract!Next
<1>8. CASE f = "400" /\ sk[c].proto = "http"
  <2>1. out[c] = <<>> /\ c \notin leaving /\ leaving' = leaving \cup {c}
    BY <1>0, <1>2, <1>4, <1>8 DEF SessionInv
  <2>2. phase' = phase
    BY <1>2, <1>4, <1>5, <1>8
  <2>3. Abstract!Reject(c)
    BY <1>4, <1>5, <1>6, <1>8, <2>1, <2>2 DEF Abstract!Reject
  <2> QED BY <1>3, <2>3 DEF Simulated, Abstract!Next
<1>9. CASE /\ sk[c].proto = "ws" /\ r.proto = "ws" /\ ~Closing(sk[c])
           /\ f \in {"ping", "pong", "close"}
  <2>1. phase' = phase
    BY <1>2, <1>4, <1>5, <1>9
  <2>2. leaving' = IF f = "close" THEN leaving \cup {c} ELSE leaving
    BY <1>2, <1>4, <1>9
  <2>3. Abstract!Control(c)
    BY <1>4, <1>5, <1>6, <1>9, <2>1, <2>2 DEF Abstract!Control
  <2> QED BY <1>3, <2>3 DEF Simulated, Abstract!Next
<1>10. CASE sk[c].proto = "ws" /\ r.proto = "ws" /\ f = "data"
  <2>1. phase' = phase /\ leaving' = leaving /\ c \in known
    BY <1>2, <1>4, <1>5, <1>10
  <2>2. Abstract!Down(c)
    BY <1>4, <1>5, <1>6, <1>10, <2>1 DEF Abstract!Down
  <2> QED BY <1>3, <2>2 DEF Simulated, Abstract!Next
<1> QED BY <1>7, <1>8, <1>9, <1>10

\* What the invariant says of the types.
LEMMA MuxFacts ==
    ASSUME MuxInv
    PROVE  /\ Inv /\ Typed /\ Sessions /\ SkOK(sk)
           /\ Clients \subseteq Sockets /\ Backend \in Sockets /\ Backend \notin Clients
           /\ \A x \in Sockets : sk[x] \in Sk /\ Alike(sk[x], sk[x])
           /\ \A x \in Sockets : [sk EXCEPT ![x] = sk[x]] = sk
           /\ \A x \in Sockets : sk[x].proto \in {"http", "ws"} => x \in Clients
           /\ peer \in [Sockets -> Peers]
<1>1. Inv /\ Typed /\ Sessions /\ peer \in [Sockets -> Peers]
  BY TypedParts DEF MuxInv, Inv, ListsOK
<1>2. /\ SkOK(sk) /\ Clients \subseteq Sockets /\ Backend \in Sockets
      /\ Backend \notin Clients /\ \A x \in Sockets : sk[x] \in Sk
      /\ \A x \in Sockets : sk[x].proto \in {"http", "ws"} => x \in Clients
  BY <1>1, SocketTypes
<1>3. \A x \in Sockets : [sk EXCEPT ![x] = sk[x]] = sk
  BY <1>2 DEF SkOK
<1> QED BY <1>1, <1>2, <1>3, AlikeSame

\* Only the socket s changes, and nobody notices.
LEMMA AlikeUpdate ==
    ASSUME MuxInv, NEW s \in Sockets, NEW r, Alike(r, sk[s])
    PROVE  \A x \in Sockets : Alike([sk EXCEPT ![s] = r][x], sk[x])
  BY MuxFacts DEF SkOK

\* A step after which the sockets are alike.
LEMMA LeavesAlike ==
    ASSUME MuxInv, NEW skv, Leaves(skv), \A x \in Sockets : Alike(skv[x], sk[x])
    PROVE  Sessions' /\ Simulated
<1>1. /\ sk'[Backend].sendbuf = sk[Backend].sendbuf /\ known' = known
      /\ \A x \in Clients : /\ Alike(sk'[x], sk[x])
                            /\ PeersAlike(peer'[x], peer[x], sk[x])
  BY MuxFacts, AlikeSame DEF Leaves, Alike
<1> QED BY <1>1, MuxFacts, Stutters

\* What try_recv does with the result of recv.
LEMMA Returned ==
    ASSUME NEW skv, NEW s, NEW rv, TryRecvReturn(skv, s, rv), known' = known
    PROVE  \/ Leaves(skv)
           \/ /\ rv \notin {"ok", "EINPUT", "EAGAIN"}
              /\ "close_on_write" \notin skv[s].flags
              /\ Close(skv, s, work_list \ {s}, "try_recv")
  BY DEF TryRecvReturn, Keep, Leaves

\* recv leaves the sockets alike, whatever it returns.
LEMMA ReturnedAlike ==
    ASSUME MuxInv, NEW skv, SkOK(skv), NEW s \in Sockets, sk[s].proto # "free",
           NEW rv, TryRecvReturn(skv, s, rv), known' = known,
           \A x \in Sockets : Alike(skv[x], sk[x])
    PROVE  Sessions' /\ Simulated
<1>1. CASE Leaves(skv)
  BY <1>1, LeavesAlike
<1>2. CASE Close(skv, s, work_list \ {s}, "try_recv")
  BY <1>2, Ended
<1> QED BY <1>1, <1>2, Returned

-----------------------------------------------------------------------------
(* The actions                                                             *)

\* A request is answered first, and by nothing but a 101 or a 400.
LEMMA HttpSimulated ==
    ASSUME MuxInv, NEW s \in Sockets,
           HttpIncomplete(s) \/ HttpUpgrade(s) \/ HttpReject(s) \/ HttpGarbled(s)
    PROVE  Sessions' /\ Simulated
<1>0. /\ pc = "try_recv" /\ sk[s].proto = "http" /\ sk[s].recvbuf # <<>>
      /\ known' = known
  BY DEF HttpRecv, TryRecv, HttpIncomplete, HttpUpgrade, HttpReject, HttpGarbled
<1>1. s \in Clients /\ s # Backend /\ sk[s] \in Sk /\ SkOK(sk)
  BY <1>0, MuxFacts
<1>2. ~Closing(sk[s]) /\ sk[s].sendbuf = <<>> /\ Fits(sk[s])
  <2>1. ~Waiting(sk[s])
    BY <1>0, SockFacts DEF SockInv, MuxInv
  <2>2. "closing" \notin sk[s].flags /\ (~Closing(sk[s]) => sk[s].sendbuf = <<>>)
    BY <1>0, <1>1 DEF MuxInv, Sessions, SessionInv
  <2>3. ~Closing(sk[s])
    BY <2>1, <2>2 DEF Waiting, Closing
  <2> QED BY <2>2, <2>3, CapsAssumption, EmptySeq DEF Fits
<1>3. CASE HttpIncomplete(s)
  BY <1>0, <1>1, <1>3, MuxFacts, ReturnedAlike DEF HttpIncomplete
<1>4. CASE HttpUpgrade(s)
  <2> DEFINE r == ws_decode_handshake(sk[s])
             skv == [sk EXCEPT ![s] = r]
  <2>1. /\ SameBut(r, sk[s], {"proto", "events", "sendbuf", "recvbuf"})
        /\ r.proto = "ws" /\ r.sendbuf = Append(sk[s].sendbuf, "101")
    BY <1>1, Handshake
  <2>2. Leaves(skv)
    BY <1>0, <1>4, Returned DEF HttpUpgrade
  <2> HIDE DEF r
  <2>3. /\ skv[s] = r /\ skv[Backend].sendbuf = sk[Backend].sendbuf
        /\ \A x \in Clients \ {s} : Alike(skv[x], sk[x])
    BY <1>1, MuxFacts DEF SkOK
  <2> HIDE DEF skv
  <2>4. ~Closing(r)
    BY <1>2, <2>1 DEF SameBut, Closing
  <2> QED BY <1>0, <1>1, <1>2, <2>1, <2>2, <2>3, <2>4, QueuedFor
<1>5. CASE HttpReject(s)
  <2> DEFINE r == BadRequest(sk[s])
             skv == [sk EXCEPT ![s] = r]
  <2>1. /\ SameBut(r, sk[s], {"events", "flags", "sendbuf", "recvbuf"})
        /\ r.flags = sk[s].flags \cup {"close_on_write"}
        /\ r.sendbuf = Append(sk[s].sendbuf, "400")
    BY <1>1, Rejected
  <2>2. TryRecvReturn(skv, s, "fatal")
    BY <1>5 DEF HttpReject
  <2> HIDE DEF r
  <2>3. /\ skv[s] = r /\ skv[Backend].sendbuf = sk[Backend].sendbuf
        /\ \A x \in Clients \ {s} : Alike(skv[x], sk[x])
    BY <1>1, MuxFacts DEF SkOK
  <2> HIDE DEF skv
  <2>4. Leaves(skv)
    BY <1>0, <2>1, <2>2, <2>3, Returned
  <2>5. Closing(r) /\ "closing" \notin r.flags /\ r.proto = "http"
    BY <1>0, <1>2, <2>1 DEF SameBut, Closing
  <2> QED BY <1>0, <1>1, <1>2, <2>1, <2>3, <2>4, <2>5, QueuedFor
<1>6. CASE HttpGarbled(s)
  <2> DEFINE r == [sk[s] EXCEPT !.recvbuf = <<>>]
             skv == [sk EXCEPT ![s] = r]
  <2>1. SameBut(r, sk[s], {"recvbuf"})
    BY <1>1, Constants, RecvbufSet
  <2>2. TryRecvReturn(skv, s, "fatal")
    BY <1>6 DEF HttpGarbled
  <2> HIDE DEF r
  <2>3. Alike(r, sk[s])
    BY <2>1, AlikeBut DEF SameBut
  <2>4. SkOK(skv) /\ \A x \in Sockets : Alike(skv[x], sk[x])
    BY <1>1, <2>1, <2>3, ClientUpdate, AlikeUpdate
  <2> HIDE DEF skv
  <2> QED BY <1>0, <2>2, <2>4, ReturnedAlike
<1> QED BY <1>3, <1>4, <1>5, <1>6

\* The recv functions before their frame loops.
LEMMA RecvSimulated ==
    ASSUME MuxInv, NEW s \in Sockets, Recv(s) \/ PP2RecvStart \/ TryRecvFreed
    PROVE  Sessions' /\ Simulated
<1>1. CASE RecvNothing(s) \/ TryRecvFreed
  <2>1. Leaves(sk)
    BY <1>1 DEF RecvNothing, TryRecvFreed, Exit, Undefined, Keep, Leaves
  <2> QED BY <2>1, MuxFacts, LeavesAlike
<1>2. CASE WsRecvStart(s) \/ PP2RecvStart
  <2>1. Leaves(sk)
    BY <1>2 DEF WsRecvStart, PP2RecvStart, StartDecoding, Leaves
  <2> QED BY <2>1, MuxFacts, LeavesAlike
<1>3. CASE SkOpenFails(s)
  BY <1>3, MuxFacts, ReturnedAlike DEF SkOpenFails, WsRecv
<1>4. CASE SkOpen(s)
  <2>1. /\ sk' = [sk EXCEPT ![Backend] = SkInit("pp2")] /\ known' = known
        /\ peer' = [peer EXCEPT ![Backend] = "syn"] /\ sk[Backend].proto = "free"
    BY <1>4 DEF SkOpen, StartDecoding, Open
  <2>2. sk[Backend].sendbuf = <<>>
    BY <2>1, MuxFacts, SockFacts DEF SockInv, SkDestroyed
  <2>3. sk'[Backend].sendbuf = <<>>
    BY <2>1, MuxFacts DEF SkOK, SkInit
  <2>4. \A x \in Clients : /\ Alike(sk'[x], sk[x])
                           /\ PeersAlike(peer'[x], peer[x], sk[x])
    BY <2>1, MuxFacts, AlikeSame DEF SkOK
  <2> QED BY <2>1, <2>2, <2>3, <2>4, MuxFacts, Stutters
<1>5. CASE HttpIncomplete(s) \/ HttpUpgrade(s) \/ HttpReject(s) \/ HttpGarbled(s)
  BY <1>5, HttpSimulated
<1> QED BY <1>1, <1>2, <1>3, <1>4, <1>5 DEF Recv

\* The end of ws_recv leaves the sockets alike if decode_frame has.
LEMMA WsReturnedAlike ==
    ASSUME MuxInv, cur \in Clients, sk[cur].proto # "free",
           NEW r, SameBut(r, sk[cur], {"recvbuf"}),
           NEW rv, WsReturn([sk EXCEPT ![cur] = r], rv)
    PROVE  Sessions' /\ Simulated
<1> DEFINE skv == [sk EXCEPT ![cur] = r]
           skw == WsRecvTail(skv)
<1>0. cur \in Sockets /\ cur # Backend
  BY MuxFacts
<1>1. Alike(r, sk[cur])
  BY AlikeBut DEF SameBut
<1>2. SkOK(skv) /\ \A x \in Sockets : Alike(skv[x], sk[x])
  BY <1>0, <1>1, MuxFacts, ClientUpdate, AlikeUpdate
<1>3. TryRecvReturn(skw, cur, rv) /\ known' = known
  BY DEF WsReturn
<1> HIDE DEF skv
<1>4. /\ SkOK(skw)
      /\ \A x \in Sockets \ {cur, Backend} : skw[x] = skv[x]
      /\ SameBut(skw[Backend], skv[Backend], {"events"})
      /\ SameBut(skw[cur], skv[cur], {"events"})
  BY <1>2, RecvTail
<1> HIDE DEF skw
<1>5. \A x \in Sockets : Alike(skw[x], skv[x])
  BY <1>4, AlikeSame, AlikeBut DEF SameBut
<1>6. \A x \in Sockets : Alike(skw[x], sk[x])
  BY <1>2, <1>5 DEF Alike
<1> QED BY <1>0, <1>3, <1>4, <1>6, ReturnedAlike

\* decode_frame has left the socket cur at r, and the others alone.
LEMMA DecodedOne ==
    ASSUME MuxInv, cur \in Clients, NEW r, Decoded([sk EXCEPT ![cur] = r])
    PROVE  \E skv : /\ Leaves(skv) /\ skv[cur] = r
                    /\ skv[Backend].sendbuf = sk[Backend].sendbuf
                    /\ \A x \in Sockets \ {cur} : Alike(skv[x], sk[x])
<1> DEFINE skv == [sk EXCEPT ![cur] = r]
<1>1. Leaves(skv)
  BY DEF Decoded, Leaves
<1>2. /\ skv[cur] = r /\ skv[Backend].sendbuf = sk[Backend].sendbuf
      /\ \A x \in Sockets \ {cur} : Alike(skv[x], sk[x])
  BY MuxFacts DEF SkOK
<1> HIDE DEF skv
<1> QED BY <1>1, <1>2

\* Every frame of a client is one step of the multiplexer, or none.
LEMMA WsDecodeSimulated ==
    ASSUME MuxInv, WsDecodeFrame
    PROVE  Sessions' /\ Simulated
<1>0. /\ pc = "decode" /\ sk[cur].proto = "ws" /\ cur \in Clients /\ cur \in Sockets
      /\ cur # Backend /\ sk[cur] \in Sk /\ SkOK(sk) /\ sk[cur].proto # "free"
      /\ sk[Backend] \in Sk /\ Backend \in Sockets
  <2>1. pc = "decode" /\ sk[cur].proto = "ws"
    BY DEF WsDecodeFrame, WsIncomplete, WsBad, PP2Encode, PP2EncodeAgain,
           FinishClosingHandshake, WsClose, WsPing, WsPong, WsUnknown, WsDecode
  <2>2. cur \in Sockets
    BY <2>1, MuxFacts DEF Typed
  <2> QED BY <2>1, <2>2, MuxFacts
<1>1. ASSUME NEW t, WsDecode(t), "closing" \notin sk[cur].flags
      PROVE  ~Closing(sk[cur])
  <2>1. sk[cur].recvbuf # <<>>
    BY <1>1 DEF WsDecode
  <2>2. ~Waiting(sk[cur])
    BY <1>0, <2>1, MuxFacts, SockFacts DEF SockInv
  <2> QED BY <1>1, <2>2 DEF Closing, Waiting
<1>2. ASSUME NEW r, Alike(r, sk[cur]), Decoded([sk EXCEPT ![cur] = r])
      PROVE  Sessions' /\ Simulated
  <2>1. PICK skv : /\ Leaves(skv) /\ skv[cur] = r
                   /\ \A x \in Sockets \ {cur} : Alike(skv[x], sk[x])
    BY <1>0, <1>2, DecodedOne
  <2> QED BY <1>2, <2>1, LeavesAlike
<1>3. ASSUME NEW r, Decoded([sk EXCEPT ![cur] = r]), ~Closing(sk[cur]), Fits(sk[cur]),
             r.proto = "ws", NEW f, r.sendbuf = Append(sk[cur].sendbuf, f),
             \/ ~Closing(r) /\ f \in {"ping", "pong"}
             \/ Closing(r) /\ f = "close"
      PROVE  Sessions' /\ Simulated
  <2>1. PICK skv : /\ Leaves(skv) /\ skv[cur] = r
                   /\ skv[Backend].sendbuf = sk[Backend].sendbuf
                   /\ \A x \in Clients \ {cur} : Alike(skv[x], sk[x])
    BY <1>0, <1>3, MuxFacts, DecodedOne
  <2> QED BY <1>0, <1>3, <2>1, QueuedFor
<1>4. CASE WsIncomplete \/ WsBad
  <2>1. SameBut(sk[cur], sk[cur], {"recvbuf"}) /\ [sk EXCEPT ![cur] = sk[cur]] = sk
    BY <1>0, MuxFacts DEF SameBut
  <2> QED BY <1>0, <1>4, <2>1, WsReturnedAlike DEF WsIncomplete, WsBad
<1>5. CASE PP2Encode
  <2> DEFINE r == [sk[cur] EXCEPT !.recvbuf = Tail(sk[cur].recvbuf)]
             b == [sk[Backend] EXCEPT !.sendbuf = Append(sk[Backend].sendbuf, cur)]
             skv == [sk EXCEPT ![cur] = r, ![Backend] = b]
  <2>1. Decoded(skv) /\ Fits(sk[Backend])
    BY <1>0, <1>5 DEF PP2Encode, SkOK
  <2>2. SameBut(r, sk[cur], {"recvbuf"})
    BY <1>0, <1>5, MuxFacts, WsDecodeCur, RecvbufSet DEF PP2Encode
  <2>3. b.sendbuf = Append(sk[Backend].sendbuf, cur)
    BY <1>0 DEF Sk
  <2> HIDE DEF r, b
  <2>4. skv[cur] = r /\ skv[Backend] = b /\ \A x \in Clients \ {cur} : skv[x] = sk[x]
    BY <1>0, MuxFacts DEF SkOK
  <2>5. sk' = skv /\ UNCHANGED <<peer, known>>
    BY <2>1 DEF Decoded
  <2> HIDE DEF skv
  <2>6. \A x \in Clients : /\ Alike(sk'[x], sk[x])
                           /\ PeersAlike(peer'[x], peer[x], sk[x])
    BY <2>2, <2>4, <2>5, AlikeSame, AlikeBut DEF SameBut
  <2>7. Sessions' /\ UNCHANGED <<phase, leaving, out>>
    BY <2>6, MuxFacts, NoSession
  <2>8. Abstract!Up(cur)
    BY <1>0, <2>1, <2>3, <2>4, <2>5, <2>7, Views DEF Abstract!Up, Fits
  <2> QED BY <1>0, <2>7, <2>8 DEF Simulated, Abstract!Next
<1>6. CASE PP2EncodeAgain
  <2>1. PICK rest \in {<<"raw">>, <<>>} :
           WsReturn([sk EXCEPT ![cur].recvbuf = rest \o Tail(@)], "EAGAIN")
    BY <1>6 DEF PP2EncodeAgain
  <2> DEFINE b == rest \o Tail(sk[cur].recvbuf)
             r == [sk[cur] EXCEPT !.recvbuf = b]
  <2>2. b \in Seq(RecvToks)
    BY <1>6, MuxFacts, WsDecodeCur, Constants, ConcatProperties DEF PP2EncodeAgain
  <2>3. WsReturn([sk EXCEPT ![cur] = r], "EAGAIN")
    BY <2>1
  <2> HIDE DEF b
  <2>4. SameBut(r, sk[cur], {"recvbuf"})
    BY <1>0, <2>2, RecvbufSet
  <2> HIDE DEF r
  <2> QED BY <1>0, <2>3, <2>4, WsReturnedAlike
<1>7. CASE FinishClosingHandshake
  <2> DEFINE r == [sk[cur] EXCEPT !.recvbuf = <<>>,
                                  !.flags = (@ \ {"closing"}) \cup {"close"}]
  <2>1. /\ r.proto = sk[cur].proto /\ r.sendbuf = sk[cur].sendbuf
        /\ r.flags = (sk[cur].flags \ {"closing"}) \cup {"close"}
    BY <1>0 DEF Sk
  <2>2. Decoded([sk EXCEPT ![cur] = r])
    BY <1>0, <1>7 DEF FinishClosingHandshake, SkOK
  <2> HIDE DEF r
  <2>3. "closing" \in sk[cur].flags
    BY <1>7 DEF FinishClosingHandshake
  <2>4. Alike(r, sk[cur])
    BY <2>1, <2>3 DEF Alike, Closing
  <2> QED BY <1>2, <2>2, <2>4
<1>8. CASE WsClose
  <2>0. ~Closing(sk[cur])
    BY <1>1, <1>8 DEF WsClose
  <2>1. CASE Decoded([sk EXCEPT ![cur] = ReplyClose(sk[cur])]) /\ Fits(sk[cur])
    <3>1. /\ SameBut(ReplyClose(sk[cur]), sk[cur], {"flags", "sendbuf", "recvbuf"})
          /\ ReplyClose(sk[cur]).flags = sk[cur].flags \cup {"close_on_write", "closing"}
          /\ ReplyClose(sk[cur]).sendbuf = Append(sk[cur].sendbuf, "close")
      BY <1>0, Replied
    <3>2. Closing(ReplyClose(sk[cur])) /\ ReplyClose(sk[cur]).proto = "ws"
      BY <1>0, <3>1 DEF Closing, SameBut
    <3> QED BY <1>3, <2>0, <2>1, <3>1, <3>2
  <2>2. CASE WsReturn([sk EXCEPT ![cur].recvbuf = <<>>], "fatal")
    <3> DEFINE r == [sk[cur] EXCEPT !.recvbuf = <<>>]
    <3>1. WsReturn([sk EXCEPT ![cur] = r], "fatal")
      BY <2>2
    <3>2. SameBut(r, sk[cur], {"recvbuf"})
      BY <1>0, Constants, RecvbufSet
    <3> HIDE DEF r
    <3> QED BY <1>0, <3>1, <3>2, WsReturnedAlike
  <2> QED BY <1>8, <2>1, <2>2 DEF WsClose
<1>9. ASSUME NEW t \in WsToks, WsPing(t) \/ WsPong(t) \/ WsUnknown(t)
      PROVE  Sessions' /\ Simulated
  <2> DEFINE r == Consume(sk[cur], t)
  <2>1. sk[cur].recvbuf # <<>>
    BY <1>9 DEF WsPing, WsPong, WsUnknown, WsDecode
  <2>2. SameBut(r, sk[cur], {"recvbuf"}) /\ r \in Sk
    BY <1>0, <2>1, Consumed DEF SameBut
  <2>3. \/ Exit /\ known' = known
        \/ ~Closing(sk[cur]) /\ Fits(r) /\ Decoded([sk EXCEPT ![cur] = ws_pong(r)])
        \/ /\ ~Closing(sk[cur]) /\ Fits(r)
           /\ Decoded([sk EXCEPT ![cur] = ws_start_closing_handshake(r)])
        \/ Decoded([sk EXCEPT ![cur] = r])
        \/ WsReturn([sk EXCEPT ![cur] = r], "fatal")
    BY <1>1, <1>9 DEF WsPing, WsPong, WsUnknown
  <2> HIDE DEF r
  <2>4. CASE Exit /\ known' = known
    <3>1. Leaves(sk)
      BY <2>4 DEF Exit, Keep, Leaves
    <3> QED BY <3>1, MuxFacts, LeavesAlike
  <2>5. CASE ~Closing(sk[cur]) /\ Fits(r) /\ Decoded([sk EXCEPT ![cur] = ws_pong(r)])
    <3>1. /\ SameBut(ws_pong(r), r, {"events", "sendbuf"})
          /\ ws_pong(r).sendbuf = Append(r.sendbuf, "pong")
      BY <2>2, Queued, Constants DEF ws_pong
    <3>2. /\ ws_pong(r).sendbuf = Append(sk[cur].sendbuf, "pong") /\ Fits(sk[cur])
          /\ ws_pong(r).proto = "ws" /\ ~Closing(ws_pong(r))
      BY <1>0, <2>2, <2>5, <3>1 DEF SameBut, Closing, Fits
    <3> QED BY <1>3, <2>5, <3>2
  <2>6. CASE /\ ~Closing(sk[cur]) /\ Fits(r)
             /\ Decoded([sk EXCEPT ![cur] = ws_start_closing_handshake(r)])
    <3> DEFINE q == ws_start_closing_handshake(r)
    <3>1. /\ SameBut(q, r, {"events", "flags", "sendbuf"})
          /\ q.flags = r.flags \cup {"closing"} /\ q.sendbuf = Append(r.sendbuf, "close")
      BY <2>2, ClosingStarted
    <3>2. Decoded([sk EXCEPT ![cur] = q])
      BY <2>6
    <3> HIDE DEF q
    <3>3. /\ q.sendbuf = Append(sk[cur].sendbuf, "close") /\ Fits(sk[cur])
          /\ q.proto = "ws" /\ Closing(q)
      BY <1>0, <2>2, <2>6, <3>1 DEF SameBut, Closing, Fits
    <3> QED BY <1>3, <2>6, <3>2, <3>3
  <2>7. CASE Decoded([sk EXCEPT ![cur] = r])
    <3>1. Alike(r, sk[cur])
      BY <2>2, AlikeBut DEF SameBut
    <3> QED BY <1>2, <2>7, <3>1
  <2>8. CASE WsReturn([sk EXCEPT ![cur] = r], "fatal")
    BY <1>0, <2>2, <2>8, WsReturnedAlike
  <2> QED BY <2>3, <2>4, <2>5, <2>6, <2>7, <2>8
<1> QED BY <1>4, <1>5, <1>6, <1>7, <1>8, <1>9 DEF WsDecodeFrame

\* A message at the head of the backend's recvbuf is for a client it has heard of.
LEMMA MessageHeard ==
    ASSUME MuxInv, NEW d \in Clients, PP2Message(d)
    PROVE  d \in known
<1>1. /\ sk[Backend].recvbuf \in Seq(known \cup Partial \cup {"raw"})
      /\ sk[Backend].recvbuf # <<>> /\ Head(sk[Backend].recvbuf) = d
  BY DEF MuxInv, Heard, PP2Message
<1>2. d \in known \cup Partial \cup {"raw"}
  BY <1>1, HeadTailProperties
<1> QED BY <1>2, SocketsAssumption

\* Every message of the backend is one step of the multiplexer, or none.
LEMMA PP2DecodeSimulated ==
    ASSUME MuxInv, PP2DecodeFrame
    PROVE  Sessions' /\ Simulated
<1>0. /\ SkOK(sk) /\ Backend \in Sockets /\ sk[Backend] \in Sk
      /\ pc = "decode" /\ cur = Backend
  BY MuxFacts DEF PP2DecodeFrame, PP2Incomplete, PP2Again, PP2Garbled, PP2Drop,
                  PP2Forward, PP2Message, PP2Decode
<1>1. sk[Backend].proto # "free"
  <2>1. cur \in work_list
    BY <1>0, MuxFacts DEF Inv, ControlInv
  <2> QED BY <1>0, <2>1, MuxFacts, SockFacts DEF SockInv
<1>2. CASE PP2Incomplete \/ PP2Again \/ PP2Garbled
  BY <1>0, <1>1, <1>2, MuxFacts, ReturnedAlike
     DEF PP2Incomplete, PP2Again, PP2Garbled, PP2Return
<1>3. ASSUME NEW d \in Clients, PP2Drop(d) \/ PP2Forward(d)
      PROVE  Sessions' /\ Simulated
  <2> DEFINE rest == Tail(sk[Backend].recvbuf)
             b == [sk[Backend] EXCEPT !.recvbuf = rest]
             g == [sk[Backend] EXCEPT !.recvbuf = <<"raw">> \o rest]
             q == ws_encode_frame(sk[d], sk[Backend])
             skb == [sk EXCEPT ![Backend] = b]
             skg == [sk EXCEPT ![Backend] = g]
             skq == [sk EXCEPT ![Backend] = b, ![d] = q]
  <2>0. /\ d # Backend /\ d \in Sockets /\ sk[d] \in Sk
        /\ sk[Backend].recvbuf # <<>> /\ d \in known
    BY <1>3, MuxFacts, MessageHeard DEF PP2Drop, PP2Forward, PP2Message
  <2>1. \/ Undefined /\ known' = known
        \/ PP2Return(skg, "EAGAIN")
        \/ Decoded(skb)
        \/ Decoded(skq) /\ Fits(sk[d]) /\ sk[d].proto = "ws"
    BY <1>0, <1>3, <2>0 DEF PP2Drop, PP2Forward, SkOK
  <2>2. rest \in Seq(RecvToks) /\ <<"raw">> \o rest \in Seq(RecvToks)
    BY <1>0, <2>0, HeadTailProperties, ConcatProperties, Constants DEF Sk
  <2>3. SameBut(b, sk[Backend], {"recvbuf"}) /\ SameBut(g, sk[Backend], {"recvbuf"})
    BY <1>0, <2>2, RecvbufSet
  <2>4. /\ SameBut(q, sk[d], {"events", "sendbuf"})
        /\ q.sendbuf = Append(sk[d].sendbuf, "data")
    <3>1. /\ SameBut(Queue(sk[d], "data"), sk[d], {"events", "sendbuf"})
          /\ Queue(sk[d], "data").sendbuf = Append(sk[d].sendbuf, "data")
      BY <2>0, Queued, Constants
    <3>2. SameBut(turn_on_events(Queue(sk[d], "data"), {"IN"}), Queue(sk[d], "data"),
                  {"events"})
      BY <3>1, TurnOn, Constants DEF SameBut
    <3> QED BY <3>1, <3>2 DEF SameBut, ws_encode_frame
  <2> HIDE DEF rest, b, g, q
  <2>5. Alike(b, sk[Backend]) /\ Alike(g, sk[Backend])
    BY <2>3, AlikeBut DEF SameBut
  <2>6. CASE Undefined /\ known' = known
    <3>1. Leaves(sk)
      BY <2>6 DEF Undefined, Keep, Leaves
    <3> QED BY <3>1, MuxFacts, LeavesAlike
  <2>7. CASE PP2Return(skg, "EAGAIN")
    <3>1. SkOK(skg)
      BY <1>0, <2>3, MuxFacts, SkUpdate DEF SkOK, SameBut
    <3>2. \A x \in Sockets : Alike(skg[x], sk[x])
      BY <1>0, <2>5, AlikeUpdate
    <3> HIDE DEF skg
    <3> QED BY <1>0, <1>1, <2>7, <3>1, <3>2, ReturnedAlike DEF PP2Return
  <2>8. CASE Decoded(skb)
    <3>1. \A x \in Sockets : Alike(skb[x], sk[x])
      BY <1>0, <2>5, AlikeUpdate
    <3>2. Leaves(skb)
      BY <2>8 DEF Decoded, Leaves
    <3> HIDE DEF skb
    <3> QED BY <3>1, <3>2, LeavesAlike
  <2>9. CASE Decoded(skq) /\ Fits(sk[d]) /\ sk[d].proto = "ws"
    <3>1. /\ skq[d] = q /\ skq[Backend] = b
          /\ \A x \in Clients \ {d} : skq[x] = sk[x]
      BY <1>0, <2>0, MuxFacts DEF SkOK
    <3>2. Leaves(skq)
      BY <2>9 DEF Decoded, Leaves
    <3> HIDE DEF skq
    <3>3. /\ \A x \in Clients \ {d} : Alike(skq[x], sk[x])
          /\ skq[Backend].sendbuf = sk[Backend].sendbuf
      BY <2>3, <3>1, AlikeSame DEF SameBut
    <3>4. q.proto = "ws" /\ (Closing(q) <=> Closing(sk[d]))
      BY <2>4, <2>9 DEF SameBut, Closing
    <3> QED BY <2>0, <2>4, <2>9, <3>1, <3>2, <3>3, <3>4, QueuedFor
  <2> QED BY <2>1, <2>6, <2>7, <2>8, <2>9
<1> QED BY <1>2, <1>3 DEF PP2DecodeFrame

\* What sk_write leaves of the sendbuf.
LEMMA SentRest ==
    ASSUME NEW r \in Sk, NEW k \in 0 .. Len(r.sendbuf), r.sendbuf # <<>>
    PROVE  sk_write(r, k).sendbuf = SubSeq(r.sendbuf, k + 1, Len(r.sendbuf))
  BY DEF sk_write, Sk

\* A socket in a walk over sk_list or in a batch of events exists.
LEMMA VisitedOpen ==
    ASSUME MuxInv, NEW s \in Clients, s \in todo,
           pc \in {"events", "check_timeouts", "shutdown"}
    PROVE  sk[s].proto # "free"
  BY DEF MuxInv, ListsOpen

\* ops->close on a socket in a walk over sk_list or in a batch of events.
LEMMA HandlerEnded ==
    ASSUME MuxInv, NEW s \in Sockets, s \in todo, known' = known,
           pc \in {"events", "check_timeouts", "shutdown"},
           NEW wl, NEW next, Close(sk, s, wl, next)
    PROVE  Sessions' /\ Simulated
<1>1. CASE sk[s].proto # "free"
  BY <1>1, MuxFacts, Ended
<1>2. CASE sk[s].proto = "free"
  <2>1. s = Backend
    BY <1>2, VisitedOpen DEF Sockets
  <2>2. sk[s] = SkDestroyed
    BY <1>2, MuxFacts, SockFacts DEF SockInv
  <2>3. sk'[s] = SkDestroyed /\ \A x \in Sockets \ {s} : sk'[x] = sk[x]
    BY MuxFacts, CloseEffect
  <2>4. \A x \in Clients : peer'[x] = peer[x]
    BY <2>1, MuxFacts DEF Close, pp2_close
  <2>5. /\ sk'[Backend].sendbuf = sk[Backend].sendbuf
        /\ \A x \in Clients : /\ Alike(sk'[x], sk[x])
                              /\ PeersAlike(peer'[x], peer[x], sk[x])
    BY <2>1, <2>2, <2>3, <2>4, MuxFacts, AlikeSame
  <2> QED BY <2>5, MuxFacts, Stutters
<1> QED BY <1>1, <1>2

\* on_write delivers what the receiver is sent first.
LEMMA OnWriteSimulated ==
    ASSUME MuxInv, NEW s \in Sockets, OnWrite(s)
    PROVE  Sessions' /\ Simulated
<1>0. /\ SkOK(sk) /\ sk[s] \in Sk /\ s \in todo /\ pc = "events"
      /\ "OUT" \in sk[s].events
  BY MuxFacts DEF OnWrite, OnWritable, OnEvent
<1>1. PICK k \in 0 .. Len(sk[s].sendbuf) :
          /\ k = 0 => sk[s].sendbuf = <<>>
          /\ Written(s, k)
          /\ known' = IF s = Backend
                      THEN known \cup {sk[s].sendbuf[i] : i \in 1 .. k} ELSE known
  BY DEF OnWrite
<1> DEFINE r == ts_last_io_set(sk_write(sk[s], k))
           skv == [sk EXCEPT ![s] = r]
<1>2. /\ SameBut(r, sk[s], {"events", "flags", "sendbuf"})
      /\ r.flags = sk[s].flags \cup {"ts_last_io"}
      /\ sk[s].sendbuf = <<>> => r.sendbuf = <<>>
      /\ sk[s].sendbuf # <<>> =>
            r.sendbuf = SubSeq(sk[s].sendbuf, k + 1, Len(sk[s].sendbuf))
  <2>1. /\ SameBut(r, sk[s], {"events", "flags", "sendbuf"})
        /\ r.flags = sk[s].flags \cup {"ts_last_io"}
        /\ r.sendbuf = sk_write(sk[s], k).sendbuf
    BY <1>0, <1>1, WrittenType
  <2>2. sk[s].sendbuf = <<>> => sk_write(sk[s], k).sendbuf = <<>>
    BY <1>0, <1>1, Sent
  <2>3. sk[s].sendbuf # <<>> =>
           sk_write(sk[s], k).sendbuf = SubSeq(sk[s].sendbuf, k + 1, Len(sk[s].sendbuf))
    BY <1>0, <1>1, SentRest
  <2> HIDE DEF r
  <2> QED BY <2>1, <2>2, <2>3
<1>3. \/ /\ \/ "close_on_write" \in r.flags
            \/ "close" \in r.flags
         /\ Close(sk, s, work_list, "events")
      \/ Keep(skv, work_list, "events")
  BY <1>1 DEF Written
<1>4. Len(sk[s].sendbuf) \in Nat /\ (sk[s].sendbuf = <<>> <=> Len(sk[s].sendbuf) = 0)
  BY <1>0, LenProperties, EmptySeq DEF Sk
<1> HIDE DEF r
<1>5. skv[s] = r /\ \A x \in Sockets \ {s} : skv[x] = sk[x]
  BY <1>0 DEF SkOK
<1> HIDE DEF skv
<1>6. (Closing(r) <=> Closing(sk[s])) /\ r.proto = sk[s].proto
  BY <1>2 DEF SameBut, Closing
<1>7. CASE Close(sk, s, work_list, "events") /\ ("close_on_write" \in r.flags \/ "close" \in r.flags)
  <2>1. s # Backend
    <3>1. Waiting(sk[s])
      BY <1>2, <1>7 DEF Waiting
    <3> QED BY <3>1, MuxFacts, SockFacts DEF SockInv
  <2> QED BY <1>0, <1>1, <1>7, <2>1, HandlerEnded
<1>8. CASE Keep(skv, work_list, "events") /\ sk[s].sendbuf = <<>>
  <2>1. known' = known
    <3>1. 1 .. k = {}
      BY <1>1, <1>4, <1>8
    <3> QED BY <1>1, <3>1
  <2>2. Alike(r, sk[s])
    BY <1>2, <1>6, <1>8 DEF Alike
  <2>3. Leaves(skv) /\ \A x \in Sockets : Alike(skv[x], sk[x])
    BY <1>5, <1>8, <2>1, <2>2, AlikeSame DEF Keep, Leaves
  <2> QED BY <2>3, LeavesAlike
<1>9. CASE Keep(skv, work_list, "events") /\ sk[s].sendbuf # <<>> /\ s = Backend
  <2>1. \A x \in Clients : /\ Alike(sk'[x], sk[x])
                           /\ PeersAlike(peer'[x], peer[x], sk[x])
    BY <1>5, <1>9, MuxFacts, AlikeSame DEF Keep
  <2>2. Sessions' /\ UNCHANGED <<phase, leaving, out>>
    BY <2>1, MuxFacts, NoSession
  <2>3. /\ k \in 1 .. Len(sk[Backend].sendbuf)
        /\ sk'[Backend].sendbuf =
              SubSeq(sk[Backend].sendbuf, k + 1, Len(sk[Backend].sendbuf))
        /\ known' = known \cup {sk[Backend].sendbuf[i] : i \in 1 .. k}
    BY <1>1, <1>2, <1>4, <1>5, <1>9 DEF Keep
  <2>4. Abstract!DeliverUp
    BY <2>2, <2>3 DEF Abstract!DeliverUp
  <2> QED BY <2>2, <2>4 DEF Simulated, Abstract!Next
<1>10. CASE Keep(skv, work_list, "events") /\ sk[s].sendbuf # <<>> /\ s # Backend
  <2>0. /\ s \in Clients /\ sk'[s] = r /\ UNCHANGED <<peer, known>>
        /\ sk'[Backend] = sk[Backend]
    BY <1>1, <1>5, <1>10, MuxFacts DEF Keep, Sockets
  <2>1. \A x \in Clients \ {s} : /\ Alike(sk'[x], sk[x])
                                 /\ PeersAlike(peer'[x], peer[x], sk[x])
    BY <1>5, <1>10, <2>0, MuxFacts, AlikeSame DEF Keep
  <2>2. /\ \A x \in Clients \ {s} : SessionInv(sk'[x], peer'[x])
        /\ phase' = [phase EXCEPT ![s] = phase'[s]]
        /\ leaving' = IF Closing(r) THEN leaving \cup {s} ELSE leaving \ {s}
        /\ out' = [out EXCEPT ![s] = r.sendbuf]
    BY <2>0, <2>1, MuxFacts, OneSession
  <2>3. SessionInv(sk[s], peer[s])
    BY <2>0, MuxFacts DEF Sessions
  <2>4. SessionInv(sk'[s], peer'[s])
    BY <1>2, <1>6, <1>10, <2>0, <2>3 DEF SessionInv
  <2>5. Sessions'
    BY <2>2, <2>4 DEF Sessions
  <2>6. phase'[s] = phase[s] /\ out[s] = sk[s].sendbuf /\ (s \in leaving <=> Closing(sk[s]))
    BY <1>6, <2>0, Views
  <2>7. phase' = phase /\ leaving' = leaving
    BY <1>6, <2>2, <2>6, ViewTypes
  <2>8. k \in 1 .. Len(out[s]) /\ r.sendbuf = SubSeq(out[s], k + 1, Len(out[s]))
    BY <1>1, <1>2, <1>4, <1>10, <2>6
  <2>9. Abstract!Deliver(s)
    BY <2>0, <2>2, <2>7, <2>8, ViewTypes DEF Abstract!Deliver
  <2> QED BY <2>0, <2>5, <2>9 DEF Simulated, Abstract!Next
<1> QED BY <1>3, <1>7, <1>8, <1>9, <1>10

\* The timeouts, the other events and the end of the daemon.
LEMMA HandlerSimulated ==
    ASSUME MuxInv, NEW s \in Sockets, Timeouts(s) \/ Event(s) \/ Shutdown(s)
    PROVE  Sessions' /\ Simulated
<1>0. SkOK(sk) /\ sk[s] \in Sk
  BY MuxFacts
<1>1. s \in todo /\ pc \in {"events", "check_timeouts", "shutdown"}
  BY DEF Timeouts, Event, Shutdown, IdleTimedOut, ClosingTimedOut, Ping, NoTimeout,
         OnReadFull, OnReadData, OnReadEnd, OnRead, OnWrite, OnWriteFails, OnWritable,
         OnHup, NotWritable, OnEvent, CheckTimeouts
<1>2. ASSUME NEW next, Close(sk, s, work_list, next) \/ Keep(sk, work_list, next),
             known' = known
      PROVE  Sessions' /\ Simulated
  <2>1. CASE Keep(sk, work_list, next)
    <3>1. Leaves(sk)
      BY <1>2, <2>1 DEF Keep, Leaves
    <3> QED BY <3>1, MuxFacts, LeavesAlike
  <2> QED BY <1>1, <1>2, <2>1, HandlerEnded
<1>3. ASSUME NEW r, Alike(r, sk[s]), sk' = [sk EXCEPT ![s] = r], known' = known,
             \/ UNCHANGED peer
             \/ sk[s].proto # "free" /\ peer' = [peer EXCEPT ![s] = "fin"]
      PROVE  Sessions' /\ Simulated
  <2>1. \A x \in Sockets : Alike(sk'[x], sk[x])
    BY <1>3, AlikeUpdate
  <2>2. \A x \in Clients : PeersAlike(peer'[x], peer[x], sk[x])
    BY <1>3, MuxFacts DEF PeersAlike
  <2>3. sk'[Backend].sendbuf = sk[Backend].sendbuf
    BY <2>1, MuxFacts DEF Alike
  <2> QED BY <1>3, <2>1, <2>2, <2>3, MuxFacts, Stutters
<1>4. ASSUME NEW r, NEW f, sk' = [sk EXCEPT ![s] = r], s \in Clients,
             UNCHANGED <<peer, net, known>>, sk[s].proto = "ws", r.proto = "ws",
             r.sendbuf = Append(sk[s].sendbuf, f), Fits(sk[s]), ~Closing(sk[s]),
             \/ ~Closing(r) /\ f \in {"ping", "pong"}
             \/ Closing(r) /\ f = "close"
      PROVE  Sessions' /\ Simulated
  <2> DEFINE skv == [sk EXCEPT ![s] = r]
  <2>1. Leaves(skv)
    BY <1>4 DEF Leaves
  <2>2. /\ skv[s] = r /\ skv[Backend].sendbuf = sk[Backend].sendbuf
        /\ \A x \in Clients \ {s} : Alike(skv[x], sk[x])
    BY <1>4, MuxFacts DEF SkOK
  <2> HIDE DEF skv
  <2> QED BY <1>4, <2>1, <2>2, QueuedFor
<1>5. CASE IdleTimedOut(s)
  <2>1. ~Closing(sk[s]) /\ known' = known
    BY <1>5 DEF IdleTimedOut, check_timeout, Closing, CheckTimeouts, Visited
  <2>2. CASE Close(sk, s, work_list, "check_timeouts")
    BY <1>2, <2>1, <2>2
  <2>3. CASE sk[s].proto = "ws" /\ Fits(sk[s])
    <3> DEFINE q == ws_start_closing_handshake(sk[s])
               r == Flag(q, {"ts_closing_handshake_start"})
    <3>1. sk' = [sk EXCEPT ![s] = r] /\ UNCHANGED <<peer, net>>
      BY <1>5, <2>3 DEF IdleTimedOut, Keep
    <3>2. /\ SameBut(q, sk[s], {"events", "flags", "sendbuf"})
          /\ q.flags = sk[s].flags \cup {"closing"}
          /\ q.sendbuf = Append(sk[s].sendbuf, "close")
      BY <1>0, ClosingStarted
    <3> HIDE DEF q
    <3>3. /\ SameBut(r, q, {"flags"})
          /\ r.flags = q.flags \cup {"ts_closing_handshake_start"}
      BY <3>2, FlagSet, Constants DEF SameBut
    <3> HIDE DEF r
    <3>4. Closing(r) /\ r.proto = "ws" /\ r.sendbuf = Append(sk[s].sendbuf, "close")
      BY <2>3, <3>2, <3>3 DEF SameBut, Closing
    <3> QED BY <1>4, <2>1, <2>3, <3>1, <3>4, MuxFacts
  <2> QED BY <1>5, <2>2, <2>3 DEF IdleTimedOut
<1>6. CASE Ping(s)
  <2>1. /\ ~Closing(sk[s]) /\ known' = known /\ "ts_last_io" \in sk[s].flags
    BY <1>6 DEF Ping, check_timeout, Closing, CheckTimeouts, Visited
  <2>2. CASE Keep(sk, work_list, "ub") \/ Keep(sk, work_list, "check_timeouts")
    BY <1>2, <2>1, <2>2
  <2>3. CASE /\ s # Backend /\ Fits(sk[s]) /\ sk[s].proto # "http"
             /\ Keep([sk EXCEPT ![s] = ws_ping(sk[s])], work_list, "check_timeouts")
    <3> DEFINE r == ws_ping(sk[s])
    <3>1. sk' = [sk EXCEPT ![s] = r] /\ UNCHANGED <<peer, net>>
      BY <2>3 DEF Keep
    <3>2. /\ SameBut(r, sk[s], {"events", "sendbuf"})
          /\ r.sendbuf = Append(sk[s].sendbuf, "ping")
      BY <1>0, Queued, Constants DEF ws_ping
    <3> HIDE DEF r
    <3>3. s \in Clients /\ sk[s].proto = "ws"
      <4>1. s \in Clients /\ sk[s].proto # "pp2"
        BY <1>0, <2>3 DEF Sockets, SkOK
      <4>2. sk[s].proto # "free"
        BY <2>1, MuxFacts, SockFacts DEF SockInv, SkDestroyed
      <4> QED BY <1>0, <2>3, <4>1, <4>2 DEF Sk, Protos
    <3>4. r.proto = "ws" /\ ~Closing(r)
      BY <2>1, <3>2, <3>3 DEF SameBut, Closing
    <3> QED BY <1>4, <2>1, <2>3, <3>1, <3>2, <3>3, <3>4
  <2> QED BY <1>6, <2>2, <2>3 DEF Ping, Undefined
<1>7. CASE ClosingTimedOut(s) \/ NoTimeout(s) \/ Shutdown(s)
           \/ OnWriteFails(s) \/ OnHup(s) \/ NotWritable(s)
  <2>1. /\ \E next : Close(sk, s, work_list, next) \/ Keep(sk, work_list, next)
        /\ known' = known
    BY <1>7 DEF ClosingTimedOut, NoTimeout, Shutdown, OnWriteFails, OnHup, NotWritable, Exit,
                CheckTimeouts, Visited
  <2> QED BY <1>2, <2>1
<1>8. ASSUME NEW r, SameBut(r, sk[s], {"events", "recvbuf"})
      PROVE  Alike(ts_last_io_set(r), sk[s]) /\ ts_last_io_set(r) \in Sk
  <2>1. /\ SameBut(ts_last_io_set(r), r, {"flags"})
        /\ ts_last_io_set(r).flags = r.flags \cup {"ts_last_io"}
    BY <1>8, FlagSet, Constants DEF ts_last_io_set, SameBut
  <2>2. SameBut(ts_last_io_set(r), sk[s], {"events", "flags", "retries", "recvbuf"})
    BY <1>8, <2>1 DEF SameBut
  <2> QED BY <1>0, <1>8, <2>1, <2>2, AlikeStamp DEF SameBut
<1>9. CASE OnReadFull(s)
  <2> DEFINE r == turn_off_events(sk[s], {"IN"})
  <2>1. SameBut(r, sk[s], {"events"})
    BY <1>0, TurnOff, Constants
  <2>2. sk' = [sk EXCEPT ![s] = ts_last_io_set(r)] /\ UNCHANGED <<peer, known>>
    BY <1>9 DEF OnReadFull, post_read
  <2> HIDE DEF r
  <2>3. Alike(ts_last_io_set(r), sk[s])
    BY <1>8, <2>1 DEF SameBut
  <2> QED BY <1>3, <2>2, <2>3
<1>10. CASE OnReadData(s)
  <2> DEFINE room == RecvCap - Len(sk[s].recvbuf)
             k == IF Len(net[s]) < room THEN Len(net[s]) ELSE room
             q == Join(sk[s].recvbuf, SubSeq(net[s], 1, k))
             r == [sk[s] EXCEPT !.recvbuf = q]
  <2>1. /\ net[s] \in Seq(RecvToks) /\ sk[s].recvbuf \in Seq(RecvToks)
        /\ Len(sk[s].recvbuf) \in Nat /\ Len(net[s]) \in Nat /\ RecvCap \in Nat
    BY <1>0, TypedParts, LenProperties, CapsAssumption, MuxFacts DEF ListsOK, Sk
  <2>2. k \in 0 .. Len(net[s])
    BY <1>10, <2>1 DEF OnReadData
  <2>3. sk' = [sk EXCEPT ![s] = ts_last_io_set(r)] /\ UNCHANGED <<peer, known>>
    BY <1>10 DEF OnReadData, post_read, sk_read
  <2> HIDE DEF k
  <2>4. q \in Seq(RecvToks)
    BY <2>1, <2>2, Segments, JoinType
  <2> HIDE DEF q
  <2>5. SameBut(r, sk[s], {"recvbuf"})
    BY <1>0, <2>4, RecvbufSet
  <2> HIDE DEF r
  <2>6. Alike(ts_last_io_set(r), sk[s])
    BY <1>8, <2>5 DEF SameBut
  <2> QED BY <1>3, <2>3, <2>6
<1>11. CASE OnReadEnd(s)
  <2> DEFINE r == ts_last_io_set(sk[s])
             t == [r EXCEPT !.retries = r.retries + 1]
  <2>1. /\ \/ Keep(sk, work_list, "exit")
           \/ Close(sk, s, work_list, "events")
           \/ sk' = [sk EXCEPT ![s] = t] /\ peer' = [peer EXCEPT ![s] = "fin"]
        /\ known' = known /\ "IN" \in sk[s].events
    BY <1>11 DEF OnReadEnd, Exit, OnRead
  <2>2. SameBut(sk[s], sk[s], {"events", "recvbuf"})
    BY <1>0 DEF SameBut
  <2>3. Alike(r, sk[s]) /\ r \in Sk
    BY <1>8, <2>2
  <2> HIDE DEF r
  <2>4. t.sendbuf = r.sendbuf /\ t.proto = r.proto /\ t.flags = r.flags
    BY <2>3 DEF Sk
  <2> HIDE DEF t
  <2>5. Alike(t, sk[s])
    BY <2>3, <2>4 DEF Alike, Closing
  <2>6. sk[s].proto # "free"
    BY <2>1, MuxFacts, SockFacts DEF SockInv, SkDestroyed
  <2> QED BY <1>2, <1>3, <2>1, <2>5, <2>6
<1>12. CASE OnWrite(s)
  BY <1>12, OnWriteSimulated
<1> QED BY <1>5, <1>6, <1>7, <1>9, <1>10, <1>11, <1>12 DEF Timeouts, Event

\* sk_accept begins a session.
LEMMA AcceptSimulated ==
    ASSUME MuxInv, NEW c \in Clients, sk_accept(c)
    PROVE  Sessions' /\ Simulated
<1>0. known' = known
  BY DEF sk_accept, Visited
<1>1. CASE Exit
  <2>1. Leaves(sk)
    BY <1>0, <1>1 DEF Exit, Keep, Leaves
  <2> QED BY <2>1, MuxFacts, LeavesAlike
<1>2. CASE sk' = [sk EXCEPT ![c] = SkInit("http")] /\ peer' = [peer EXCEPT ![c] = "up"]
  <2>1. /\ sk'[c] = SkInit("http") /\ peer'[c] = "up" /\ c \in Sockets
        /\ \A x \in Sockets \ {c} : sk'[x] = sk[x] /\ peer'[x] = peer[x]
    BY <1>2, MuxFacts DEF SkOK
  <2>2. peer[c] = "syn" /\ sk[c].proto = "free"
    BY MuxFacts DEF sk_accept, Pending, Sessions, SessionInv
  <2>3. sk[c] = SkDestroyed
    BY <2>1, <2>2, MuxFacts, SockFacts DEF SockInv
  <2>4. \A x \in Clients \ {c} : /\ Alike(sk'[x], sk[x])
                                 /\ PeersAlike(peer'[x], peer[x], sk[x])
    BY <2>1, MuxFacts, AlikeSame
  <2>5. /\ \A x \in Clients \ {c} : SessionInv(sk'[x], peer'[x])
        /\ phase' = [phase EXCEPT ![c] = phase'[c]]
        /\ leaving' = IF Closing(sk'[c]) THEN leaving \cup {c} ELSE leaving \ {c}
        /\ out' = [out EXCEPT ![c] = sk'[c].sendbuf]
    BY <2>4, MuxFacts, OneSession
  <2>6. /\ sk'[c].proto = "http" /\ sk'[c].sendbuf = <<>> /\ sk'[c].flags = {}
        /\ ~Closing(sk'[c])
        /\ sk[c].sendbuf = <<>> /\ ~Closing(sk[c])
    BY <2>1, <2>3 DEF SkInit, SkDestroyed, Closing
  <2>7. Sessions'
    BY <2>1, <2>5, <2>6 DEF Sessions, SessionInv
  <2>8. /\ phase[c] = "idle" /\ phase'[c] = "http" /\ c \notin leaving
        /\ out[c] = <<>>
    BY <2>1, <2>2, <2>6, Views
  <2>9. leaving' = leaving /\ out' = out
    BY <2>5, <2>6, <2>8, ViewTypes
  <2>10. sk'[Backend] = sk[Backend]
    BY <2>1, MuxFacts
  <2>11. Abstract!Accept(c)
    BY <1>0, <2>5, <2>8, <2>9, <2>10 DEF Abstract!Accept
  <2> QED BY <2>7, <2>11 DEF Simulated, Abstract!Next
<1> QED BY <1>1, <1>2 DEF sk_accept

\* Between the handlers, and outside the daemon, nothing happens to sessions.
LEMMA OutsideSimulated ==
    ASSUME MuxInv, Loop \/ Environment \/ UNCHANGED vars
    PROVE  Sessions' /\ Simulated
<1>1. UNCHANGED <<sk, known>>
  BY DEF Loop, Iterate, Sigterm, TryRecvDone, TimeoutsDone, EventsDone, ShutdownDone,
         epoll_wait, Goto, Environment, Connect, ClientSend, BackendSend, PeerClose,
         BackendConnect, Arrive, daemon, vars
<1>2. \/ UNCHANGED peer
      \/ \E c \in Clients : peer[c] = "none" /\ peer' = [peer EXCEPT ![c] = "syn"]
      \/ \E s \in Sockets : peer[s] = "up" /\ peer' = [peer EXCEPT ![s] = "fin"]
      \/ \E p : peer' = [peer EXCEPT ![Backend] = p]
  BY DEF Loop, Iterate, Sigterm, TryRecvDone, TimeoutsDone, EventsDone, ShutdownDone,
         epoll_wait, Goto, Environment, Connect, ClientSend, BackendSend, PeerClose,
         BackendConnect, Arrive, vars
<1>3. \A x \in Clients : PeersAlike(peer'[x], peer[x], sk[x])
  BY <1>2, MuxFacts DEF PeersAlike
<1> QED BY <1>1, <1>3, MuxFacts, AlikeSame, Stutters

\* Every step of the daemon is one of the multiplexer, or none.
LEMMA StepSimulated ==
    ASSUME MuxInv, [Next]_vars
    PROVE  Sessions' /\ Simulated
<1>1. CASE Loop \/ Environment \/ UNCHANGED vars
  BY <1>1, OutsideSimulated
<1>2. CASE Gone
  BY <1>2, OutsideSimulated DEF Gone
<1>3. CASE TryRecvFreed \/ PP2RecvStart
  BY <1>3, MuxFacts, RecvSimulated
<1>4. CASE WsDecodeFrame \/ PP2DecodeFrame
  BY <1>4, WsDecodeSimulated, PP2DecodeSimulated
<1>5. CASE \E c \in Clients : sk_accept(c)
  BY <1>5, AcceptSimulated
<1>6. CASE \E s \in Sockets : Recv(s) \/ Timeouts(s) \/ Event(s) \/ Shutdown(s)
  BY <1>6, RecvSimulated, HandlerSimulated
<1> QED BY <1>1, <1>2, <1>3, <1>4, <1>5, <1>6 DEF Next, Daemon

-----------------------------------------------------------------------------
(* What the backend sends                                                  *)

\* Sequences of a set are sequences of a larger one.
LEMMA SeqMonotone ==
    ASSUME NEW S, NEW T, S \subseteq T, NEW q \in Seq(S)
    PROVE  q \in Seq(T)
<1>1. Len(q) \in Nat /\ q \in [1 .. Len(q) -> S]
  BY LenProperties
<1>2. q \in [1 .. Len(q) -> T]
  BY <1>1
<1> QED BY <1>1, <1>2, SeqDef

\* What may be in the backend's buffers.
Messages == known \cup Partial \cup {"raw"}

\* The backend's buffers after a step hold nothing new.
LEMMA HeardNext ==
    ASSUME MuxInv, Simulated,
           sk'[Backend].recvbuf \in Seq(Messages), net'[Backend] \in Seq(Messages)
    PROVE  Heard'
<1>1. known \subseteq known'
  BY DEF Simulated, Abstract!Next, Abstract!vars, Abstract!Accept, Abstract!Upgrade,
         Abstract!Reject, Abstract!Control, Abstract!Down, Abstract!Up, Abstract!Deliver,
         Abstract!End, Abstract!DeliverUp, Abstract!LoseBackend
<1>2. Messages \subseteq (known \cup Partial \cup {"raw"})'
  BY <1>1 DEF Messages
<1> QED BY <1>2, SeqMonotone DEF Heard

\* Before a step they hold messages for clients the backend has heard of.
LEMMA HeardNow ==
    ASSUME MuxInv
    PROVE  /\ sk[Backend].recvbuf \in Seq(Messages) /\ net[Backend] \in Seq(Messages)
           /\ <<>> \in Seq(Messages) /\ <<"raw">> \in Seq(Messages)
           /\ net \in [Sockets -> Seq(RecvToks)]
  BY MuxFacts, TypedParts, EmptySeq DEF MuxInv, Heard, Messages, ListsOK

\* The functions that close or keep sockets leave the backend's buffers alone
\* or empty them.
LEMMA BackendKept ==
    ASSUME MuxInv, NEW skv, DOMAIN skv = Sockets, skv[Backend].recvbuf \in Seq(Messages),
           \/ \E s \in Sockets : \E wl, next : Close(skv, s, wl, next)
           \/ \E s \in Sockets : \E rv : TryRecvReturn(skv, s, rv)
           \/ \E wl, next : Keep(skv, wl, next)
           \/ Decoded(skv)
    PROVE  sk'[Backend].recvbuf \in Seq(Messages) /\ net'[Backend] \in Seq(Messages)
<1>1. ASSUME NEW s \in Sockets, NEW wl, NEW next, Close(skv, s, wl, next)
      PROVE  sk'[Backend].recvbuf \in Seq(Messages) /\ net'[Backend] \in Seq(Messages)
  <2>1. sk' = [skv EXCEPT ![s] = SkDestroyed] /\ net' = [net EXCEPT ![s] = <<>>]
    BY <1>1 DEF Close, pp2_close, sk_close
  <2>2. /\ s = Backend => sk'[Backend] = SkDestroyed /\ net'[Backend] = <<>>
        /\ s # Backend => sk'[Backend] = skv[Backend] /\ net'[Backend] = net[Backend]
    BY <2>1, HeardNow, MuxFacts
  <2>3. SkDestroyed.recvbuf = <<>>
    BY DEF SkDestroyed
  <2> QED BY <2>2, <2>3, HeardNow
<1>2. ASSUME NEW wl, NEW next, Keep(skv, wl, next)
      PROVE  sk'[Backend].recvbuf \in Seq(Messages) /\ net'[Backend] \in Seq(Messages)
  BY <1>2, HeardNow DEF Keep
<1>3. ASSUME NEW s \in Sockets, NEW rv, TryRecvReturn(skv, s, rv)
      PROVE  sk'[Backend].recvbuf \in Seq(Messages) /\ net'[Backend] \in Seq(Messages)
  BY <1>1, <1>2, <1>3 DEF TryRecvReturn
<1>4. CASE Decoded(skv)
  BY <1>4, HeardNow DEF Decoded
<1> QED BY <1>1, <1>2, <1>3, <1>4

\* A recv of a client leaves the backend's buffers alone.
LEMMA ClientHeard ==
    ASSUME MuxInv, NEW s \in Sockets,
           Recv(s) \/ PP2RecvStart \/ TryRecvFreed \/ WsDecodeFrame
    PROVE  sk'[Backend].recvbuf \in Seq(Messages) /\ net'[Backend] \in Seq(Messages)
<1>0. /\ SkOK(sk) /\ DOMAIN sk = Sockets /\ Backend \in Sockets /\ sk[Backend] \in Sk
      /\ sk[Backend].recvbuf \in Seq(Messages) /\ net[Backend] \in Seq(Messages)
      /\ <<>> \in Seq(Messages)
  BY MuxFacts, HeardNow DEF SkOK
<1>1. ASSUME NEW c \in Clients, NEW r
      PROVE  /\ DOMAIN [sk EXCEPT ![c] = r] = Sockets
             /\ [sk EXCEPT ![c] = r][Backend] = sk[Backend]
  BY <1>0, MuxFacts
<1>2. CASE RecvNothing(s) \/ TryRecvFreed
  BY <1>0, <1>2 DEF RecvNothing, TryRecvFreed, Exit, Undefined, Keep
<1>3. CASE WsRecvStart(s) \/ PP2RecvStart
  BY <1>0, <1>3 DEF WsRecvStart, PP2RecvStart, StartDecoding
<1>4. CASE SkOpen(s)
  BY <1>0, <1>4 DEF SkOpen, StartDecoding, SkInit
<1>5. CASE SkOpenFails(s) \/ HttpIncomplete(s)
  BY <1>0, <1>5, BackendKept DEF SkOpenFails, HttpIncomplete
<1>6. CASE HttpUpgrade(s) \/ HttpReject(s) \/ HttpGarbled(s)
  <2>1. PICK r : \E rv : TryRecvReturn([sk EXCEPT ![s] = r], s, rv)
    BY <1>6 DEF HttpUpgrade, HttpReject, HttpGarbled
  <2>2. s \in Clients
    BY <1>6, MuxFacts DEF HttpUpgrade, HttpReject, HttpGarbled, HttpRecv
  <2> QED BY <1>0, <1>1, <2>1, <2>2, BackendKept
<1>7. CASE WsDecodeFrame
  <2>0. cur \in Clients /\ cur \in Sockets /\ cur # Backend
    <3>1. pc = "decode" /\ sk[cur].proto = "ws"
      BY <1>7 DEF WsDecodeFrame, WsIncomplete, WsBad, PP2Encode, PP2EncodeAgain,
             FinishClosingHandshake, WsClose, WsPing, WsPong, WsUnknown, WsDecode
    <3> QED BY <3>1, MuxFacts DEF Typed
  <2>1. ASSUME NEW r, NEW rv, WsReturn([sk EXCEPT ![cur] = r], rv)
        PROVE  sk'[Backend].recvbuf \in Seq(Messages) /\ net'[Backend] \in Seq(Messages)
    <3> DEFINE skv == [sk EXCEPT ![cur] = r]
               skw == WsRecvTail(skv)
    <3>1. TryRecvReturn(skw, cur, rv)
      BY <2>1 DEF WsReturn
    <3>2. DOMAIN skv = Sockets /\ skv[Backend] = sk[Backend]
      BY <1>1, <2>0
    <3> HIDE DEF skv
    <3>3. DOMAIN skw = Sockets
      BY <3>2 DEF WsRecvTail
    <3>4. skw[Backend] \in {sk[Backend], turn_on_events(sk[Backend], {"OUT"})}
      BY <1>0, <2>0, <3>2 DEF WsRecvTail
    <3> HIDE DEF skw
    <3>5. turn_on_events(sk[Backend], {"OUT"}).recvbuf = sk[Backend].recvbuf
      BY <1>0, TurnOn, Constants DEF SameBut
    <3>6. skw[Backend].recvbuf \in Seq(Messages)
      BY <1>0, <3>4, <3>5
    <3> QED BY <2>0, <3>1, <3>3, <3>6, BackendKept
  <2>2. ASSUME NEW r, Decoded([sk EXCEPT ![cur] = r])
        PROVE  sk'[Backend].recvbuf \in Seq(Messages) /\ net'[Backend] \in Seq(Messages)
    BY <1>0, <1>1, <2>0, <2>2 DEF Decoded
  <2>3. CASE WsIncomplete \/ WsBad
    <3>1. [sk EXCEPT ![cur] = sk[cur]] = sk
      BY <2>0, MuxFacts
    <3> QED BY <2>1, <2>3, <3>1 DEF WsIncomplete, WsBad
  <2>4. CASE PP2Encode
    <3> DEFINE r == [sk[cur] EXCEPT !.recvbuf = Tail(sk[cur].recvbuf)]
               b == [sk[Backend] EXCEPT !.sendbuf = Append(sk[Backend].sendbuf, cur)]
    <3>1. sk' = [sk EXCEPT ![cur] = r, ![Backend] = b] /\ net' = net
      BY <1>0, <2>0, <2>4 DEF PP2Encode, Decoded
    <3>2. b.recvbuf = sk[Backend].recvbuf
      BY <1>0 DEF Sk
    <3> HIDE DEF r, b
    <3>3. sk'[Backend] = b
      BY <1>0, <2>0, <3>1
    <3> QED BY <1>0, <3>1, <3>2, <3>3
  <2>5. CASE PP2EncodeAgain
    <3>1. \E r, rv : WsReturn([sk EXCEPT ![cur] = r], rv)
      BY <2>5 DEF PP2EncodeAgain
    <3> QED BY <2>1, <3>1
  <2>6. CASE FinishClosingHandshake
    <3>1. \E r : Decoded([sk EXCEPT ![cur] = r])
      <4> DEFINE r == [sk[cur] EXCEPT !.recvbuf = <<>>,
                                      !.flags = (@ \ {"closing"}) \cup {"close"}]
      <4>1. Decoded([sk EXCEPT ![cur] = r])
        BY <1>0, <2>0, <2>6 DEF FinishClosingHandshake, SkOK
      <4> HIDE DEF r
      <4> QED BY <4>1
    <3> QED BY <2>2, <3>1
  <2>7. CASE WsClose
    <3>1. \/ \E r : Decoded([sk EXCEPT ![cur] = r])
          \/ \E r, rv : WsReturn([sk EXCEPT ![cur] = r], rv)
      BY <2>7 DEF WsClose
    <3> QED BY <2>1, <2>2, <3>1
  <2>8. ASSUME NEW t \in WsToks, WsPing(t) \/ WsPong(t) \/ WsUnknown(t)
        PROVE  sk'[Backend].recvbuf \in Seq(Messages) /\ net'[Backend] \in Seq(Messages)
    <3>1. \/ Exit
          \/ \E r : Decoded([sk EXCEPT ![cur] = r])
          \/ \E r, rv : WsReturn([sk EXCEPT ![cur] = r], rv)
      BY <2>8 DEF WsPing, WsPong, WsUnknown
    <3>2. CASE Exit
      BY <1>0, <3>2 DEF Exit, Keep
    <3> QED BY <2>1, <2>2, <3>1, <3>2
  <2> QED BY <1>7, <2>3, <2>4, <2>5, <2>6, <2>7, <2>8 DEF WsDecodeFrame
<1> QED BY <1>2, <1>3, <1>4, <1>5, <1>6, <1>7 DEF Recv

\* pp2_decode_frame takes messages off the recvbuf; what it leaves of one it
\* cannot encode is no message.
LEMMA PP2Heard ==
    ASSUME MuxInv, PP2DecodeFrame
    PROVE  sk'[Backend].recvbuf \in Seq(Messages) /\ net'[Backend] \in Seq(Messages)
<1>0. /\ SkOK(sk) /\ DOMAIN sk = Sockets /\ Backend \in Sockets /\ sk[Backend] \in Sk
      /\ sk[Backend].recvbuf \in Seq(Messages) /\ net[Backend] \in Seq(Messages)
      /\ <<"raw">> \in Seq(Messages)
  BY MuxFacts, HeardNow DEF SkOK
<1>1. CASE PP2Incomplete \/ PP2Again \/ PP2Garbled
  BY <1>0, <1>1, BackendKept DEF PP2Incomplete, PP2Again, PP2Garbled, PP2Return
<1>2. ASSUME NEW d \in Clients, PP2Drop(d) \/ PP2Forward(d)
      PROVE  sk'[Backend].recvbuf \in Seq(Messages) /\ net'[Backend] \in Seq(Messages)
  <2> DEFINE rest == Tail(sk[Backend].recvbuf)
             b == [sk[Backend] EXCEPT !.recvbuf = rest]
             g == [sk[Backend] EXCEPT !.recvbuf = <<"raw">> \o rest]
             q == ws_encode_frame(sk[d], sk[Backend])
             skb == [sk EXCEPT ![Backend] = b]
             skg == [sk EXCEPT ![Backend] = g]
             skq == [sk EXCEPT ![Backend] = b, ![d] = q]
  <2>0. d # Backend /\ d \in Sockets /\ sk[Backend].recvbuf # <<>>
    BY <1>2, MuxFacts DEF PP2Drop, PP2Forward, PP2Message
  <2>1. Undefined \/ PP2Return(skg, "EAGAIN") \/ Decoded(skb) \/ Decoded(skq)
    BY <1>0, <1>2, <2>0 DEF PP2Drop, PP2Forward, SkOK
  <2>2. rest \in Seq(Messages) /\ <<"raw">> \o rest \in Seq(Messages)
    BY <1>0, <2>0, HeadTailProperties, ConcatProperties
  <2>3. b.recvbuf = rest /\ g.recvbuf = <<"raw">> \o rest
    BY <1>0 DEF Sk
  <2> HIDE DEF rest, b, g, q
  <2>4. /\ DOMAIN skb = Sockets /\ DOMAIN skg = Sockets /\ DOMAIN skq = Sockets
        /\ skb[Backend] = b /\ skg[Backend] = g /\ skq[Backend] = b
    BY <1>0, <2>0
  <2> HIDE DEF skb, skg, skq
  <2>5. CASE Undefined
    BY <1>0, <2>5 DEF Undefined, Keep
  <2> QED BY <1>0, <2>1, <2>2, <2>3, <2>4, <2>5, BackendKept DEF PP2Return
<1> QED BY <1>1, <1>2 DEF PP2DecodeFrame

\* on_read takes input off the net in the order it arrived.
LEMMA EventHeard ==
    ASSUME MuxInv, NEW s \in Sockets, Timeouts(s) \/ Event(s) \/ Shutdown(s)
    PROVE  sk'[Backend].recvbuf \in Seq(Messages) /\ net'[Backend] \in Seq(Messages)
<1>0. /\ SkOK(sk) /\ DOMAIN sk = Sockets /\ Backend \in Sockets /\ sk[s] \in Sk
      /\ sk[Backend] \in Sk
      /\ sk[Backend].recvbuf \in Seq(Messages) /\ net[Backend] \in Seq(Messages)
      /\ net \in [Sockets -> Seq(RecvToks)]
  BY MuxFacts, HeardNow DEF SkOK
<1>1. ASSUME NEW r, r.recvbuf = sk[s].recvbuf, sk' = [sk EXCEPT ![s] = r],
             UNCHANGED net
      PROVE  sk'[Backend].recvbuf \in Seq(Messages) /\ net'[Backend] \in Seq(Messages)
  BY <1>0, <1>1
<1>2. ASSUME NEW next, Close(sk, s, work_list, next) \/ Keep(sk, work_list, next)
      PROVE  sk'[Backend].recvbuf \in Seq(Messages) /\ net'[Backend] \in Seq(Messages)
  BY <1>0, <1>2, BackendKept
<1>3. CASE IdleTimedOut(s)
  <2> DEFINE q == ws_start_closing_handshake(sk[s])
             r == Flag(q, {"ts_closing_handshake_start"})
  <2>1. \/ Close(sk, s, work_list, "check_timeouts")
        \/ sk' = [sk EXCEPT ![s] = r] /\ UNCHANGED net
    BY <1>3 DEF IdleTimedOut, Keep
  <2>2. SameBut(q, sk[s], {"events", "flags", "sendbuf"})
    BY <1>0, ClosingStarted
  <2> HIDE DEF q
  <2>3. SameBut(r, q, {"flags"})
    BY <2>2, FlagSet, Constants DEF SameBut
  <2> HIDE DEF r
  <2> QED BY <1>1, <1>2, <2>1, <2>2, <2>3 DEF SameBut
<1>4. CASE Ping(s)
  <2>1. \/ Keep(sk, work_list, "ub") \/ Keep(sk, work_list, "check_timeouts")
        \/ sk' = [sk EXCEPT ![s] = ws_ping(sk[s])] /\ UNCHANGED net
    BY <1>4 DEF Ping, Undefined, Keep
  <2>2. SameBut(ws_ping(sk[s]), sk[s], {"events", "sendbuf"})
    BY <1>0, Queued, Constants DEF ws_ping
  <2> QED BY <1>1, <1>2, <2>1, <2>2 DEF SameBut
<1>5. CASE ClosingTimedOut(s) \/ NoTimeout(s) \/ Shutdown(s)
           \/ OnWriteFails(s) \/ OnHup(s) \/ NotWritable(s)
  <2>1. \E next : Close(sk, s, work_list, next) \/ Keep(sk, work_list, next)
    BY <1>5 DEF ClosingTimedOut, NoTimeout, Shutdown, OnWriteFails, OnHup, NotWritable, Exit
  <2> QED BY <1>2, <2>1
<1>6. ASSUME NEW r \in Sk
      PROVE  ts_last_io_set(r).recvbuf = r.recvbuf /\ ts_last_io_set(r) \in Sk
  BY FlagSet, Constants DEF ts_last_io_set, SameBut
<1>7. CASE OnReadFull(s)
  <2> DEFINE r == turn_off_events(sk[s], {"IN"})
  <2>1. SameBut(r, sk[s], {"events"})
    BY <1>0, TurnOff, Constants
  <2>2. sk' = [sk EXCEPT ![s] = ts_last_io_set(r)] /\ UNCHANGED net
    BY <1>7 DEF OnReadFull, post_read
  <2> HIDE DEF r
  <2>3. ts_last_io_set(r).recvbuf = sk[s].recvbuf
    BY <1>6, <2>1 DEF SameBut
  <2> QED BY <1>1, <2>2, <2>3
<1>8. CASE OnReadData(s)
  <2> DEFINE room == RecvCap - Len(sk[s].recvbuf)
             k == IF Len(net[s]) < room THEN Len(net[s]) ELSE room
             q == Join(sk[s].recvbuf, SubSeq(net[s], 1, k))
             r == [sk[s] EXCEPT !.recvbuf = q]
             rest == SubSeq(net[s], k + 1, Len(net[s]))
  <2>1. /\ net[s] \in Seq(RecvToks) /\ sk[s].recvbuf \in Seq(RecvToks)
        /\ Len(sk[s].recvbuf) \in Nat /\ Len(net[s]) \in Nat /\ RecvCap \in Nat
    BY <1>0, LenProperties, CapsAssumption DEF Sk
  <2>2. k \in 0 .. Len(net[s])
    BY <1>8, <2>1 DEF OnReadData
  <2>3. /\ sk' = [sk EXCEPT ![s] = ts_last_io_set(r)]
        /\ net' = [net EXCEPT ![s] = rest]
    BY <1>8 DEF OnReadData, post_read, sk_read
  <2> HIDE DEF k
  <2>4. /\ q \in Seq(RecvToks)
        /\ s = Backend => q \in Seq(Messages) /\ rest \in Seq(Messages)
    BY <1>0, <2>1, <2>2, Segments, JoinType
  <2> HIDE DEF q, rest
  <2>5. SameBut(r, sk[s], {"recvbuf"}) /\ r.recvbuf = q
    BY <1>0, <2>4, RecvbufSet
  <2> HIDE DEF r
  <2>6. ts_last_io_set(r).recvbuf = q
    BY <1>6, <2>5 DEF SameBut
  <2> QED BY <1>0, <2>3, <2>4, <2>6
<1>9. CASE OnReadEnd(s)
  <2> DEFINE r == ts_last_io_set(sk[s])
             t == [r EXCEPT !.retries = r.retries + 1]
  <2>1. \/ Keep(sk, work_list, "exit")
        \/ Close(sk, s, work_list, "events")
        \/ sk' = [sk EXCEPT ![s] = t] /\ UNCHANGED net
    BY <1>9 DEF OnReadEnd, Exit
  <2>2. r \in Sk /\ r.recvbuf = sk[s].recvbuf
    BY <1>0, <1>6
  <2> HIDE DEF r
  <2>3. t.recvbuf = sk[s].recvbuf
    BY <2>2 DEF Sk
  <2> HIDE DEF t
  <2> QED BY <1>1, <1>2, <2>1, <2>3
<1>10. CASE OnWrite(s)
  <2>1. PICK k \in 0 .. Len(sk[s].sendbuf) : Written(s, k)
    BY <1>10 DEF OnWrite
  <2> DEFINE r == ts_last_io_set(sk_write(sk[s], k))
  <2>2. r.recvbuf = sk[s].recvbuf
    BY <1>0, <2>1, WrittenType DEF SameBut
  <2>3. \/ Close(sk, s, work_list, "events")
        \/ sk' = [sk EXCEPT ![s] = r] /\ UNCHANGED net
    BY <2>1 DEF Written, Keep
  <2> HIDE DEF r
  <2> QED BY <1>1, <1>2, <2>2, <2>3
<1> QED BY <1>3, <1>4, <1>5, <1>7, <1>8, <1>9, <1>10 DEF Timeouts, Event

\* The backend sends to clients it has heard of.
LEMMA EnvironmentHeard ==
    ASSUME MuxInv, Environment
    PROVE  sk'[Backend].recvbuf \in Seq(Messages) /\ net'[Backend] \in Seq(Messages)
<1>0. /\ sk[Backend].recvbuf \in Seq(Messages) /\ net[Backend] \in Seq(Messages)
      /\ <<>> \in Seq(Messages) /\ net \in [Sockets -> Seq(RecvToks)]
      /\ Backend \in Sockets /\ Backend \notin Clients
  BY HeardNow, MuxFacts
<1>1. sk' = sk
  BY DEF Environment, Connect, ClientSend, BackendSend, PeerClose, BackendConnect,
         Arrive, daemon
<1>2. CASE \E c \in Clients, t \in ClientToks : ClientSend(c, t)
  BY <1>0, <1>1, <1>2 DEF ClientSend, Arrive
<1>3. ASSUME NEW t \in known \cup BackendFrags, BackendSend(t)
      PROVE  net'[Backend] \in Seq(Messages)
  <2>1. t \in Messages
    BY InputsAssumption DEF Messages
  <2>2. Join(net[Backend], <<t>>) \in Seq(Messages)
    <3>1. <<t>> \in Seq(Messages)
      BY <2>1
    <3> QED BY <1>0, <3>1, JoinType
  <2>3. net' = [net EXCEPT ![Backend] = Join(net[Backend], <<t>>)]
    BY <1>3 DEF BackendSend, Arrive
  <2> QED BY <1>0, <2>2, <2>3
<1>4. CASE \E s \in Sockets : PeerClose(s)
  BY <1>0, <1>1, <1>4 DEF PeerClose
<1>5. CASE UNCHANGED net
  BY <1>0, <1>1, <1>5
<1> QED BY <1>0, <1>1, <1>2, <1>3, <1>4, <1>5 DEF Environment, Connect, BackendConnect

-----------------------------------------------------------------------------
(* The inductive invariant                                                 *)

\* A handler changes the record of its socket only.
LEMMA HandlerOne ==
    ASSUME MuxInv, NEW s \in Sockets, Timeouts(s) \/ Event(s) \/ Shutdown(s)
    PROVE  /\ todo' = todo \ {s}
           /\ \A x \in Sockets \ {s} : sk'[x] = sk[x]
<1>1. todo' = todo \ {s}
  BY DEF Timeouts, Event, Shutdown, IdleTimedOut, ClosingTimedOut, Ping, NoTimeout,
         OnReadFull, OnReadData, OnReadEnd, OnRead, OnWrite, OnWriteFails, OnWritable,
         OnHup, NotWritable, OnEvent, CheckTimeouts, Visited
<1>2. \/ \E next : Close(sk, s, work_list, next)
      \/ sk' = sk
      \/ \E r : sk' = [sk EXCEPT ![s] = r]
  <2>1. CASE Timeouts(s) \/ Shutdown(s)
    BY <2>1 DEF Timeouts, Shutdown, IdleTimedOut, ClosingTimedOut, Ping, NoTimeout,
                Undefined, Keep
  <2>2. CASE OnReadFull(s) \/ OnReadData(s) \/ OnReadEnd(s)
    BY <2>2 DEF OnReadFull, OnReadData, OnReadEnd, post_read, Exit, Keep
  <2>3. CASE OnWrite(s) \/ OnWriteFails(s) \/ OnHup(s) \/ NotWritable(s)
    BY <2>3 DEF OnWrite, OnWriteFails, OnHup, NotWritable, Written, Exit, Keep
  <2> QED BY <2>1, <2>2, <2>3 DEF Event
<1>3. ASSUME NEW next, Close(sk, s, work_list, next)
      PROVE  \A x \in Sockets \ {s} : sk'[x] = sk[x]
  BY <1>3, MuxFacts, CloseEffect
<1> QED BY <1>1, <1>2, <1>3, MuxFacts DEF SkOK

\* Batches of events and walks over sk_list visit clients that exist.
LEMMA ListsOpenNext ==
    ASSUME MuxInv, [Next]_vars
    PROVE  ListsOpen'
<1>0. ListsOpen /\ Listener \notin Clients
  BY SocketsAssumption DEF MuxInv, Sockets
<1>1. CASE UNCHANGED vars \/ Gone \/ Environment
  <2>1. UNCHANGED <<sk, pc, todo>>
    BY <1>1 DEF vars, daemon, Gone, Environment, Connect, ClientSend, BackendSend,
                PeerClose, BackendConnect, Arrive
  <2> QED BY <1>0, <2>1 DEF ListsOpen
<1>2. CASE Loop
  <2>1. /\ sk' = sk
        /\ pc' \in {"events", "check_timeouts", "shutdown"} =>
              todo' \subseteq sk_list \cup {Listener}
    <3>1. CASE epoll_wait
      BY <3>1 DEF epoll_wait, Ready
    <3> QED BY <1>2, <3>1 DEF Loop, Iterate, Sigterm, TryRecvDone, TimeoutsDone, EventsDone,
               ShutdownDone, Goto
  <2> QED BY <1>0, <2>1 DEF ListsOpen, sk_list, Open
<1>3. CASE \/ TryRecvFreed \/ PP2RecvStart \/ WsDecodeFrame \/ PP2DecodeFrame
           \/ \E s \in Sockets : Recv(s)
  <2>1. ASSUME NEW skv, NEW s, NEW rv, TryRecvReturn(skv, s, rv)
        PROVE  pc' \in {"try_recv", "ub"}
    BY <2>1 DEF TryRecvReturn, Keep, Close, sk_close, pp2_close
  <2>2. CASE TryRecvFreed \/ PP2RecvStart \/ \E s \in Sockets : Recv(s)
    <3>1. \/ pc' \in {"exit", "ub", "decode"}
          \/ \E skv, s, rv : TryRecvReturn(skv, s, rv)
      BY <2>2 DEF TryRecvFreed, PP2RecvStart, Recv, RecvNothing, HttpIncomplete,
                  HttpUpgrade, HttpReject, HttpGarbled, WsRecvStart, SkOpen, SkOpenFails,
                  StartDecoding, Exit, Undefined, Keep
    <3> QED BY <2>1, <3>1 DEF ListsOpen
  <2>3. CASE WsDecodeFrame
    <3>1. \/ pc' = pc \/ pc' = "exit"
          \/ \E skv, s, rv : TryRecvReturn(skv, s, rv)
      BY <2>3 DEF WsDecodeFrame, WsIncomplete, WsBad, PP2Encode, PP2EncodeAgain,
                  FinishClosingHandshake, WsClose, WsPing, WsPong, WsUnknown, WsReturn,
                  Decoded, Exit, Keep
    <3>2. pc = "decode"
      BY <2>3 DEF WsDecodeFrame, WsIncomplete, WsBad, PP2Encode, PP2EncodeAgain,
                  FinishClosingHandshake, WsClose, WsPing, WsPong, WsUnknown, WsDecode
    <3> QED BY <2>1, <3>1, <3>2 DEF ListsOpen
  <2>4. CASE PP2DecodeFrame
    <3>1. \/ pc' = pc \/ pc' = "ub"
          \/ \E skv, s, rv : TryRecvReturn(skv, s, rv)
      BY <2>4 DEF PP2DecodeFrame, PP2Incomplete, PP2Again, PP2Garbled, PP2Drop, PP2Forward,
                  PP2Return, Decoded, Undefined, Keep
    <3>2. pc = "decode"
      BY <2>4 DEF PP2DecodeFrame, PP2Incomplete, PP2Again, PP2Garbled, PP2Drop, PP2Forward,
                  PP2Message, PP2Decode
    <3> QED BY <2>1, <3>1, <3>2 DEF ListsOpen
  <2> QED BY <1>3, <2>2, <2>3, <2>4
<1>4. ASSUME NEW c \in Clients, sk_accept(c)
      PROVE  ListsOpen'
  <2>1. /\ todo' = todo \ {Listener} /\ pc = "events"
        /\ sk' = sk \/ sk' = [sk EXCEPT ![c] = SkInit("http")]
    BY <1>4 DEF sk_accept, Visited, Exit, Keep
  <2>2. \A x \in Clients : sk[x].proto # "free" => sk'[x].proto # "free"
    BY <2>1, MuxFacts DEF SkInit, SkOK
  <2> QED BY <1>0, <2>1, <2>2 DEF ListsOpen
<1>5. ASSUME NEW s \in Sockets, Timeouts(s) \/ Event(s) \/ Shutdown(s)
      PROVE  ListsOpen'
  <2>1. /\ todo' = todo \ {s}
        /\ \A x \in Sockets \ {s} : sk'[x] = sk[x]
    BY <1>5, HandlerOne
  <2>2. pc \in {"events", "check_timeouts", "shutdown"}
    BY <1>5 DEF Timeouts, Event, Shutdown, IdleTimedOut, ClosingTimedOut, Ping, NoTimeout,
         OnReadFull, OnReadData, OnReadEnd, OnRead, OnWrite, OnWriteFails, OnWritable,
         OnHup, NotWritable, OnEvent, CheckTimeouts
  <2> QED BY <1>0, <2>1, <2>2, MuxFacts DEF ListsOpen
<1> QED BY <1>1, <1>2, <1>3, <1>4, <1>5 DEF Next, Daemon

\* What was queued for the backend, or has reached it, came from upgraded
\* clients: a property of the multiplexer, whatever step of it was taken.
LEMMA SpokenNext ==
    ASSUME MuxInv, Simulated, Typed'
    PROVE  Spoken'
<1> DEFINE up == sk[Backend].sendbuf
           InUp(c) == \E i \in 1 .. Len(up) : up[i] = c
<1>0. /\ up \in Seq(Clients) /\ Len(up) \in Nat
      /\ \A c \in Clients : c \in known \/ InUp(c) => phase[c] \in {"ws", "over"}
  BY MuxFacts, LenProperties DEF MuxInv, Spoken, SkOK
<1> SUFFICES ASSUME NEW c \in Clients,
                    c \in known' \/ (\E i \in 1 .. Len(up') : up'[i] = c)
             PROVE  phase'[c] \in {"ws", "over"}
  BY DEF Spoken
<1>1. CASE phase' = phase
  <2>1. c \in known \/ InUp(c) \/ phase[c] = "ws"
    <3>1. CASE up' = up /\ known' = known
      BY <3>1
    <3>2. CASE up' = <<>> /\ known' = known
      BY <3>2, EmptySeq
    <3>3. ASSUME NEW d \in Clients, phase[d] = "ws", up' = Append(up, d), known' = known
          PROVE  c \in known \/ InUp(c) \/ phase[c] = "ws"
      <4>1. /\ Len(up') = Len(up) + 1 /\ up'[Len(up) + 1] = d
            /\ \A i \in 1 .. Len(up) : up'[i] = up[i]
        BY <1>0, <3>3, AppendProperties
      <4> HIDE DEF up
      <4>2. \A i \in 1 .. Len(up') : i \in 1 .. Len(up) \/ i = Len(up) + 1
        BY <1>0, <4>1
      <4> QED BY <3>3, <4>1, <4>2
    <3>4. ASSUME NEW k \in 1 .. Len(up), up' = SubSeq(up, k + 1, Len(up)),
                 known' = known \cup {up[i] : i \in 1 .. k}
          PROVE  c \in known \/ InUp(c) \/ phase[c] = "ws"
      <4>0. /\ k + 1 \in 1 .. Len(up) + 1 /\ k \in Nat
            /\ \A i \in k + 1 .. Len(up) : i \in 1 .. Len(up)
        BY <1>0
      <4>1. /\ Len(up') = Len(up) - k
            /\ \A i \in 1 .. Len(up') : up'[i] = up[k + i]
        <5>1. \A i \in k + 1 .. Len(up) : up[i] \in Clients
          BY <1>0, <4>0, ElementOfSeq
        <5> HIDE DEF up
        <5>2. /\ Len(SubSeq(up, k + 1, Len(up))) = Len(up) - (k + 1) + 1
              /\ \A i \in 1 .. Len(up) - (k + 1) + 1 :
                    SubSeq(up, k + 1, Len(up))[i] = up[k + 1 + i - 1]
          BY <1>0, <4>0, SubSeqProperties
        <5> QED BY <1>0, <3>4, <4>0, <5>2
      <4> HIDE DEF up
      <4>2. \A i \in 1 .. Len(up') : k + i \in 1 .. Len(up)
        BY <1>0, <4>0, <4>1
      <4>3. \A i \in 1 .. k : i \in 1 .. Len(up)
        BY <1>0, <4>0
      <4> QED BY <3>4, <4>1, <4>2, <4>3
    <3> QED BY <1>1, <3>1, <3>2, <3>3, <3>4
         DEF Simulated, Abstract!Next, Abstract!vars, Abstract!Accept, Abstract!Upgrade,
         Abstract!Reject, Abstract!Control, Abstract!Down, Abstract!Up, Abstract!Deliver,
         Abstract!End, Abstract!DeliverUp, Abstract!LoseBackend
  <2> QED BY <1>0, <1>1, <2>1
<1>2. CASE phase' # phase
  <2>1. \E d \in Clients : Abstract!Accept(d) \/ Abstract!Upgrade(d) \/ Abstract!End(d)
    BY <1>2 DEF Simulated, Abstract!Next, Abstract!vars,
         Abstract!Reject, Abstract!Control, Abstract!Down, Abstract!Up, Abstract!Deliver,
         Abstract!DeliverUp, Abstract!LoseBackend
  <2>2. PICK d \in Clients : Abstract!Accept(d) \/ Abstract!Upgrade(d) \/ Abstract!End(d)
    BY <2>1
  <2>3. up' = up /\ known' = known
    BY <2>2 DEF Abstract!Accept, Abstract!Upgrade, Abstract!End
  <2>4. phase[c] \in {"ws", "over"}
    BY <1>0, <2>3
  <2>5. \/ phase[d] = "idle" \/ phase[d] = "http"
        \/ phase' = [phase EXCEPT ![d] = "over"]
    BY <2>2 DEF Abstract!Accept, Abstract!Upgrade, Abstract!End
  <2>6. \E p : phase' = [phase EXCEPT ![d] = p]
    BY <2>2 DEF Abstract!Accept, Abstract!Upgrade, Abstract!End
  <2> QED BY <2>4, <2>5, <2>6, ViewTypes
<1> QED BY <1>1, <1>2

-----------------------------------------------------------------------------
(* The refinement                                                          *)

\* The initial states of the daemon satisfy the invariant and are those of the
\* multiplexer.
LEMMA MuxInvInit == Init => MuxInv /\ Abstract!Init
<1> SUFFICES ASSUME Init
             PROVE  MuxInv /\ Abstract!Init
  OBVIOUS
<1>1. Inv
  BY InvInit
<1>2. /\ \A s \in Sockets : sk[s] = SkDestroyed /\ net[s] = <<>> /\ peer[s] = "none"
      /\ known = {} /\ pc = "loop" /\ Clients \subseteq Sockets /\ Backend \in Sockets
  BY DEF Init, Sockets
<1>3. /\ SkDestroyed.proto = "free" /\ SkDestroyed.flags = {}
      /\ SkDestroyed.sendbuf = <<>> /\ SkDestroyed.recvbuf = <<>>
  BY DEF SkDestroyed
<1>4. Sessions
  BY <1>2, <1>3 DEF Sessions, SessionInv
<1>5. Heard
  BY <1>2, <1>3, EmptySeq DEF Heard
<1>6. ListsOpen
  BY <1>2 DEF ListsOpen
<1>7. Len(sk[Backend].sendbuf) = 0
  BY <1>2, <1>3
<1>8. Spoken
  BY <1>2, <1>7 DEF Spoken
<1>9. phase = [c \in Clients |-> "idle"]
  BY <1>2, <1>3 DEF phase, Open
<1>10. leaving = {} /\ out = [c \in Clients |-> <<>>]
  BY <1>2, <1>3 DEF leaving, out
<1>11. Abstract!Init
  BY <1>2, <1>3, <1>9, <1>10 DEF Abstract!Init
<1> QED BY <1>1, <1>4, <1>5, <1>6, <1>8, <1>11 DEF MuxInv

\* Every step keeps the invariant.
LEMMA MuxInvNext == MuxInv /\ [Next]_vars => MuxInv' /\ Simulated
<1> SUFFICES ASSUME MuxInv, [Next]_vars
             PROVE  MuxInv' /\ Simulated
  OBVIOUS
<1>1. Inv'
  BY InvNext DEF MuxInv
<1>2. Sessions' /\ Simulated
  BY StepSimulated
<1>3. ListsOpen'
  BY ListsOpenNext
<1>4. Spoken'
  BY <1>1, <1>2, SpokenNext DEF Inv
<1>5. sk'[Backend].recvbuf \in Seq(Messages) /\ net'[Backend] \in Seq(Messages)
  <2>0. /\ sk[Backend].recvbuf \in Seq(Messages) /\ net[Backend] \in Seq(Messages)
        /\ Backend \in Sockets /\ Backend \notin Clients /\ SkOK(sk)
    BY HeardNow, MuxFacts
  <2>1. CASE Loop \/ Gone \/ UNCHANGED vars
    <3>1. sk' = sk /\ net' = net
      BY <2>1 DEF Loop, Iterate, Sigterm, TryRecvDone, TimeoutsDone, EventsDone,
                  ShutdownDone, epoll_wait, Goto, Gone, vars, daemon
    <3> QED BY <2>0, <3>1
  <2>2. CASE \E c \in Clients : sk_accept(c)
    <3>1. PICK c \in Clients : sk_accept(c)
      BY <2>2
    <3>2. net' = net /\ (sk' = sk \/ sk' = [sk EXCEPT ![c] = SkInit("http")])
      BY <3>1 DEF sk_accept, Exit, Keep
    <3>3. c # Backend
      BY <2>0
    <3> HIDE DEF Messages
    <3> QED BY <2>0, <3>2, <3>3 DEF SkOK
  <2>3. CASE TryRecvFreed \/ PP2RecvStart \/ WsDecodeFrame
    BY <2>0, <2>3, ClientHeard
  <2>4. CASE PP2DecodeFrame
    BY <2>4, PP2Heard
  <2>5. CASE Environment
    BY <2>5, EnvironmentHeard
  <2>6. CASE \E s \in Sockets : Recv(s) \/ Timeouts(s) \/ Event(s) \/ Shutdown(s)
    BY <2>6, ClientHeard, EventHeard
  <2> QED BY <2>1, <2>2, <2>3, <2>4, <2>5, <2>6 DEF Next, Daemon
<1>6. Heard'
  BY <1>2, <1>5, HeardNext
<1> QED BY <1>1, <1>2, <1>3, <1>4, <1>6 DEF MuxInv

\* The inductive invariant of the refinement.
THEOREM MuxInvariance == Spec => []MuxInv
<1> QED BY MuxInvInit, MuxInvNext, PTL DEF Spec

\* For any number of clients and any size of the buffers, what clients and
\* backend see of the daemon is the multiplexer of Mux: the answer to the request
\* first and nothing after a 400, one close frame and no ping or pong behind it,
\* every queue in order, and data only to clients the backend has heard of.
THEOREM Refinement == Spec => ImplementsMux
<1>1. MuxInv /\ [Next]_vars => [Abstract!Next]_(Abstract!vars)
  BY MuxInvNext DEF Simulated
<1> QED BY <1>1, MuxInvInit, MuxInvariance, PTL DEF Spec, ImplementsMux, Abstract!Spec

-----------------------------------------------------------------------------
(* What ends the daemon                                                    *)

\* The causes CrashCauses lists.
Cause ==
    \/ pc = "decode" /\ AssertsClosing(cur)
    \/ /\ pc = "check_timeouts" /\ PingInterval
       /\ \E c \in todo \cap Clients : sk[c].proto = "http" /\ todo' = todo \ {c}
    \/ /\ pc = "try_recv"
       /\ \E s \in todo \cap sk_list : sk[s].recvbuf = <<>>
    \/ Freed \in work_list
    \/ /\ pc = "events" /\ todo' = todo \ {Listener}
       /\ Cardinality(sk_list \ {Backend}) >= MaxSk
    \/ pc = "events" /\ \E s \in todo \cap sk_list : Writes(s)

Crashes == pc' \in {"exit", "ub"}

\* Closing a socket crashes only on a freed node of work_list.
LEMMA CloseCrash ==
    ASSUME NEW skv, NEW s, NEW wl \in SUBSET work_list, NEW next,
           next \notin {"exit", "ub"}, Close(skv, s, wl, next), Crashes
    PROVE  Freed \in work_list
  BY DEF Close, sk_close, pp2_close, Crashes

\* And so does the end of a recv.
LEMMA ReturnCrash ==
    ASSUME NEW skv, NEW s, NEW rv, TryRecvReturn(skv, s, rv), Crashes
    PROVE  Freed \in work_list
<1>1. CASE Close(skv, s, work_list \ {s}, "try_recv")
  <2>1. work_list \ {s} \in SUBSET work_list
    OBVIOUS
  <2> QED BY <1>1, <2>1, CloseCrash
<1> QED BY <1>1 DEF TryRecvReturn, Keep, Crashes

\* try_recv crashes on an empty recvbuf, or on a freed node.
LEMMA RecvCrash ==
    ASSUME MuxInv, NEW s \in Sockets, Recv(s) \/ PP2RecvStart \/ TryRecvFreed, Crashes
    PROVE  Cause
<1>1. CASE RecvNothing(s)
  BY <1>1 DEF RecvNothing, TryRecv, Open, sk_list, Cause
<1>2. CASE \E skv, rv : TryRecvReturn(skv, s, rv)
  BY <1>2, ReturnCrash DEF Cause
<1>3. CASE TryRecvFreed
  BY <1>3 DEF TryRecvFreed, MuxInv, Inv, ControlInv, Cause
<1>4. ~(PP2RecvStart \/ WsRecvStart(s) \/ SkOpen(s))
  BY DEF PP2RecvStart, WsRecvStart, SkOpen, StartDecoding, Crashes
<1> QED BY <1>1, <1>2, <1>3, <1>4 DEF Recv, HttpIncomplete, HttpUpgrade, HttpReject,
           HttpGarbled, SkOpenFails

\* ws_recv crashes on a ping or an unknown opcode during a closing handshake.
LEMMA WsDecodeCrash ==
    ASSUME MuxInv, WsDecodeFrame, Crashes
    PROVE  Cause
<1>1. CASE \E skv, rv : TryRecvReturn(skv, cur, rv)
  BY <1>1, ReturnCrash DEF Cause
<1>2. pc = "decode"
  BY DEF WsDecodeFrame, WsIncomplete, WsBad, PP2Encode, PP2EncodeAgain,
         FinishClosingHandshake, WsClose, WsPing, WsPong, WsUnknown, WsDecode
<1>3. ~ \E skv : Decoded(skv)
  BY <1>2 DEF Decoded, Crashes
<1>4. CASE \E t \in {"ping", "pingp", "unknown", "unknownp"} :
              WsDecode(t) /\ "closing" \in sk[cur].flags
  BY <1>2, <1>4 DEF WsDecode, AssertsClosing, Cause
<1>5. ASSUME NEW t, WsPing(t) \/ WsPong(t) \/ WsUnknown(t)
      PROVE  Cause
  BY <1>1, <1>3, <1>4, <1>5 DEF WsPing, WsPong, WsUnknown, WsReturn
<1>6. ~PP2Encode /\ ~FinishClosingHandshake
  BY <1>3 DEF PP2Encode, FinishClosingHandshake
<1>7. CASE WsIncomplete \/ WsBad \/ PP2EncodeAgain
  BY <1>1, <1>7 DEF WsIncomplete, WsBad, PP2EncodeAgain, WsReturn
<1>8. CASE WsClose
  BY <1>1, <1>3, <1>8 DEF WsClose, WsReturn
<1> QED BY <1>5, <1>6, <1>7, <1>8 DEF WsDecodeFrame

\* pp2_recv crashes on a freed node only: the backend answers clients it has
\* heard of, and those have been upgraded.
LEMMA PP2DecodeCrash ==
    ASSUME MuxInv, PP2DecodeFrame, Crashes
    PROVE  Cause
<1>1. CASE \E skv, rv : TryRecvReturn(skv, Backend, rv)
  BY <1>1, ReturnCrash DEF Cause
<1>2. pc = "decode"
  BY DEF PP2DecodeFrame, PP2Incomplete, PP2Again, PP2Garbled, PP2Drop, PP2Forward,
         PP2Message, PP2Decode
<1>3. ~ \E skv : Decoded(skv)
  BY <1>2 DEF Decoded, Crashes
<1>4. ASSUME NEW d \in Clients, PP2Forward(d)
      PROVE  Cause
  <2>1. d \in known /\ sk[d].proto # "free" /\ sk[d] \in Sk
    BY <1>4, MessageHeard, MuxFacts DEF PP2Forward, Open
  <2>2. phase[d] = sk[d].proto
    BY <2>1, Views
  <2>3. phase[d] \in {"ws", "over"}
    BY <2>1 DEF MuxInv, Spoken
  <2>4. sk[d].proto = "ws"
    BY <2>1, <2>2, <2>3 DEF Sk, Protos
  <2> QED BY <1>1, <1>3, <1>4, <2>4 DEF PP2Forward, PP2Return
<1>5. ~ \E d \in Clients : PP2Drop(d)
  BY <1>3 DEF PP2Drop
<1>6. CASE PP2Incomplete \/ PP2Again \/ PP2Garbled
  BY <1>1, <1>6 DEF PP2Incomplete, PP2Again, PP2Garbled, PP2Return
<1> QED BY <1>4, <1>5, <1>6 DEF PP2DecodeFrame

\* The timeouts crash on the ping timer of a client in HTTP, the shutdown not on
\* its own.
LEMMA TimeoutsCrash ==
    ASSUME MuxInv, NEW s \in Sockets, Timeouts(s) \/ Shutdown(s), Crashes
    PROVE  Cause
<1>1. CASE \E next \in {"check_timeouts", "shutdown"} : Close(sk, s, work_list, next)
  BY <1>1, CloseCrash DEF Cause
<1>2. CASE Ping(s)
  <2>1. sk[s].proto = "http"
    BY <1>2 DEF Ping, Keep, Crashes
  <2>2. s \in Clients
    BY <2>1, MuxFacts
  <2> QED BY <1>2, <2>1, <2>2 DEF Ping, CheckTimeouts, Visited, Cause
<1>3. ~NoTimeout(s)
  BY DEF NoTimeout, Keep, Crashes
<1>4. CASE IdleTimedOut(s)
  BY <1>1, <1>4 DEF IdleTimedOut, Keep, Crashes
<1>5. CASE ClosingTimedOut(s) \/ Shutdown(s)
  BY <1>1, <1>5 DEF ClosingTimedOut, Shutdown
<1> QED BY <1>2, <1>3, <1>4, <1>5 DEF Timeouts

\* The handlers crash on a freed node and on a write to a connection that was
\* reset.  on_read is not called on a socket that waits to be closed.
LEMMA EventCrash ==
    ASSUME MuxInv, NEW s \in Sockets, Event(s), Crashes
    PROVE  Cause
<1>1. CASE Close(sk, s, work_list, "events")
  BY <1>1, CloseCrash DEF Cause
<1>2. pc = "events" /\ s \in todo /\ todo' = todo \ {s}
  BY DEF Event, OnReadFull, OnReadData, OnReadEnd, OnRead, OnWrite, OnWriteFails,
         OnWritable, OnHup, NotWritable, OnEvent
<1>3. SockInv(s, sk[s], s \in work_list, Lax(s), Mine(s), Served)
  BY DEF MuxInv, Inv, SocketsInv
<1>4. ASSUME OnRead(s)
      PROVE  OnReadAsserts(s)
  <2>1. ~Mine(s) /\ "IN" \in sk[s].events
    BY <1>2, <1>4 DEF Mine, Halted, OnRead
  <2> QED BY <1>3, <2>1 DEF SockInv, Waiting, OnReadAsserts
<1>5. CASE OnReadFull(s) \/ OnReadData(s)
  BY <1>2, <1>4, <1>5 DEF OnReadFull, OnReadData, post_read, Crashes, Cause
<1>6. CASE OnReadEnd(s)
  BY <1>1, <1>2, <1>4, <1>6 DEF OnReadEnd, Crashes
<1>7. CASE OnWrite(s)
  BY <1>1, <1>7 DEF OnWrite, Written, Keep, Crashes
<1>8. CASE OnWriteFails(s)
  <2>1. sk[s].sendbuf # <<>>
    BY <1>8 DEF OnWriteFails
  <2>2. sk[s].proto # "free"
    BY <1>3, <2>1 DEF SockInv, SkDestroyed
  <2> QED BY <1>2, <1>8, <2>2 DEF OnWriteFails, OnWritable, Writes, sk_list, Open, Cause
<1>9. CASE OnHup(s) \/ NotWritable(s)
  BY <1>1, <1>9 DEF OnHup, NotWritable, Keep, Crashes
<1> QED BY <1>5, <1>6, <1>7, <1>8, <1>9 DEF Event

\* sk_accept crashes when descriptors have run out.
LEMMA AcceptCrash ==
    ASSUME MuxInv, NEW c \in Clients, sk_accept(c), Crashes
    PROVE  Cause
<1>1. pc = "events" /\ todo' = todo \ {Listener}
  BY DEF sk_accept, Visited
<1>2. ~(Cardinality(sk_list \ {Backend}) < MaxSk)
  BY <1>1 DEF sk_accept, Crashes
<1>3. sk_list \ {Backend} \subseteq Clients
  BY DEF sk_list, Sockets
<1>4. Cardinality(sk_list \ {Backend}) \in Nat
  BY <1>3, FS_Subset, FS_CardinalityType, SocketsAssumption
<1>5. Cardinality(sk_list \ {Backend}) >= MaxSk
  BY <1>2, <1>4, CapsAssumption
<1> QED BY <1>1, <1>5 DEF Cause

\* Only the listed causes end the daemon, whatever clients and backend send and
\* in whatever order: no input fails the assertions of on_read, or reaches the
\* encode_frame that a client in HTTP does not have.
THEOREM CrashCausesProved == Spec => CrashCauses
<1>1. MuxInv /\ [Next]_vars => [Crashes /\ pc \notin Halted => Cause]_vars
  <2> SUFFICES ASSUME MuxInv, Next, Crashes, pc \notin Halted
               PROVE  Cause
    OBVIOUS
  <2>1. ~(Loop \/ (pc = "epoll_wait" /\ Environment) \/ Gone)
    BY DEF Loop, Iterate, Sigterm, TryRecvDone, TimeoutsDone, EventsDone, ShutdownDone,
           epoll_wait, Goto, Environment, Connect, ClientSend, BackendSend, PeerClose,
           BackendConnect, Arrive, daemon, Gone, Crashes, Halted
  <2>2. Backend \in Sockets
    BY DEF Sockets
  <2> QED BY <2>1, <2>2, RecvCrash, WsDecodeCrash, PP2DecodeCrash, TimeoutsCrash,
             EventCrash, AcceptCrash DEF Next, Daemon
<1>2. [Crashes /\ pc \notin Halted => Cause]_vars
      => [pc' \in {"exit", "ub"} /\ pc \notin Halted =>
          \/ pc = "decode" /\ AssertsClosing(cur)
          \/ /\ pc = "check_timeouts" /\ PingInterval
             /\ \E c \in todo \cap Clients : sk[c].proto = "http" /\ todo' = todo \ {c}
          \/ /\ pc = "try_recv"
             /\ \E s \in todo \cap sk_list : sk[s].recvbuf = <<>>
          \/ Freed \in work_list
          \/ /\ pc = "events" /\ todo' = todo \ {Listener}
             /\ Cardinality(sk_list \ {Backend}) >= MaxSk
          \/ pc = "events" /\ \E s \in todo \cap sk_list : Writes(s)]_vars
  BY DEF Crashes, Cause
<1> QED BY <1>1, <1>2, MuxInvariance, PTL DEF Spec, CrashCauses

=============================================================================
