----------------------------- MODULE MCWschild -----------------------------
(***************************************************************************)
(* Instances of Wschild for TLC.                                           *)
(***************************************************************************)
EXTENDS WschildMux

CONSTANTS c1, c2

OneClient == {c1}
TwoClients == {c1, c2}

\* Clients are interchangeable; used where only safety is checked.
ClientSymmetry == Permutations(Clients)

\* Bound: one client is served, and another one at most connects.
OneSession == Cardinality({c \in Clients : peer[c] \notin {"none", "syn"}}) <= 1

\* Bound: no closing handshake, and no leftover payload once a peer is gone.
Bare == \A s \in Sockets : "raw" \notin Range(sk[s].recvbuf)
Calm ==
    /\ leaving = {}
    /\ (\E s \in Sockets : peer[s] \in {"fin", "refused", "gone"}) => Bare
=============================================================================
