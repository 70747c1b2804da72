------------------------------ MODULE Failover ------------------------------
(***************************************************************************)
(* Which forwarding host wsd connects to (-h, given several times).        *)
(*                                                                         *)
(* num is the host to use.  next_host moves it on when a name does not     *)
(* resolve (ws_recv) and when a read fails with one of four values of      *)
(* errno (check_errno, called by on_read for every socket, clients'        *)
(* included).  An end of file is reported to check_errno, too, which then  *)
(* sees the errno some earlier call has left.                              *)
(*                                                                         *)
(* Wschild leaves the hosts and errno open; here they are kept, and what   *)
(* is not needed to tell hosts apart is left out: buffers and frames, the  *)
(* work list, timers.                                                      *)
(***************************************************************************)
EXTENDS Integers

CONSTANTS
    Clients,        \* client sockets
    Backend,        \* the socket pp2sk
    FhostnameNum    \* number of forwarding hosts

Sockets == Clients \cup {Backend}
Hosts == 0 .. FhostnameNum - 1

ASSUME FailoverAssumption ==
    /\ Backend \notin Clients
    /\ FhostnameNum \in Nat \ {0}

VARIABLES
    resolves,   \* hosts whose name resolves
    listens,    \* hosts that accept connections
    num,        \* index of the current forwarding host
    conn,       \* each socket: none, syn, up, refused (an error is pending),
                \* reset (likewise), or eof (reads return 0)
    retries,    \* sk->retries
    at,         \* the host pp2sk was last opened for
    errno       \* "retry": one of the four values; "other": anything else

vars == <<resolves, listens, num, conn, retries, at, errno>>

Errno == {"retry", "other"}

TypeOK ==
    /\ resolves \subseteq Hosts
    /\ listens \subseteq Hosts
    /\ num \in Hosts
    /\ conn \in [Sockets -> {"none", "syn", "up", "refused", "reset", "eof"}]
    /\ retries \in [Sockets -> Nat]
    /\ at \in Hosts
    /\ errno \in Errno

Init ==
    /\ resolves \in SUBSET Hosts
    /\ listens \in SUBSET Hosts
    /\ num = 0
    /\ conn = [s \in Sockets |-> "none"]
    /\ retries = [s \in Sockets |-> 0]
    /\ at = 0
    /\ errno = "other"

-----------------------------------------------------------------------------
(* ws_recv opens pp2sk                                                     *)

\* Mutation of next_host: no wrap-around.
M_next_host(k) == num + k

\* num after k calls of next_host.
next_host(k) == (num + k) % FhostnameNum

\* Mutation of Unresolved: the same name is tried again and again.
M_Unresolved(k) == k = 0 \/ (k = FhostnameNum /\ num \notin resolves)

\* sk_open has failed with WSD_EAI for the first k hosts, starting at num.
Unresolved(k) == \A i \in 0 .. k - 1 : next_host(i) \notin resolves

\* A frame of c arrives and there is no connection: the first host from num on
\* whose name resolves is connected to, which leaves EINPROGRESS in errno.
SkOpen(c) ==
    /\ conn[c] = "up"
    /\ conn[Backend] = "none"
    /\ \E k \in 0 .. FhostnameNum - 1 :
          /\ Unresolved(k)
          /\ next_host(k) \in resolves
          /\ num' = next_host(k)
          /\ at' = next_host(k)
    /\ conn' = [conn EXCEPT ![Backend] = "syn"]
    /\ retries' = [retries EXCEPT ![Backend] = 0]
    /\ errno' = "other"
    /\ UNCHANGED <<resolves, listens>>

\* The client is closed when no name resolves, or when connect fails at once:
\* a local host that does not listen answers within the call (WSD_EBADREQ).
SkOpenFails(c) ==
    /\ conn[c] = "up"
    /\ conn[Backend] = "none"
    /\ \E k \in 0 .. FhostnameNum :
          /\ Unresolved(k)
          /\ num' = next_host(k)
          /\ \/ k = FhostnameNum
             \/ k < FhostnameNum /\ next_host(k) \in resolves \ listens
          /\ errno' \in IF k = FhostnameNum THEN {errno, "other"} ELSE {"retry"}
    /\ conn' = [conn EXCEPT ![c] = "none"]
    /\ UNCHANGED <<resolves, listens, retries, at>>

-----------------------------------------------------------------------------
(* on_read of a socket whose connection has ended                          *)

\* What read leaves in errno: the pending error, or what was there before.
ReadErrno(s) ==
    IF conn[s] = "refused" THEN "retry"
    ELSE IF conn[s] = "reset" THEN "other"
    ELSE errno

\* Mutation of MayRetry: one read too many.
M_MayRetry(s) == retries[s] < FhostnameNum

\* Mutation of MayRetry: one read too few.
M_MayRetryLess(s) == retries[s] + 2 < FhostnameNum

\* sk->retries < wsd_cfg->fhostname_num, after retries++.
MayRetry(s) == retries[s] + 1 < FhostnameNum

\* check_errno moves to the next host; the socket stays, for its next event to
\* read it again, until it has been read as often as there are hosts.
OnReadRetry(s) ==
    /\ conn[s] \in {"refused", "reset", "eof"}
    /\ ReadErrno(s) = "retry"
    /\ num' = next_host(1)
    /\ IF MayRetry(s)
       THEN /\ conn' = [conn EXCEPT ![s] = "eof"]
            /\ retries' = [retries EXCEPT ![s] = @ + 1]
       ELSE /\ conn' = [conn EXCEPT ![s] = "none"]
            /\ retries' = [retries EXCEPT ![s] = 0]
    /\ errno' = "retry"
    /\ UNCHANGED <<resolves, listens, at>>

\* ops->close.
OnReadClose(s) ==
    /\ conn[s] \in {"refused", "reset", "eof"}
    /\ ReadErrno(s) = "other"
    /\ conn' = [conn EXCEPT ![s] = "none"]
    /\ retries' = [retries EXCEPT ![s] = 0]
    /\ errno' = "other"
    /\ UNCHANGED <<resolves, listens, num, at>>

-----------------------------------------------------------------------------
(* Clients, hosts and the network                                          *)

\* The connection to the host is established, or refused; one whose packets
\* are lost times out, which reads like a refusal.
Connect ==
    /\ conn[Backend] = "syn"
    /\ \E r \in {"up", "refused"} :
          /\ r = "up" => at \in listens
          /\ r = "refused" => at \notin listens
          /\ conn' = [conn EXCEPT ![Backend] = r]
    /\ UNCHANGED <<resolves, listens, num, retries, at, errno>>

Arrive(c) ==
    /\ conn[c] = "none"
    /\ conn' = [conn EXCEPT ![c] = "up"]
    /\ UNCHANGED <<resolves, listens, num, retries, at, errno>>

\* A connection ends: orderly, by a reset, or it times out.
End(s) ==
    /\ conn[s] = "up"
    /\ \E r \in {"eof", "reset", "refused"} : conn' = [conn EXCEPT ![s] = r]
    /\ UNCHANGED <<resolves, listens, num, retries, at, errno>>

-----------------------------------------------------------------------------
Next ==
    \/ Connect
    \/ \E c \in Clients : SkOpen(c) \/ SkOpenFails(c) \/ Arrive(c)
    \/ \E s \in Sockets : OnReadRetry(s) \/ OnReadClose(s) \/ End(s)

\* The daemon runs and serves every ready socket, connections are answered, and
\* clients keep coming and sending frames: not all leave before their first.
Fairness ==
    /\ WF_vars(Connect)
    /\ WF_vars(\E c \in Clients : Arrive(c))
    /\ SF_vars(\E c \in Clients : SkOpen(c))
    /\ \A s \in Sockets : WF_vars(OnReadRetry(s) \/ OnReadClose(s))

Spec == Init /\ [][Next]_vars /\ Fairness

-----------------------------------------------------------------------------
(* Properties                                                              *)

\* A socket whose connection has ended is read at most FhostnameNum times, each
\* time with one step of num, and then closed: retries counts them and a new
\* socket starts at 0.
ReadsBounded ==
    \A s \in Sockets : /\ retries[s] < FhostnameNum
                       /\ retries[s] > 0 => conn[s] = "eof"

\* With one client, every step num has moved on since pp2sk was opened is one
\* of the retries of a socket that is still there: a circle that is completed
\* brings num back to the host that refused the connection, and an end of file
\* with a stale errno moves it no further.  (A second client can open pp2sk in
\* the middle of another socket's circle.)
HostAccounted ==
    conn[Backend] # "none" =>
        \A c \in Clients :
            Clients = {c} => num = (at + retries[Backend] + retries[c]) % FhostnameNum

\* Hosts whose names do not resolve are passed over: if every other one accepts
\* connections, and there is one, the daemon is connected again and again.
NamesPassedOver ==
    (resolves # {} /\ resolves \subseteq listens) => []<>(conn[Backend] = "up")

\* wsd.8: the daemon "connects to the first host available".  With a host that
\* resolves and accepts connections, it gets connected.
ConnectsToAvailable ==
    (resolves \cap listens # {}) => <>(conn[Backend] = "up")

=============================================================================
