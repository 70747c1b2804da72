--------------------------- MODULE FailoverProofs ---------------------------
(***************************************************************************)
(* The safety properties of Failover, for any number of hosts and clients. *)
(***************************************************************************)
EXTENDS Failover, TLAPS

-----------------------------------------------------------------------------
(* Arithmetic of next_host                                                 *)

\* Quotient and remainder are unique.
LEMMA Remainder ==
    ASSUME NEW F \in Nat \ {0}, NEW q \in Int, NEW p \in Int,
           NEW r \in 0 .. F - 1, NEW t \in 0 .. F - 1, F * q + r = F * p + t
    PROVE  r = t
<1>1. F * (q - p) = t - r
  OBVIOUS
<1>2. CASE q - p >= 1
  <2>1. F * (q - p) >= F
    BY <1>2
  <2> QED BY <1>1, <2>1
<1>3. CASE q - p <= -1
  <2>1. F * (q - p) <= -F
    BY <1>3
  <2> QED BY <1>1, <2>1
<1>4. CASE q - p = 0
  BY <1>1, <1>4
<1> QED BY <1>2, <1>3, <1>4

\* What % returns.
LEMMA ModDef ==
    ASSUME NEW F \in Nat \ {0}, NEW x \in Int
    PROVE  x % F \in 0 .. F - 1 /\ x = F * (x \div F) + (x % F) /\ x \div F \in Int
  OBVIOUS

\* An index is its own remainder.
LEMMA ModSmall ==
    ASSUME NEW F \in Nat \ {0}, NEW x \in 0 .. F - 1
    PROVE  x % F = x
<1> DEFINE q == x \div F
           r == x % F
<1>1. x \in Int /\ 0 \in Int
  OBVIOUS
<1>2. q \in Int /\ r \in 0 .. F - 1 /\ x = F * q + r
  BY <1>1, ModDef
<1> HIDE DEF q, r
<1>3. F * q + r = F * 0 + x
  BY <1>2
<1>4. r = x
  BY <1>1, <1>2, <1>3, Remainder
<1> QED BY <1>4 DEF r

\* One step of num after k steps are k + 1 steps.
LEMMA ModNext ==
    ASSUME NEW F \in Nat \ {0}, NEW x \in Int
    PROVE  ((x % F) + 1) % F = (x + 1) % F
<1> DEFINE y == (x % F) + 1
           p == x \div F
           q == y \div F
           o == (x + 1) \div F
<1>1. y \in Int /\ p \in Int /\ q \in Int /\ o \in Int /\ p + q \in Int
  BY ModDef
<1>2. x + 1 = F * p + y
  BY ModDef
<1>3. y = F * q + (y % F)
  BY <1>1, ModDef
<1>4. x + 1 = F * o + ((x + 1) % F)
  BY ModDef
<1>5. y % F \in 0 .. F - 1 /\ (x + 1) % F \in 0 .. F - 1
  BY <1>1, ModDef
<1> HIDE DEF y, p, q, o
<1>6. F * (p + q) + (y % F) = F * o + ((x + 1) % F)
  BY <1>1, <1>2, <1>3, <1>4, <1>5
<1>7. y % F = (x + 1) % F
  BY <1>1, <1>5, <1>6, Remainder
<1> QED BY <1>7 DEF y

\* A full circle.
LEMMA ModCircle ==
    ASSUME NEW F \in Nat \ {0}, NEW x \in Int
    PROVE  (x + F) % F = x % F
<1> DEFINE p == x \div F
           o == (x + F) \div F
           r == x % F
           t == (x + F) % F
<1>0. x + F \in Int
  OBVIOUS
<1>1. x = F * p + r /\ p \in Int /\ r \in 0 .. F - 1
  BY ModDef
<1>2. x + F = F * o + t /\ o \in Int /\ t \in 0 .. F - 1
  BY <1>0, ModDef
<1> HIDE DEF p, o, r, t
<1>3. F * (p + 1) = F * p + F
  BY <1>1
<1>4. F * (p + 1) + r = F * o + t /\ p + 1 \in Int
  BY <1>1, <1>2, <1>3
<1>5. r = t
  BY <1>1, <1>2, <1>4, Remainder
<1> QED BY <1>5 DEF r, t

\* next_host is the index of a host.
LEMMA NextHost ==
    ASSUME TypeOK, NEW k \in Nat
    PROVE  next_host(k) \in Hosts
  BY ModDef, FailoverAssumption DEF TypeOK, Hosts, next_host

-----------------------------------------------------------------------------
(* The inductive invariant                                                 *)

\* While there is a connection to the backend, a client's socket that is being
\* read again has left errno as it found it: the next read moves num on, too.
ErrnoKept ==
    conn[Backend] # "none" =>
        \A c \in Clients : Clients = {c} /\ retries[c] > 0 => errno = "retry"

Inv == TypeOK /\ ReadsBounded /\ ErrnoKept /\ HostAccounted

\* The invariant holds when the daemon starts.
LEMMA InvInit == Init => Inv
<1> SUFFICES ASSUME Init PROVE Inv
  OBVIOUS
<1>1. FhostnameNum \in Nat /\ FhostnameNum > 0 /\ Backend \in Sockets
  BY FailoverAssumption DEF Sockets
<1>2. TypeOK
  BY <1>1 DEF Init, TypeOK, Hosts, Errno
<1>3. ReadsBounded
  BY <1>1 DEF Init, ReadsBounded
<1>4. conn[Backend] = "none"
  BY <1>1 DEF Init
<1> QED BY <1>2, <1>3, <1>4 DEF Inv, ErrnoKept, HostAccounted

\* A socket is opened for the first host that resolves, or none.
LEMMA OpenInv ==
    ASSUME Inv, NEW c \in Clients, SkOpen(c) \/ SkOpenFails(c)
    PROVE  Inv'
<1> USE FailoverAssumption
<1>0. c \in Sockets /\ Backend \in Sockets /\ c # Backend /\ retries[c] = 0
  BY DEF Sockets, Inv, TypeOK, ReadsBounded, SkOpen, SkOpenFails
<1>1. CASE SkOpen(c)
  <2>1. PICK k \in 0 .. FhostnameNum - 1 : num' = next_host(k) /\ at' = next_host(k)
    BY <1>1 DEF SkOpen
  <2>2. num' \in Hosts /\ at' = num'
    BY <2>1, NextHost DEF Inv
  <2>3. TypeOK'
    BY <1>1, <2>2 DEF SkOpen, Inv, TypeOK, Errno
  <2>4. ReadsBounded' /\ ErrnoKept'
    BY <1>0, <1>1 DEF SkOpen, Inv, TypeOK, ReadsBounded, ErrnoKept
  <2>5. ASSUME Clients = {c}
        PROVE  num' = (at' + retries'[Backend] + retries'[c]) % FhostnameNum
    <3>1. retries'[Backend] = 0 /\ retries'[c] = 0
      BY <1>0, <1>1 DEF SkOpen, Inv, TypeOK
    <3>2. num' \in 0 .. FhostnameNum - 1
      BY <2>2 DEF Hosts
    <3>3. num' % FhostnameNum = num'
      BY <3>2, ModSmall
    <3>4. \A n \in 0 .. FhostnameNum - 1 : n + 0 + 0 = n
      OBVIOUS
    <3> QED BY <2>2, <3>1, <3>2, <3>3, <3>4, Zenon
  <2> QED BY <2>3, <2>4, <2>5 DEF Inv, HostAccounted
<1>2. CASE SkOpenFails(c)
  <2>1. PICK k \in 0 .. FhostnameNum : num' = next_host(k)
    BY <1>2 DEF SkOpenFails
  <2>2. num' \in Hosts
    BY <2>1, NextHost DEF Inv
  <2>3. errno' \in Errno
    BY <1>2 DEF SkOpenFails, Inv, TypeOK, Errno
  <2>4. TypeOK'
    BY <1>2, <2>2, <2>3 DEF SkOpenFails, Inv, TypeOK
  <2> QED BY <1>0, <1>2, <2>4 DEF SkOpenFails, Inv, TypeOK, ReadsBounded, ErrnoKept,
                                 HostAccounted
<1> QED BY <1>1, <1>2

\* A read that moves num on.
LEMMA RetryInv ==
    ASSUME Inv, NEW s \in Sockets, OnReadRetry(s)
    PROVE  Inv'
<1> USE FailoverAssumption
<1>1. num' = next_host(1) /\ num' \in Hosts
  BY NextHost DEF OnReadRetry, Inv
<1>2. /\ retries[s] \in Nat /\ Backend \in Sockets
      /\ retries[s] < FhostnameNum
  BY DEF Sockets, Inv, TypeOK, ReadsBounded
<1>3. TypeOK'
  BY <1>1, <1>2 DEF OnReadRetry, Inv, TypeOK, Errno
<1>4. ReadsBounded'
  BY <1>2 DEF OnReadRetry, MayRetry, Inv, TypeOK, ReadsBounded
<1>5. ErrnoKept'
  BY DEF OnReadRetry, ErrnoKept
<1>6. HostAccounted'
  <2> SUFFICES ASSUME conn'[Backend] # "none", NEW c \in Clients, Clients = {c}
               PROVE  num' = (at' + retries'[Backend] + retries'[c]) % FhostnameNum
    BY DEF HostAccounted
  <2> DEFINE x == at + retries[Backend] + retries[c]
  <2>1. /\ c \in Sockets /\ s \in {c, Backend} /\ c # Backend
        /\ retries[c] \in Nat /\ retries[Backend] \in Nat /\ at \in Nat /\ x \in Nat
        /\ at' = at
    BY DEF Sockets, Inv, TypeOK, Hosts, OnReadRetry
  <2>2. conn[Backend] # "none"
    BY DEF Sockets, OnReadRetry, Inv, TypeOK
  <2>3. num = x % FhostnameNum
    BY <2>2 DEF Inv, HostAccounted
  <2>4. num' = (x + 1) % FhostnameNum
    <3>1. num' = ((x % FhostnameNum) + 1) % FhostnameNum
      BY <1>1, <2>3 DEF next_host
    <3> QED BY <2>1, <3>1, ModNext
  <2>5. CASE MayRetry(s)
    <3>1. retries' = [retries EXCEPT ![s] = @ + 1] /\ retries \in [Sockets -> Nat]
      BY <2>5 DEF OnReadRetry, Inv, TypeOK
    <3>2. \/ retries'[c] = retries[c] + 1 /\ retries'[Backend] = retries[Backend]
          \/ retries'[c] = retries[c] /\ retries'[Backend] = retries[Backend] + 1
      BY <1>2, <2>1, <3>1
    <3>3. at' + retries'[Backend] + retries'[c] = x + 1
      BY <2>1, <3>2
    <3> QED BY <2>4, <3>3
  <2>6. CASE ~MayRetry(s)
    <3>1. s = c
      BY <2>1, <2>6 DEF OnReadRetry, Inv, TypeOK
    <3>2. retries[c] + 1 = FhostnameNum
      BY <1>2, <2>6, <3>1 DEF MayRetry
    <3>3. retries'[c] = 0 /\ retries'[Backend] = retries[Backend]
      <4>1. retries' = [retries EXCEPT ![s] = 0] /\ retries \in [Sockets -> Nat]
        BY <2>6 DEF OnReadRetry, Inv, TypeOK
      <4> QED BY <1>2, <2>1, <3>1, <4>1
    <3> DEFINE y == at' + retries'[Backend] + retries'[c]
    <3>4. y \in Int /\ x + 1 = y + FhostnameNum
      BY <2>1, <3>2, <3>3
    <3> HIDE DEF x, y
    <3>5. num' = y % FhostnameNum
      BY <2>4, <3>4, ModCircle
    <3> QED BY <3>5 DEF y
  <2> QED BY <2>5, <2>6
<1> QED BY <1>3, <1>4, <1>5, <1>6 DEF Inv

\* A read that closes the socket.
LEMMA CloseInv ==
    ASSUME Inv, NEW s \in Sockets, OnReadClose(s)
    PROVE  Inv'
<1> USE FailoverAssumption
<1>1. TypeOK' /\ ReadsBounded'
  BY DEF OnReadClose, Inv, TypeOK, ReadsBounded, Errno
<1>2. ASSUME conn'[Backend] # "none", NEW c \in Clients, Clients = {c}
      PROVE  /\ retries' = retries
             /\ retries'[c] = 0
             /\ conn[Backend] # "none"
  <2>1. s = c /\ c \in Sockets /\ Backend \in Sockets /\ c # Backend
    BY <1>2 DEF OnReadClose, Inv, TypeOK, Sockets
  <2>2. conn[Backend] # "none"
    BY <1>2, <2>1 DEF OnReadClose, Inv, TypeOK
  <2>3. retries[c] = 0
    BY <1>2, <2>1, <2>2 DEF OnReadClose, ReadErrno, Inv, TypeOK, ReadsBounded, ErrnoKept
  <2> QED BY <2>1, <2>2, <2>3 DEF OnReadClose, Inv, TypeOK
<1>3. ErrnoKept'
  BY <1>2 DEF ErrnoKept
<1>4. HostAccounted'
  BY <1>2 DEF OnReadClose, Inv, HostAccounted
<1> QED BY <1>1, <1>3, <1>4 DEF Inv

\* What clients, hosts and the network do.
LEMMA NetInv ==
    ASSUME Inv, Connect \/ (\E c \in Clients : Arrive(c)) \/ (\E s \in Sockets : End(s))
    PROVE  Inv'
<1>0. UNCHANGED <<resolves, listens, num, retries, at, errno>>
  BY DEF Connect, Arrive, End
<1>1. PICK s \in Sockets, r \in {"up", "eof", "reset", "refused"} :
         /\ conn' = [conn EXCEPT ![s] = r]
         /\ conn[s] # "eof"
         /\ s = Backend => conn[s] # "none"
  BY FailoverAssumption DEF Connect, Arrive, End, Sockets
<1>2. TypeOK' /\ ReadsBounded'
  BY <1>0, <1>1 DEF Inv, TypeOK, ReadsBounded
<1>3. conn'[Backend] # "none" => conn[Backend] # "none"
  BY <1>1 DEF Inv, TypeOK, Sockets
<1>4. ErrnoKept' /\ HostAccounted'
  BY <1>0, <1>3 DEF Inv, ErrnoKept, HostAccounted
<1> QED BY <1>2, <1>4 DEF Inv

\* Every step preserves the invariant.
LEMMA InvNext == Inv /\ [Next]_vars => Inv'
<1> SUFFICES ASSUME Inv, [Next]_vars PROVE Inv'
  OBVIOUS
<1>1. CASE UNCHANGED vars
  BY <1>1 DEF vars, Inv, TypeOK, ReadsBounded, ErrnoKept, HostAccounted
<1> QED BY <1>1, OpenInv, RetryInv, CloseInv, NetInv DEF Next

\* The invariant holds throughout.
THEOREM Invariance == Spec => []Inv
  BY InvInit, InvNext, PTL DEF Spec

-----------------------------------------------------------------------------
(* The properties                                                          *)

\* num is the index of a host, however often next_host is called.
THEOREM TypeCorrect == Spec => []TypeOK
<1>1. Inv => TypeOK
  BY DEF Inv
<1> QED BY <1>1, Invariance, PTL

\* A dead socket is read at most as often as there are hosts.
THEOREM ReadsBoundedProved == Spec => []ReadsBounded
<1>1. Inv => ReadsBounded
  BY DEF Inv
<1> QED BY <1>1, Invariance, PTL

\* With one client, num is where the retries of the sockets that are still there
\* have brought it: a completed circle ends at the host that refused.
THEOREM HostAccountedProved == Spec => []HostAccounted
<1>1. Inv => HostAccounted
  BY DEF Inv
<1> QED BY <1>1, Invariance, PTL

=============================================================================
