# A TLA+ development of wsd

wsd is a websocket daemon. It accepts websocket clients, upgrades them from
HTTP, and multiplexes their frames, each wrapped in a PROXY protocol v2 header,
onto one TCP connection to a backend server; what the backend sends is
unwrapped and passed on to the client the header names. The daemon is one
thread around one `epoll_wait`. wscat is the command-line websocket client that
comes with it and shares its event loop and frame code. This directory holds
specifications of both, of the parts that deserve a closer look (frames by the
byte, the parsers, the choice of a forwarding host, start-up), the TLC runs that
check them on small instances, and proofs of the safety properties of all of them, and
of the daemon's refinement, for instances of any size.

## 1. Inventory

| part | source | state | operations |
|---|---|---|---|
| event loop | `common.c`, `wschild.c` | `sk_list`, `sk_hash`, `work_list`, `done` | `event_loop`, `on_iteration`, `try_recv`, `check_timeouts`, `on_epoll_event`, `on_read`, `on_write`, `post_read` |
| sockets | `common.c`, `wschild.c`, `types.h` | `sk_t`: `events`, `sendbuf`, `recvbuf`, `close`, `closing`, `close_on_write`, `retries`, two timestamps, tables `proto` and `ops` | `sk_init`, `sk_accept`, `sk_read`, `sk_write`, `sk_close`, `turn_on_events`, `turn_off_events` |
| HTTP upgrade | `http.c`, `ws_wsd.c` | none of its own | `http_recv`, `ws_decode_handshake` |
| parsers | `parser.c`, `uri.c`, `common.c` | none | `parse_request_line`, `http_header_tok`, `parse_header_field`, `http_field_value_tok`, `parse_uri`, `trim`, `balanced_span` |
| websocket protocol | `ws.c`, `ws_wsd.c` | none of its own | `ws_recv`, `ws_decode_frame`, `dispatch_payload`, `ws_ping`, `ws_pong`, `ws_start_closing_handshake`, `ws_finish_closing_handshake`, `ws_encode_frame` |
| multiplexing | `pp2.c` | `pp2sk` | `pp2_recv`, `pp2_decode_frame`, `pp2_encode_frame`, `pp2_close` |
| failover | `ws_wsd.c`, `common.c` | `num`, `retries`, errno | `sk_open`, `next_host`, `check_errno` |
| start-up | `wsd.c` | pid file, user, listening socket | `main`, `listen_sk_bind`, `drop_priv` |
| wscat | `wscat.c` | `wssk`, `fdin`, `repeat_last_num`, `repeat_last_armed`, `last_input`, `done` | `on_iteration`, `wssk_http_recv`, `wssk_ws_recv`, `stdin_recv`, `stdin_close`, `repeat_last`, `wssk_close`, `wssk_tls_read`, `wssk_tls_write`, `wssk_tls_handshake` |
| containers | `list.h`, `hashtable.h` | | |

How they interact. A read puts bytes into the recvbuf of its own socket and the
socket on `work_list` (`post_read`). The next iteration calls the socket's
`recv` (`try_recv`), which is `http_recv`, `ws_recv` or `pp2_recv`. The latter
two decode frames until `decode_frame` fails, and every frame is encoded into
the sendbuf of *another* socket: the backend's, or that of the client the hash
in the header names. The result decides whether the socket leaves the list
(`0`, `WSD_EINPUT`), stays on it (`WSD_EAGAIN`) or is closed. Writes happen only
on `EPOLLOUT`. `check_timeouts` visits every open socket once per iteration.

What is hard here is not parallelism within the daemon but that its obligations
are spread over handlers: whoever leaves something in a recvbuf must leave the
socket on `work_list` or watched for input; whoever adds to a sendbuf must turn
on `EPOLLOUT`, also for somebody else's socket; whoever frees an `sk_t` must
take it off every list; and three flags, three timers and the peer all take
part in closing. The peers, the kernel's buffers and the clock decide the order.
`PROJECT.json` lists these hazards line by line.

wscat has the same obligations without a work list (its `post_read` calls `recv` at
once) and some of its own: standard input is decoded into the sendbuf of `wssk`,
which may be full, in a TLS handshake, closing or gone, and a TLS handshake exchanges
the handlers of a socket that has frames queued.

Correctness, part by part: the event loop forgets no input and no output and visits no
freed socket; closing ends, with one close frame; the multiplexer passes everything to
whom it is for, in order; a decoder finds the frames of a stream however it is cut; a
parser accepts what it is meant to; retries are bounded and a host that works is found;
a daemon does not serve as root, and its pid file is its own; wscat sends what is typed,
in order, and ends when it should.

## 2. Modules

| module | content |
|---|---|
| `Wschild` | the daemon and its environment: state, actions, properties, fairness |
| `Mux` | what the daemon promises clients and backend, without sockets, lists, events or timers |
| `WschildMux` | the refinement mapping from `Wschild` to `Mux` |
| `MCWschild` | instances of the two for TLC |
| `WschildClaims` | what an assertion says of the daemon that does not hold |
| `WschildProofs` | lemmas on the helpers; `TypeCorrect` |
| `WschildSafety` | the inductive invariant and the safety theorems |
| `WschildRefinement` | `Wschild` implements `Mux`; what ends the daemon |
| `Failover`, `MCFailover`, `FailoverProofs` | which forwarding host is connected to |
| `Frames`, `MCFrames`, `FramesProofs` | encoders and decoders of frames, by the byte |
| `Parsers`, `MCParsers`, `ParsersProofs` | the parsers, each next to what it is meant to compute |
| `Startup`, `MCStartup`, `StartupProofs` | several instances of the daemon from `main` to exit |
| `Wscat`, `MCWscat`, `WscatProofs` | the command-line client |

`map` in `PROJECT.json` gives the lines each definition translates. An operator named
`M_...` in front of a definition is a mutation of it: a plausible bug, which a property
must notice.

### `Wschild`

#### State of `Wschild`

`sk` maps each socket to its `sk_t` (`proto = "free"` when there is none; the
tables `proto` and `ops` are the one field `proto`, since they are only ever
switched together). `work_list` is a set; a node left behind by a socket whose
memory has been freed is the constant `Freed`. `todo` is what the loop that is
running (over `work_list`, `sk_list` or a batch of events) has yet to visit, in
any order. `pc` says which loop that is; `"decode"` is the frame loop of
`ws_recv` or `pp2_recv` on the socket `cur`, and `frames` its counter, of which
only "not 0" is ever used. `num` is the index of the forwarding host. `net`,
`peer` and `known` belong to the environment.

`pc = "exit"` is a failed `A`, `AN` or `AZ` (all of them call `exit`) or a
`SIGPIPE`; `pc = "ub"` is a call or read through a freed or NULL pointer. From
both, nothing is assumed to happen any more. `CrashCauses` lists what leads there.

#### Actions

One action per outcome of a handler, each from the conditions and early returns
of the code. A `recv` of HTTP is one step. A `recv` of frames is one step per
frame, since what one frame does to the flags decides what becomes of the next,
and `WsReturn`/`PP2Return` is the end of it together with what `try_recv` does
with the result. `check_timeouts` is one step per socket, an event one step per
socket.

#### Abstractions

* A buffer is a sequence of tokens, one per request, frame or message. Capacity
  is counted in tokens. What goes on inside a token is not seen: "nothing else" in
  `CrashCauses` is about the causes that tokens tell apart (a `Sec-WebSocket-Key` longer
  than the 24 characters of RFC 6455, against the `scratch` of `generate_accept_val`,
  `ws_wsd.c:259-262`, is not one of them). A frame not yet complete is a token of its own
  (`"frag"`), which the next arrival completes (`Join`).
* `"raw"` is payload whose header has been consumed; `ws_decode_frame` may read
  it as any frame. `pp2_decode_frame` may find too little of it, or no signature
  in it: payload is assumed not to begin like a PROXY header.
* Timestamps are set or not set. A timeout whose timestamp is set may expire at
  any visit. One that was never set has expired if the machine has been up for
  longer than the timeout (`Booted`).
* errno after an end of file is whatever an earlier call left there
  (`OnReadEnd`).
* Whether a socket is writable, and how much of its sendbuf a write takes, is
  nondeterministic; so is whether a write to a connection the peer has closed
  fails with an error or a `SIGPIPE`, which nothing in wsd ignores.
* The environment acts only while the daemon is about to call `epoll_wait`. The
  daemon sees it nowhere else: a handler reads what was there when the batch
  was formed, and later arrivals might as well come before the next batch. A
  reset after the batch was formed is `OnWriteFails`.

#### Assumptions about the environment

A client connects once, sends one request and waits for the answer before it
sends frames (RFC 6455, section 4.1); what it sends early would be discarded by
`skb_reset` in `http_recv`. Frames have 7-bit lengths and backend messages are
not empty. The backend answers only clients it has heard of. No two clients
have the same hash, and the hash survives the way through `pp2_put_connhash`
and `pp2_get_connhash`. No urgent data (`EPOLLPRI`). One batch holds every ready
socket (no more than `MAX_EVENTS`).

### `Mux` and `WschildMux`

`Mux` is the daemon as its peers see it: sessions that go from HTTP to websocket to
over, one bounded queue to each client and one to the backend. The mapping: the phase
of a session is the protocol of its socket, or tells whether its client has been here;
a client is leaving if any of the three closing flags is set; the queues are the
sendbufs; `heard` is `known`; `Cap` is `SendCap`. Two things the code does and one might
not expect are part of `Mux`: data of the backend may follow a close frame, and what is
queued is lost when its connection ends.

### `Failover`

`Wschild` leaves open which names resolve, which hosts listen and what errno holds; this
module keeps them and leaves out all else. Hosts are fixed from the start. errno is
`"retry"` (one of the four values `check_errno` moves on at) or `"other"`; an end of file
leaves it alone. A connection is none, on its way, up, ended with a pending error, or at
an end of file. `at` is the host `pp2sk` was opened for and only there for the properties.

### `Frames`

One sender and one receiver. Bytes are counted, not named: `queue` holds the frames of
which the first begins at `recvbuf[0]`, and a read or a write may end at any byte.
Header sizes are those of the code. The lengths at which 16 and 64 bits are used are
constants, so that short frames have long length fields. Decoding out of step
(`"astray"`) and a sendbuf written past its end (`"overrun"`) are not followed further:
the properties say what leads there. Whether a decoded payload finds room is open.

### `Parsers`

The input is the state and grows by a character or a header field, so every input up to
the bounds is checked. A character stands for all that its parser treats alike, and is
written as a word (`"colon"`, `"blank"`, `"open"`). Of the upper-case letters there are the
three of GET, as a method of three letters is compared with it. A header field has a name, which
may only begin like one that is looked for, a colon or none, and a value that is empty, has
the word that is looked for, or has not. A line without a colon has for its value what
follows the next colon in the buffer, so its value is any (but never of length 0, as the
negative length is unsigned). Not in the alphabets: the brackets of an IP literal in a URI, and
quotes that are escaped in JSON.

### `Startup`

One step per system call that can fail or that another instance observes. The kernel is
modelled as it is used: with `SO_REUSEADDR`, `bind` succeeds unless somebody listens, and
one socket can listen. An instance may be killed between any two steps. There is one pid
file: a file of the name that a relative path has after `chdir("/")` is taken not to exist.

### `Wscat`

Buffers are sequences of tokens, as in `Wschild`. Standard input is numbered pieces of a
frame each. Options that change the control flow are the record `opt`. TLS is off, in its
first handshake, on, or in a handshake again; `"record"` is input that yields no application
data, and both reading and writing may demand the other direction, which exchanges the
handlers. By then `wsd_errno` has been set to `WSD_EAGAIN` by a write, so that a handshake
again that fails does not close the connection but goes on with one event less. Standard
input may be a regular file, which `epoll` refuses, and standard output may fail.

## 3. Runs

| run | instance | shows |
|---|---|---|
| `one_client` | one client that is served and one that connects, six kinds of input, sendbuf 1, recvbuf 2, idle timeout, 3.2 M states | `NoStrandedInput`, `NoStrandedOutput`, `OnReadAssertsHold`, `WorkListOpen`, `OneCloseFrame`, `CrashCauses`, `ImplementsMux` |
| `two_clients` | two clients (symmetric), open at once, requests and data, sendbuf 1, 2.2 M states | `NoStrandedOutput` and `ImplementsMux` when clients compete for the backend and it answers both |
| `hosts` | two forwarding hosts, refusals, unresolved names, 0.2 M states | `TypeOK` (`num` in range), `DeadPeerReaped` |
| `closing` | rejected requests, every kind of control frame, both timers, 0.3 M states | `ClosingEnds`, `EventLoopTurns`, `CrashCauses` |
| `failover` | three hosts, any of which resolve and listen, 10 k states | `TypeOK`, `ReadsBounded`, `HostAccounted`, `NamesPassedOver` |
| `wscat` | six command lines, sendbuf 2, two pieces of input, 0.6 M states | `StdinInOrder`, `OutputAnnounced`, `TlsHandshakeWaits`, `OneCloseFrame`, `CrashCauses`, `EndsWithServer`, `EndsWhenClosed`, `TypeOK` |
| `frames` | three decoders, two frames of four lengths, every cut, 0.1 M states | `SyncLostBy`, `ClosedBy`, `OverrunBy`, `FramesDecoded`, `TypeOK` |
| `parsers` | texts of up to 7 to 9 characters, up to five header fields, 3.1 M states | `UriParsed`, `ListSearched`, `RequestLineParsed`, `FieldsFound`, `SpanFound` |
| `startup` | three instances, six command lines, 0.3 M states | `NeverServesAsRoot`, `PidFileHeld`, `StopLeavesNoFile` |
| `claim_work_list`, `claim_failover`, `claim_repeat` | | see below |

The bounds. In `Wschild`, a sendbuf of one token makes "no room" happen with the second
frame; a recvbuf of two lets a partial frame follow a whole one, and of one makes "full"
happen at once. `NetCap = 1` suffices for anything that depends on order, as
further input may arrive whenever the daemon waits. `FhostnameNum = 2` is the
least with a wrap-around and with a retry that is allowed. With `MaxSk = 1`, as in
`one_client`, `accept` fails when a second client arrives (the bound `OneSession` keeps a
second one from being served after the first); with `MaxSk = 2`, as in `two_clients`, both
are served together. There the bound `Calm` leaves out closing handshakes, and payload left
over when a peer is gone, which `one_client` has. `Booted = FALSE` leaves open whether
the clock has passed the closing-handshake timeout and so includes all that
`TRUE` allows. For the safety properties, any number of clients and any capacity is
covered by the proofs of section 4, and so it is in the other modules: the instances
there matter for the liveness properties and as a check of the models. In `Failover` three hosts are the least in which a
circle of retries is longer than one step and shorter than two. In `Wscat` the server
sends close frames and pings with a payload; what the payload leaves behind is decoded as
any frame, so the other kinds happen, too. Two pieces and a sendbuf of two
let a close frame or a ping meet a piece in front of it, and a piece wait for room behind both. In `Frames` the buffers hold some frames of each
length class and not others, and the second frame is cut relative to the first. In
`Parsers` each text is long enough for every part to be present and one to be repeated.
In `Startup` a third instance can start between what two others do.

Fairness. `RunSpec` (`Wschild`): the daemon's thread runs (weak fairness of `Daemon`, with
`epoll_wait` bounded by `DEFAULT_TIMEOUT`, 128 ms). `ClosingSpec` adds that a closing
handshake whose timeout is checked again and again has it expire, since the clock
advances and nothing rearms it, and that a client written to again and again takes
something. `HangupSpec` adds that writing again and again to a peer that has closed
fails in the end, as TCP answers such data with a reset. `RunSpec` of `Wscat` says the
same of its program and server, and that a TLS handshake with a server that has closed
fails in the end. `Frames` assumes that both event loops run and the network delivers. In
`Failover` sockets are served, connections are answered, and clients keep coming, some of
which send a frame (strong fairness, as each may leave first). Nothing else is assumed
about peers sending, answering or closing.

Deadlock is checked for `Wschild`, `Failover` and `Wscat`: a program that has not stopped
always has a step. In `Frames` the sender may stop, in `Parsers` the input is bounded, and
in `Startup` all instances may have ended.

### Where the code does something else

Three runs refute a sentence or an assertion of the repository; `findings` in
`PROJECT.json` quotes each.

| run | what happens |
|---|---|
| `claim_work_list` | `pp2_close` leaves the freed backend on `work_list` |
| `claim_failover` | `num` comes back to the host that refused, or never leaves it: the available one may never be tried |
| `claim_repeat` | `repeat_last` does not announce what it queues, and what does not fit at once is never repeated |

The following are in the models as the code has them; a property names most of them as the
exception it makes.

* `CrashCauses` of `Wschild`: a ping or an unknown opcode during the closing handshake fails
  `AZ(sk->closing)`; the ping timer calls a NULL `ping` for a client still in HTTP; an
  `accept` without descriptors, and a write to a connection that was reset, end the daemon.
* `ClosingEnds`, `DeadPeerReaped`: a closing timeout that was never armed may close a socket
  before its close frame is written; a socket whose closing handshake is complete stays open
  until its peer hangs up.
* `ImplementsMux`: backend data is queued behind a close frame.
* `SyncLostBy`: a retry after `WSD_EAGAIN` starts behind the header; the payload of a ping, pong
  or unknown frame stays in recvbuf and is decoded as the next frame; a read that ends in the
  masking key behind an extended length loses the header.
* `ClosedBy`, `FramesDecoded`: wscat gives up on an extended length that has not all arrived; a
  frame longer than recvbuf waits for ever; an empty message of the backend waits for
  the next one. `EPOLLIN` is not turned on again after a full recvbuf.
* `OverrunBy`: `ws_calculate_frame_length` leaves out up to two bytes of the header and the
  masking key.
* `ListSearched`, `RequestLineParsed`: `trim` looks at every other character; methods that are
  not of three letters are not looked at.
* `FieldsFound`: header names are compared as prefixes, so that `Hostname` stands in for a missing
  `Host` (`http.c:123` calls the check a "MUST"), and a line without a colon takes its value from
  the lines behind it.
* `UriParsed`: `parse_uri` takes `?` and `#` behind a host or a port for a part of it, where
  RFC 3986, which `wscat.8` refers to, ends the authority there. An empty port, and a path that
  begins with `//`, are refused.
* `SpanFound`: `balanced_span` counts braces in strings, too. An object with such a brace is not
  "sent in a single frame" (`wscat.8`, `-j`).
* `PidFileHeld`, `StopLeavesNoFile`: an instance that fails or is killed leaves its pid file, which
  keeps the next one from starting; after `chdir("/")` a relative path is not found again.
* `CrashCauses` of `Wscat`: a ping during a closing handshake, standard input that is a regular
  file, a connection and standard input that end in one batch of events with `-R`, a write to
  a connection that was reset, a TLS renegotiation while the close frame is being written, and
  standard output that cannot be written to (`AZ(skb_print(...))`).
* `TlsHandshakeWaits`: a renegotiation that fails while `wsd_errno` is `WSD_EAGAIN` can leave the
  connection watched for nothing, before the upgrade and after it.
* `stdin_close` compares `ping_interval` with -1 after it was multiplied by 1000: the
  closing handshake at the end of standard input is never started.

## 4. Proofs

Each theorem holds for every value of the constants that the `ASSUME`s of its module
admit. These say that sets of names are disjoint, that capacities and the number of hosts
are positive, and what kind of thing a command line, a frame length or a header field is;
no more. Every invariant and action property that a run expects to hold is stated by a
theorem; what is left to TLC is listed at the end of this section.

| module | theorems (besides `Invariance`) |
|---|---|
| `WschildProofs` | `TypeCorrect` |
| `WschildSafety` | `InputNotStranded`, `OutputNotStranded`, `OnReadAssertsProved`, `WorkListOpenProved`, `OneCloseFrameProved` |
| `WschildRefinement` | `MuxInvariance`, `Refinement`, `CrashCausesProved` |
| `FailoverProofs` | `TypeCorrect`, `ReadsBoundedProved`, `HostAccountedProved` |
| `FramesProofs` | `TypeCorrect`, `SyncLostByProved`, `ClosedByProved`, `OverrunByProved` |
| `ParsersProofs` | `UriParsedProved`, `RequestLineParsedProved`, `ListSearchedProved`, `FieldsFoundProved`, `SpanFoundProved` |
| `StartupProofs` | `NeverServesAsRootProved`, `PidFileHeldProved`, `StopLeavesNoFileProved` |
| `WscatProofs` | `TypeCorrect`, `StdinInOrderProved`, `OutputAnnouncedProved`, `TlsHandshakeWaitsProved`, `OneCloseFrameProved`, `CrashCausesProved` |

### `Wschild`: the safety properties

`TypeCorrect` has one lemma per group of actions; lemmas on `SkInit`, `Queue`, `Join`,
`Consume`, `WsRecvTail` and the closing operators say that they return well-typed records.

None of the other properties is inductive. In the middle of a
`recv` the output of the backend is not yet announced and a client that has just
been flagged is still watched for input, so the invariant says which socket may
lag, and by how much (`Lax`: the one in the frame loop, for the backend once a
frame has been decoded), and what `WsRecvTail` will repair. For `OnReadAssertsHold`
the danger is `ws_encode_frame`: it turns on `EPOLLIN` of the *client* when the
backend is not watched for input. The invariant shows that this never meets a client
about to be closed: when the backend's `EPOLLIN` is off, its full recvbuf starts
with something incomplete or with leftover payload, so no message is decoded. For
that the invariant records whether `pp2_recv` has run since the backend was last read
(`Served`), and that a socket about to be closed has an empty recvbuf. `NoStrandedInput`
and `WorkListOpen` need that `todo` is part of `work_list` while `try_recv` walks it.
For `OneCloseFrame` a close frame can only be queued on a socket none of whose flags is
set, which the assertions in `ws_start_closing_handshake` and the guards of
`check_timeout` give. The
invariant was checked with TLC on the instances of `one_client` and `two_clients`
before it was proved.

### `Wschild` implements `Mux`

`MuxInv` is the invariant above and four more facts. `Sessions`: a client that has not
been accepted has no socket, and a session still in HTTP has nothing queued but a 400.
`Heard`: all that is on its way from the backend is for clients it has heard of.
`ListsOpen`: a batch of events, or a walk over `sk_list`, holds no client that is gone; a
client that is closed while others are still to be visited leaves the batch. `Spoken`:
messages queued for the backend are from sessions that were upgraded. Under `MuxInv` the
proof shows, action by action, that a step is one of `Mux` or changes nothing `Mux` sees.
Most actions change the record of one socket, so lemmas state once what a change of one
record (its flags, one token behind its sendbuf, a part of it written, its end) means for
the multiplexer. `CrashCauses` follows from the same invariant: the assertions of `on_read`
cannot fail, and a client in HTTP, which has no `encode_frame`, is never heard of.

### `Startup`

`FileOwned`, that the file is there and the instance's own from `open` to `unlink`, is
kept because `open` with `O_EXCL` fails while a file is there, and `FileRemoved`, that an
instance with no claim to a file has none, because only its owner unlinks it. `UserChecked`
carries the refusal of the user root to `drop_priv`, and `Dropped` what follows to `listen`.

### `Failover`

`ErrnoKept`: while there is a connection to the backend, a client's socket that has been
retried has left errno at a value that is retried again, so its circle is completed before
the socket is closed and its count is lost. `HostAccounted` adds up steps modulo the number of hosts, for
which the module proves that quotient and remainder are unique: the solver has no theory
of `%` by a variable.

### `Frames`

Each of the three decoders is shown to be `Sound`: what it may report of a frame of which
`n` bytes are there, and where it leaves `rdpos`. The action properties follow from that,
case by case over the decoder's result, and need only the type invariant.

### `Wscat`

`Inv` is the type invariant and five groups of facts: on TLS (in its first handshake
nothing has been received), on standard input, on
repeating, on closing and on announcements (with the exception that `ws_recv` is about to
announce what it has queued). `StdinInOrder` is inductive with `RepeatInv`, which says that
nothing is repeated while input is still read. The proof has one relation for each way a
sendbuf changes: its pieces are the last ones of what they were (`Carries`), or some were
added behind them (`Extends`). `OneCloseFrame` and `CrashCauses` are then lemmas about each
group of actions.

### `Parsers`

The texts have any length, so the proofs need induction over them. It is done by
least elements: `Least` (a set of natural numbers that is not empty has a minimum, from
`WFMin`) applied to the set of counterexamples. For the parsers that scan, `Least` gives
what `Scan` finds, and a cut of a text into parts is shown to be unique. The loops of
`http_recv`, `balanced_span` and `tokenise_connection` are recursive functions. That such
a function exists is proved first (`Recursion`, from what the loop does with one more
character or field, or by giving the solution outright for `tokenise_connection`, whose
recursion jumps from element to element and is shown to have one solution only). Then what
it computes: `Kept` for header fields (of Connection fields, one that is not empty and
another), `Depth` for braces up to the first end of an object, `Finds` for lists. What
`parse_uri` cuts at is `Cut`; `Ended` tells those cuts that are a URI's from the others.

### Only model-checked

* The liveness properties `EventLoopTurns`, `DeadPeerReaped`, `ClosingEnds`, `NamesPassedOver`,
  `FramesDecoded`, `EndsWithServer` and `EndsWhenClosed`: fairness and `ENABLED` are out of
  the prover's reach.
* The three refutations, which are counterexamples.

## 5. Not modelled

* `list.h` and `hashtable.h`: macros, used as sets.
* The contents of TLVs, collisions of connection hashes, the bytes of payloads and their
  masking, SHA-1 and the texts of requests and responses: nothing branches on them.
* `generate_accept_val` with a key longer than RFC 6455 allows: a key is part of a token.
* That one instance listens at a time: the kernel sees to it.
* The arithmetic of `has_timed_out`: timestamps are set or not set, and may expire.
* A peer that sends for ever and so starves its own output (`common.c:225`): the liveness
  properties are about peers that stop, and nothing is promised to others.
* Logging, help and verbosity. Memory that `sk_destroy` does not free is not tracked.

## 6. Plan

The modules of the plan are written, and their safety properties proved. What is left:

1. Safety lemmas on the way to the liveness properties, such as that a closing handshake
   once begun never goes back, as theorems of their own.
2. A connection between `Frames` and `Wschild`: that a token of a buffer stands for a frame
   of bytes is an abstraction argued for in section 2 and not yet a refinement.
