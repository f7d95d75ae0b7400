# A TLA+ model of alpha-ray

alpha-ray is a proxy: an *inbound* takes a client's request (SOCKS5, HTTP CONNECT
or VLESS), a *dispatcher* asks an *outbound* (SOCKS5, HTTP, VLESS or plain TCP)
for a connection to the target, and a *tunnel* copies bytes between the two. A
connection between two alpha-ray processes is a stack of streams, each of which
wraps the one below it: VLESS over TLS, or over TLS with XTLS Vision framing,
over TCP. What makes the program correct is mostly what these streams promise:
the bytes that go in come out, in order, once, to the last one, and nothing of
the wrapping comes out with them. The repository has no tests and no documents;
the source and its comments are the reference.

Paths below are relative to `src/src/` of the repository.

## The system

| Component | State | Operations | What makes it correct |
|---|---|---|---|
| `VisionTlsStream`, framing (`protocol/vision_tls.rs` 135-347) | reader: stage, command, remaining content and padding, direct-copy flag, `read_buf`; writer: id sent?, direct-copy flags, sniffed hello | `frame_buf`, `unframe_read_buf`, loop of `poll_read` | the reader stays in step with the frames however they are cut; both ends leave the framing at the same byte; no byte is withheld, no false end of stream |
| `VisionTlsStream`, polling (350-505) | rustls session, what it still has to write, the wakers left behind | `poll_read`, `poll_write`, `poll_flush`, `poll_shutdown` | whoever returns `Pending` is woken; the handshake gets on; a shutdown loses nothing |
| `VlessStream` (`protocol/vless.rs` 114-230) | `buf`, `is_handshake_done` | `connect`, `poll_read` | the response header is removed, what was swallowed with it is not lost |
| `VlessProtocol::accept` (235-300), `read_buf_exact` (`util.rs` 78-93) | bytes read so far | `accept` | decodes what `connect` encodes and takes not one byte more |
| `TlsStream` (`protocol/tls.rs`) | rustls session, `eof` | `flush_tls`, `drive_tls_readable`, the four polls | nothing is hidden behind `eof`; backpressure does not turn into an error or a deadlock |
| Tunnel (`dispatcher/simple.rs` 36-50) | the two streams in `copy_bidirectional` | one task per connection | a clean end means that everything arrived |
| Inbounds (`inbound/*.rs`) | a listener; per connection one task | accept loop, handler | one answer per client, the right one; only the user is served |
| `TargetAddr` (`util.rs` 8-75) | | `from_str`, `From` | every proxy of a chain is asked for the socket the client meant |
| Outbounds (`outbound/*.rs`), pipelines, `transport/tcp.rs` | the stream being built | `connect` | the first address that answers is used; every request is decided |
| Security wrappers (`security/*.rs`) | configuration | `wrap`, `accept` | build a session; no handshake happens there |
| Process (`lib.rs`) | the handles of the inbounds | `run` | lives as long as an inbound |

The tasks of different connections share the dispatcher and the outbound, which
are immutable, and what the operating system and the runtime give them: the
listener, the descriptors, the life of the process. Inside a connection there is one task, so the
interleavings that matter are those of the two ends of a stack with the network,
the applications and the caller's buffers: chunks cut anywhere, buffers that
fill up, one side closing while the other goes on, a peer that disappears.
There is no persistent state and no retry; timeouts exist only in
`transport/tcp.rs`.

## The modules

| Module | Models | Composes |
|---|---|---|
| `ByteStream` | what a stream promises in one direction (`AsyncStream`), abstractly | |
| `VisionFraming` | Vision framing, one direction, any kind of writer | implements `ByteStream` |
| `VisionFramingProofs`, `VisionFramingSafety` | the theorems about it | |
| `VlessStream`, `VlessStreamProofs` | the client's `poll_read` and the theorems about it | implements `ByteStream` |
| `VisionPoll`, `VisionPollProofs` | one end's task and the polling layer of its Vision stream, with wakers, and the theorems about it | implements `ByteStream`, twice; takes the framing from `VisionFraming` as bytes that pass |
| `VlessRequest`, `VlessRequestProofs` | `connect` against `accept` and the inbound's decision | |
| `TlsTunnel`, `TlsTunnelProofs` | two ends: TlsStream, VLESS open, `copy_bidirectional`, TCP that fills up, and the theorems about them | implements `ByteStream`, twice |
| `Relay`, `RelayProofs` | the process: accept loop, handlers, dispatcher, outbounds, `run`, and the theorems about it | leaves the bytes to the other modules |
| `TargetAddr`, `TargetAddrProofs` | an address from text to `TargetAddr` to text, along a chain of proxies, and the theorems about it | |
| `MC...` | values for the constants | |

### VisionFraming

The session between the two ends is a reliable sequence of plaintext bytes, the
history `wire`, of which `fed` bytes are in or through `read_buf` and `rpos` have
been taken out. A byte is a cell with a value, on which the reader decides, and
a tag, which says what the writer meant by it: a reader out of step hands over
cells whose tag is not `data`, and the properties see it. The u16 fields of the
header are one cell each (a header is three cells instead of five bytes), so a
header can still be cut in the middle.

`WriteFramed` is one `poll_write`: the cut to `u16::MAX`, then the whole of
`frame_buf` (id, command, sniffing, padding). `WriteRaw` is `frame_buf` after the
switch. The kinds of `peer` are this code's client and server, a client whose id
the server does not list (`unknown`), another program's Vision client (`foreign`:
any command, empty contents, any padding) and a client without Vision (`plain`).
The reader's loop is one action per iteration: `UnframeDirect`, `UnframeId`,
`UnframeHeader`, `UnframeContent`, `UnframePadding`, and `UnframeBreak` for the
breaks out of it; `PollRead`, `Fill` and `ReadEof` are the loop of `poll_read`
around it. The fields `is_safe_tls_ver` and `has_seen_tls_app_data` are written
and never read, and left out.

### VisionPoll

One task and its stream: the client's is `VlessStream::connect` (write and flush the
request) and then `copy_bidirectional`, the server's is `VlessProtocol::accept`,
which only reads. The peer is external: it speaks TLS but reads, writes, closes and
cuts when it likes. An item is one frame all the way, since how frames are cut is the
subject of `VisionFraming`.

`log` is every record the session has made, of which the socket took `wrote` and the
peer `peer.took`; `inlog` is every record the peer has sent, of which `read_tls` took
`read` and `pos` have been handed over. `early` is the plaintext that rustls keeps
until the handshake is over. So nothing is ever removed from a sequence, and what a
buffer holds is the difference of two counters. `task` says where the task stands,
whether it has been woken, and which wakers it left: with the application, and with
the socket for reading and for writing. `Wake` uses a waker up; `Polled` starts a poll
of the task, and each action of it is one `poll_...` call up to its return, with
every `write_tls` it makes (`Drain`). `hist` is history for the properties.

What is taken from rustls: its writer takes nothing beyond a limit, before the
handshake too (`Room`); `poll_shutdown` queues `close_notify` behind what is there;
`read_tls` gives 0 after a `close_notify` was received; a socket that ends without
one is an error of the reader, not an end. `Receive` is `read_tls` of some records
with `process_new_packets`: what rustls answers (`Answer`) is left in the session,
because `poll_read` never writes. `InnerError` is an error of the socket once the peer is
gone, or a record that `process_new_packets` rejects. The first loop of `poll_write`, over a `write_buf`
that the previous call left, never runs: the loop that fills it ends only when it is
empty, or does not end (`UpSpins`).

### VlessStream

The server's bytes are counted, not stored: byte `i` of the stream is 0 in the
header and its own number in the payload. `taken` bytes left the inner stream,
the last `buf_len` of them sit in the stream's buffer. `HandshakeRead` is one round
of the handshake loop, with `chunk_mut`'s growth when the buffer is full;
`HandshakeEof` is the stream's own "EOF during handshake", and would also be taken for
a chunk without room. `InnerError` is an error of the inner stream, in the handshake or
after it, which `poll_read` passes on; the model tells the two by `pc`, `error` and `failed`.

### VlessRequest

Real sizes and byte values: `Encode` is `connect`, byte by byte where the layout
matters (port, lengths); each `read_buf_exact` of `accept` is `ReadBuf` until
`needed` bytes are there, then the action that uses them. `Check` is the decision
of `handle_vless_stream`.

### TlsTunnel

Two ends, `client` and `server`. Each has an application (external), the two copy
directions of `copy_bidirectional` (external; `up` to the TLS stream, `down` from
it, each with a buffer of one byte), a TlsStream with its flag `eof`, and a socket.
`log[e]` is every record that `e`'s session has made, in order, and three counters
say how far it has got: `wrote[e]` records are in the socket, the rest is the
session's ciphertext, which `SessCap` bounds; `read[e]` were taken by the other end's
`read_tls`, so that the socket holds `wrote[e] - read[e]`, at most `WireCap`; and of the
records up to `read[e]` the other end's stream has handed over those up to
`pos[e]`, so that its session's plaintext (`Plain`) is what lies between. `shut[e]`
says that the socket has sent its FIN. rustls is modelled by what the code relies on: the
hello, flight and finished records, a writer that takes nothing when full,
`read_tls` returning 0 after `close_notify`. Every action is one call
of a poll function up to its return, with the flushes it makes (`Flushed`): `PollWrite`
flushes before and after the write; `Drive` flushes, reads, and flushes rustls'
answers. Before the tunnel the client sends its request and the server its
response (`Request`, `Respond`), and the server may fail to connect (`Refuse`). A
record is delivered whole: half a record is the same as none to `TlsStream`. The network
and both TLS peers are without faults: an error of `process_new_packets` (`tls.rs` 97-99),
an error of the socket other than the reset that a dropped peer causes (104), and
`flush_tls`'s `Ok(0)` (62-68), which a TCP socket does not give, are left out. Every property
of this module is relative to that, `FailsOnlyAfterClose` above all.

### TargetAddr

A text is a sequence of tokens: `:`, `[`, `]`, numbers, a dotted quad, other pieces of a
name. `FromStr` is `TargetAddr::from_str` (a `SocketAddr` of std first, else the text is
split at its last colon), `From` the conversion from fast_socks5's address. `Connect` is
the HTTP outbound, which resolves a name and prints the socket it found into a CONNECT;
`Read` is the HTTP inbound of the next proxy. `Meant` is the reference: the sockets
that a request, as spelled, may mean.

### Relay

What happens to a connection from its arrival to its end, the bytes left out. The
kinds of inbound and outbound are chosen in `Init`, since `run` builds one of each
and the code has them all. The VLESS outbound is there twice: `vless_tls` is the one over
`TlsOutboundSecurity`, whose `poll_write` waits for the server's part of the handshake
(`tls.rs` 161-167), `vless` the one over no security or Vision's, whose `poll_write` waits for
nothing. For each connection `c`:

- `conn[c]` is the client's socket (`client`), whether the client has left (`gone`),
  and its handler: `task` says at which await it stands (`request`, `connect`,
  `reply`, `refuse`, `tunnel`), `answers` what it has written to the client,
  `ended` which directions of `copy_bidirectional` are over.
- `dial[c]` is the future of the outbound's `connect`: `step` (the lookup, the loop
  of `transport/tcp.rs`, the pipeline's `wrap`, VLESS's request, the proxy's
  handshake), `addrs` and `at` (how many addresses there are and which one is
  tried; no address stands for a failed lookup too), `lost` (those that were
  refused, timed out, or found no descriptor) and `sockets`.

`listening` is the accept loop; `ready` is tokio's readiness of the listener, which
stays set until an accept finds nobody, so that one more `accept` follows each
client (`WouldBlock`, `AcceptFails`). `Open` counts the descriptors, the listener's
apart. What Rust drops is written out: `Finished` closes the client's socket,
`Closed` the server's, and each action that ends a task says which of them it
drops. The socket of an HTTP outbound belongs to the task that drives hyper's
connection, so it is still open when the connect fails, until `ConnTaskEnds`.

`External` collects what clients and servers do, `Own` what the process does by
itself. Clients send any request, leave at any time and half-close; servers
answer, refuse, fall silent or close. `SendRequest` is the process's own step,
`SendRequestOverTls` waits for the server and is external. What the requests look like is the subject
of `VlessRequest`, and of the crates fast_socks5 and hyper. The only error of
`accept` is a full table of descriptors; the others depend on the platform and
would end the loop in the same way. The security's `accept` inside the VLESS loop
builds a session and does not wait.

## The runs

| Run | Shows | Bounds |
|---|---|---|
| `vision_framing` | seven properties for every kind of peer, `ReachesEof` among them | `MaxWire` 12 cells: an id and three frames or more with content 0 to 2 and padding 0 to 2 (2 behind an empty content), cut into chunks of 1 to 4 cells and read with buffers of 1 or 2, so every field can be cut everywhere and every buffer fills in the middle of a content |
| `vision_sniff_server` | the suite is respected by a server | hellos of 2 or 3 bytes and session ids of 0, 2 (the hello is complete exactly at `SniffMax`) or 3 (it never is): the hello comes whole, in pieces, or followed by something else; `MaxWire` 13 |
| `vision_sniff_client` | it is not respected by a client (finding) | |
| `vision_poll` | seven properties for the client's and the server's task, `CloseGoesOut` among them | six items up over a socket of two records and a session of three, so that both fill up and the application still has more; two items down; one silent record, which may come anywhere |
| `vision_stuck` | a server's handshake stays in its session (finding) | the server's role alone |
| `vless_stream` | five properties | a buffer of 4 bytes with headers of 2, 3 and 5 (longer than the buffer by one, as 257 exceeds 256), payloads up to 7 bytes |
| `vless_request` | three properties | the code's own sizes; addresses of each kind, names of 0, 3, 255, 256 and 259 bytes (the longest that the length byte counts, one that loses all of it, one that loses all but three), four ports, the user and a stranger, every invalid field; every cut |
| `vless_addons` | addons are not skipped (finding) | three addons values |
| `tls_tunnel` | eight properties, `EndArrives` and `RefusalArrives` among them | two bytes each way over sockets of two records and sessions of one: both fill up, also both at once |
| `relay` | six properties for all fifteen pairs of inbound and outbound | two connections, alike (`SYMMETRY`); two addresses, so that there is a first, a next and a last; three descriptors for the four sockets two connections want, so that both `accept` and `connect` find none; one rejected request on an HTTP connection |
| `relay_live` | `Accepted`, `ConnectDecided` | the same bounds without symmetry and without rejected requests; the inbounds that differ in when they answer, the outbounds with a timeout and the one that leaves a socket behind |
| `target_addr` | `TargetIsKept` for CONNECT and SOCKS5 requests over three proxies | each kind of host, in brackets and out of them, known and unknown, with and without user information; no port, an empty one, ports at the edges of u16, with a sign, with a leading zero, not a number |

Byte counts of the framing are scaled down with their order kept
(`MCVisionFraming`); the theorems hold for all of them, which is why small values
are enough here. `CHECK_DEADLOCK FALSE` stands in every configuration because
every system modelled may stop: a stream at its end, a request decided, two
finished tunnels, the stalled tunnels of the next section, a process that has
ended or whose clients have all been served.

`ImplementsByteStream` contains invariants that the proofs state on their own: `InOrder`
and `FallbackIsTransparent` of `VisionFraming`, `PayloadInOrder` of `VlessStream`. The
runs check them through it; `NoDecodeError`, `ErrorOnlyOnShortHeader`, the `TypeOK` of
`VlessRequest` and the measures (`ReaderAdvances` of `VisionFraming`, `ReadsAdvance` of
`VlessStream`, `EveryStepAdvances` of `VlessRequest`, `Relay`, `TlsTunnel` and `VisionPoll`)
are proved only.

Every property has a mutant, a plausible bug of the code written beside the
definition it changes (`M...`), under which the property fails.

### What the runs say about the code

Two comments disagree with the code:

- `vision_tls.rs:319`, "do not start direct copy when TLS_AES_128_CCM_8_SHA256".
  The client's direction enables direct copy on the ClientHello and never sees the
  suite (`vision_sniff_client`). On the server's side the comment holds
  (`vision_sniff_server`).
- `vless.rs:248`, "skip addons". The 22 bytes of the fixed header are read before
  the length of the addons is looked at, so with addons present the fields after
  them are taken from the addons (`vless_addons`). `connect` never sends addons.

One behaviour is a bug:

- `vision_tls.rs` 387-410: `poll_read` never writes what the session wants to send. A
  server's stream is only read from while it waits for the request, so its flight
  stays in the session and no client's handshake completes (`vision_stuck`). The same
  call returns `Pending` after records that brought no plaintext without a waker
  (line 406): the client's task sleeps until something else wakes it.
  `StallsOnlyAfterSilence` says that this is the only way to be left asleep.

Two more of `VisionPoll` are stated as limits:

- A write that the session has no room for is tried again and again without a flush
  in between (448-462): the task spins. `SpinsOnlyWhenHeldBack` says when.
- A stream shut down during the handshake sends `close_notify` and ends, and the
  plaintext written before it is lost. `CloseLosesNothing` excludes this case only.

One of `VlessRequest` as well:

- A domain name of more than 255 bytes is written whole after the low byte of its
  length (`vless.rs` 145-147). `connect` does not fail: the server asks for another
  host, and the target of that tunnel gets the rest of the name before the payload.

Three behaviours of `TlsTunnel` contradict no comment, and are stated as the limits
inside which the properties hold:

- Two ends that both send more than sockets and session hold stall for good:
  `drive_tls_readable` (`tls.rs` 79-83) does not read while its flush is pending, on
  both ends. `StallsOnlyWhenSaturated` says that this is the only way to stall, and
  `EndArrives` that nothing else keeps the end of a stream from arriving. `RefusalArrives` says that a
  refused client is not left waiting, though no `close_notify` comes.
- An application that goes on sending after the other one closed its side loses
  the tunnel: `poll_write` returns 0 once `eof` is set (`tls.rs` 157-159), which
  `copy_bidirectional` reports as an error. `FailsOnlyAfterClose` says that nothing
  else, no full socket and no full session, ends a tunnel with an error.
- A connection cut without `close_notify` looks like a clean end
  (`tls.rs` 87-93), hence the exception in `CleanEndIsComplete`.

`Relay` shows four more:

- `accept().await?` in the three loops (`inbound/vless.rs:83`, `inbound/socks.rs:99`,
  `inbound/http.rs:70`): one failed accept, which running out of descriptors
  is enough for, ends the loop, `run` returns, and with it every tunnel ends. The
  process's end in `Accepted` is this case. `OutOfSocketsOnlyWhenBusy` says that it takes the
  load of connections that are under way: none that is over has kept a descriptor, but for
  the HTTP outbound's refused ones, which it counts.
- The HTTP inbound answers 200 before it connects (`inbound/http.rs` 111-129), so
  its client learns of a failure only by the end of the stream. `SocksAnswerIsTrue` is
  about SOCKS5 for this reason; with the VLESS outbound even its success means
  only that the request was sent (`outbound/vless.rs` 59).
- The SOCKS5 and HTTP outbounds call `TcpStream::connect` and their server without
  a timeout. `ConnectDecided` excludes them: a silent server keeps the handler and
  its two sockets for ever, even when its client has left, since nobody reads
  the client while the outbound connects.
- The timeout of `transport/tcp.rs` covers each address, not the whole connect, and
  not the security handshake or the request after it: a VLESS server that takes the
  connection and then is silent in the TLS handshake holds the request for ever.
  `ConnectDecided` excludes that wait (`AwaitsServer`) and says that nothing before it
  and nothing else keeps a connect undecided.

### Fairness

`VisionFraming!FairSpec`: the unframing loop runs until it returns (it is
synchronous code), the caller keeps polling (`copy_bidirectional` does until the
end), and what the session received is read. The writer is under no obligation.
`VlessStream!FairSpec`: the same for its reader. `VlessRequest!FairSpec`: the
handler's task is scheduled, and bytes that were sent arrive; the client may
disappear (`ReadEof`), which is not fair. `TlsTunnel!FairSpec`: each end's task
takes some step when it can, because each of its `Pending` returns in
`TlsStream` follows a `WouldBlock` of the socket, which registered the task's
waker; applications read what is written to them, but need not send or close,
and a refused connect is under no fairness. `VisionPoll!FairSpec`: a task that was
woken is polled and its poll runs to the end (`Own`), and the peer takes what it was
sent; neither the peer nor the application has to send or close. `Relay!FairSpec`: the runtime polls the
accept loop and every task that can go on, a timer that is armed fires and a
lookup returns; clients and servers are under no obligation, and a step that waits for one
of them (`SendRequestOverTls`, `ServerAgrees`, `EndDirection`) is under no fairness, so every
promise rests on the process alone.

## What is proved

`tlapm` checks every proof to its leaves. The theorems hold for all values of the
constants that satisfy the named assumptions: sizes are naturals, the id and the
buffers are not empty, and the padding parameters fit their u16
(`FramingAssumption`, true of the defaults 0..=256, 500, 0..=500 of
`security/vision_tls.rs`, and assumed of other callers); `VlessStreamAssumption`.

**VisionFraming.** `InOrder` is not inductive: that a delivered cell is the next
byte of the application depends on the reader's counters agreeing with the frame
it is in. `IInv` says so:

- `Layout`: the wire is a chain of frames. The history `mark` maps each boundary to
  the number of application bytes before it, and each boundary but the last
  (`tail`) starts a complete frame (`FrameAt`) that leads to the next; after a frame
  that ends the framing only content follows. `IdLayout`: in front of it stands
  the id, if the peer sends one.
- `ReaderPlace`: the reader is before the id, at a boundary, or inside a frame at
  the place its stage and its two counters say (`InFrame`), or past the last
  boundary with direct copy on; and it has delivered the content up to there.
- `FallbackPlace`: with an unlisted id, it has delivered exactly what it has read.
- `Waiting`: what is true when the reader asks for more.

`Inductive` (`VisionFramingProofs`) proves `Spec => []IInv` with one step per action
and under it one per conjunct; `VisionFramingSafety` derives each property:
`DeliversInOrder`, `FallbackUntouched`, `HeadersDecode`, `SwitchesTogether`,
`WithholdsNothing`, `EofAfterLastByte`, the action property `NeverSpuriousEof`, and
`Refinement`, every step is a step of `ByteStream` or a stutter. `TypeCorrect` is
the type invariant. `SuiteIsRespected` is of a connection whose peers are servers: its
invariant `SuiteInv` says what the writer knows of a hello that is not complete,
namely that no piece of it has shown the suite and nothing has been decided.

`ReaderProgress` is the half of `ReachesEof` that is safety: every step of `poll_read` lowers
`Effort`, a natural number that only writing raises. Bytes count for most of it, once
on the wire and once in the session; what is left ranks the stages and the
places that cost no byte. So the loop over frames cannot go round without progress, with
contents and padding of no bytes neither.

**VisionPoll.** `IInv` says what is where in each direction and who wakes the task:

- `ClientLog`, `ServerLog`: the records a session has made. A client's are the hello,
  Finished, the items in order, `close_notify`, with the items in `early` while the
  handshake lasts; a shutdown during the handshake puts `close_notify` second, which
  `Before` accounts for. A server never writes.
- `PeerHas`, `Incoming`, `AppHas`: each side has the items of the records it took.
- `Waiting`: a task that sleeps left the waker for each thing it waits for, or the
  socket is full and has the waker (`Full`).
- `Written`: when the session may still hold something. It gives `SpinsOnlyWhenHeldBack`.

From `Inductive`: `TypeCorrect`, `WakersAreKept` and the others, one theorem for each
invariant of the run, and `Refinement` for both byte streams. They assume `VisionPollAssumption`.

`PollsRunDown` bounds the polls. `Progress` counts events (what the application and the
peer do), the work of the task (items taken and given to the session, records read
and handed over, how far the shutdown is) and the task's place in its poll. An event
weighs four, because it may wake the task and send it back to the start; a poll takes
a place further or does some work, and a task parked without a wakening stays parked.
There is one lemma per group of actions, each of which shows the step to be `Further` or
one that `Wakes`. The bound `Total` needs `InlogIs`, an invariant of its own: a peer
sends its two records of the handshake and `close_notify` once each, so that there is an
end to the records it can send (`Counts`). The state in which `poll_write` spins is a
place that is never left: the measure says that nothing else goes round, and
`SpinsOnlyWhenHeldBack` says when that happens.

**TlsTunnel.** No property is inductive: that a clean end is complete depends on what the
other end's copy has taken, on what its session was given, and on where the records are.
`IInv` follows the records from end to end:

- `LogIs`: the place of a record in a log says what it is: the opening, then the bytes in
  order, then `close_notify`. `Pace`: how long the log is, from how far the copy has got.
- `Greeting`: which record of one end answers which of the other. Without it nothing
  excludes a request written before the handshake is over.
- `Delivered`: what the application has, from the place the stream has read up to.
- `EofIs`, `SeenIs`, `ShutIs`: why a stream is over, what was handed over and sent before,
  and who may have closed the socket.

There is one lemma per action; `AppendStep` and `FlushStep` are what the actions that
write a record, or only flush, have in common. From `Inductive`: `TypeCorrect`,
`EofIsClean`, `EndIsComplete`, `FailsAfterClose`, and `Refinement` for both directions, for
any number of bytes and any capacities. They assume `TlsTunnelAssumption`.

`TunnelsRunDown`: every step of the two ends takes a byte, a record or a place on and none
back, and there are at most `Total` of these, a number of the bytes sent alone: it does
not depend on the sizes of sockets and sessions. Each part of `Progress` is bounded by
the part before it (what was got by what was handed over, that by what was read, and so on
back to `sent`), which is what `IInv` says; `SentIs` adds that no application sends
more than its bytes. With `StallIsSaturation`: two ends of which one still has
something under way (`UnderWay`) come to rest only with both directions full.

`StallIsSaturation` is the theorem that two ends stall only when both directions are
full at once. It needs a second invariant, `OpeningIs` (`OpeningInductive`): the server
answers only once it has read the request, no end is over before that answer, an
end that opens the tunnel has made no record beyond the opening, and a copy to the
application is done only at `eof`. The argument takes two ends that cannot step and asks
what each waits for: what its session holds is on the wire or the wire is full
(`StuckSent`), what is on the wire to it has been read unless its own flush is pending
(`StuckRead`), the opening always finds room (`ServerAnswers`, `StuckInTunnel`), and
what is left is both wires full, with both sessions holding more. The prover cannot reason about `ENABLED`, so the property is stated with
`CanStep`, the guards of an end's actions written out. A guard that `CanStep` had and no
action has would make the property weaker than it looks; `EndArrives`, which is about the
actions themselves under `FairSpec`, would then fail in a behaviour that stops
there after an application has closed.

**VlessStream.** `IInv` accounts for every byte taken:
`taken = header_len + Len(delivered) + buf_len` once the header is decoded, and
`taken = buf_len < header_len` before. `TypeCorrect`, `HandsOverInOrder`, `EofIsLast`,
`Refinement` and the action property `NeverEmptyRead` follow, and
`ReadsCount`: a byte read, and one handed over, each lower `Effort`, which only the server
raises. `ErrorIsShortHeader` is about the error that the stream itself makes, a chunk of
no bytes taken for the end: it comes only of a server that closed inside the header,
because `chunk_mut` always has room (`Reserve > 0`), also behind a full buffer. Errors
that the inner stream makes are apart (`InnerError`).

**VlessRequest.** That `accept` stops at the payload depends on what each byte it has read
means, so `IInv` ties everything to the wire:

- `BufIs`, `HeaderIs`: what is in `buf` and in `header_buf` is what the wire holds there
  (`At`), and no byte was skipped.
- `Needs`: how much each `read_buf_exact` waits for.
- `Place`: for a request without addons (what `connect` writes), how far into the wire
  each place of `accept` is, and that only a request that is not well-formed is refused.

The length of a name is one byte (`vless.rs` 146), the name is written whole. `Claimed` is
the part of it that the byte counts, `Beyond` what is left: nothing up to 255 bytes.
`RoundTrip` and `PayloadIntact` are stated, and proved, for names of any length: the server
takes the claimed part for the name, every other field is right, and the tunnel
begins with the rest of the name, whole, before the payload.

`EncodeIs` and `Layout` say where `Encode` puts each field, `ClaimedIs` what is cut,
`Tail2` what is left on the wire. There is one lemma per reading
action. From `Inductive`: `TypeCorrect`, `Decodes` and `Exact`, for any set of requests
and any payload, and `RequestProgress`: every step takes a byte or leaves a stage of
`accept` for good, so the number of steps is bounded by the length of the wire and six. They assume `VlessRequestAssumption`: the fields are bytes, an id has 16,
an address of a family has its length, and a name of more than 255 bytes is ASCII, as
every name that resolves is, so that `from_utf8_lossy` leaves it as it is wherever it
is cut.

**TargetAddr.** `TargetIsKept` compares the last proxy of a chain with the first, so `IInv`
says what is carried from one to the next:

- before the first connect the text is the one that was asked for, then the target is
  one that `Means` it: the sockets it reaches are those the request means;
- after it, every text is the first socket dialled, printed, and every target is that
  socket.

The steps rest on lemmas about the texts, all by the places of their tokens: `PortUnique`
and `HostUnique` (two spellings that are one text have one host and one port),
`LastColon`, `SplitWithPort` and `SplitIs` (`rfind` and `trim_start_matches` take a text
apart where it was put together, and nowhere else), `OnlySocket` and `ReadsBack`
(`from_str` of a printed socket is the socket). `RFind` and `TrimColons` take the largest
and the smallest of a set of places, which exist by induction over the naturals:
`NatMin`, from the library's well-foundedness of `<`. From `Inductive`: `TargetKept`, for
any texts, names, lookup and number of proxies. It assumes `TargetAddrAssumption`: a
number is a token and no colon, the number a port prints as reads as that port, a name is
no bracketed address, and no text is an IPv6 address without its brackets before a port,
an authority that hyper does not let through.

**Relay.** None of the properties is inductive, because each speaks of a record
whose next change depends on the other one. `Good` relates the two records of a
connection, for any number of connections, addresses and descriptors:

- `Owns`: which steps of the dial go with which await of the handler, and what a
  finished handler has closed.
- `Dialled`: the addresses before the current one, and only they, are lost; one
  socket at most is held, the current one's. Without it nothing rules out that a
  refused address left a socket, or that the loop skipped one.
- `Told`: no final answer has been given where the handler may still give one.
- `Truthful`: what a SOCKS5 client was told fits the dial's step.

The lemma `OneConn` reduces a step to the connection it changes, and there is one
lemma per action. From `Inductive`: `TypeCorrect`, `OneAnswer`, `SocksTold`,
`NoSocketIsLeaked` and `TriesInOrder`. They assume `RelayAssumption`.

`RunsOutOnlyUnderLoad` counts: each descriptor is mapped to the connection it belongs to, which
is one-to-one for the clients' sockets and, since a connection holds at most the socket of
its current address, for the servers' (`Accounts`, `OpenIsBounded`); so there are never more
descriptors open than connections under way account for, for any numbers of them.

`ConnectionsRunDown` says that a connection takes a bounded number of steps, whatever
its client, its server and the other connections do. `Effort` adds the ranks of the
handler's place, the client, the dial's step, the answers, the directions and the
addresses left. No part of it ever rises (`ConnDown`, `DialDown`), and `Moved` reduces a step to
the connection it changes; the invariant is needed where a handler ends, because
what falls there depends on what it still held. That a connection then really comes to
its end needs fairness, and stays with `Accepted` and `ConnectDecided`.

Only model-checked: the liveness properties (`ReachesEof`, `EndIsReported`, `Decided`,
`EndArrives`, `RefusalArrives`, `CloseGoesOut`, `Accepted`, `ConnectDecided`), which are out of
the prover's reach.

## What is not modelled

Cryptography, certificates, and the inside of rustls, tokio, hyper and
fast_socks5, which appear only as this code drives them. Logging and names.
`NoneSecurity` and `NoneNetwork`, which return their argument; `protocol/reality.rs`,
which is empty. A name of over 255 bytes
that is not ASCII, which the code may cut inside a character. In `TlsTunnel`, the faults of
network and TLS peer named above, and a server that closes during the handshake: `connect`
then succeeds over a stream at its end. In `Relay`, that a half-closed tunnel goes on, which is
tokio's `copy_bidirectional`, and errors of `accept` but for a full table. Of `util.rs`,
`Display`, which only logs, and `to_target_addr`, which has no
caller.

## Plan

Everything of the first plan is done: `ByteStream`, `VisionFraming`, `VlessStream`,
`VlessRequest`, `TlsTunnel`, `Relay`, `VisionPoll` and `TargetAddr`. Every safety
property that a run checks is proved. Of each liveness
property the part that is safety is proved too: in six components the steps
lower, or raise up to a bound, a natural number (`ReaderProgress`, `ReadsCount`,
`RequestProgress`, `TunnelsRunDown`, `PollsRunDown`, `ConnectionsRunDown`). What is left
needs a prover for fairness.
