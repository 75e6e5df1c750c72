# A TLA+ verification of the TCP/IP stack

This directory models the user-space TCP/IP stack of this repository in TLA+, checks the
models with TLC on small instances, and proves what can be proved for every value of the
parameters with TLAPS. `PROJECT.json` lists components, runs, mutants, the source lines each
definition stands for, findings, hazards and theorems.

## 1. Inventory

Paths are relative to the repository.

| Component | State | Operations | Correct when |
|---|---|---|---|
| **Wrap32** `src/wrapping_integers` | a `uint32_t` | `wrap`, `unwrap(zero, checkpoint)` | unwrapping next to the checkpoint inverts wrapping through any number of wrap-arounds |
| **ByteStream** `src/byte_stream` | deque of strings, prefix length, three counters, `closed_`, `error_` | `push`, `close`, `set_error`, `peek`, `pop`, helper `read` | it is a bounded FIFO of bytes; counters and deque agree |
| **Reassembler** `src/reassembler` | output stream, ordered interval list, `first_unassembled_index_`, `eof_index_` | `insert`, `bytes_pending` | every byte there is room for is kept, the gap-free prefix is delivered at once, the stream is closed exactly at its end |
| **TCPReceiver** `src/tcp_receiver` | reassembler, optional ISN | `receive`, `send` | it acknowledges only what has arrived, keeps the window it promised and never takes it back |
| **TCPSender** `src/tcp_sender` | input stream, retransmission queue and timer, SYN/FIN flags, window, absolute counters | `push`, `receive`, `tick`, `make_empty_message` | queue, counters and timer agree; the window is respected; nothing sendable waits |
| **TCPPeer** `util/tools/tcp_peer.h` | sender, receiver, linger flag, times | `push`, `tick`, `receive`, `active` | both streams get across intact; nobody leaves while the other still needs it |
| **TCPMinnowSocket** `util/tcp_minnow_socket` | peer, event loop, socket pair to the owner's thread, `_abort`, shutdown flags | `connect`, `listen_and_accept`, `wait_until_closed`, three event rules, tick loop | bytes and ends of stream pass between the pipe and the peer; both threads end |
| **EventLoop** `util/eventloop` | list of rules with interest, callback, cancel and error functions | `add_rule`, `wait_next_event` | a rule fires only while it is interested; a dead descriptor is cancelled once; no busy wait |
| **NetworkInterface** `src/network_interface` | ARP table, pending requests, waiting datagrams, received queue | `send_datagram`, `recv_frame`, `tick` | datagrams go to the right address; requests are limited; mappings expire |
| **Router** `src/router` | interfaces, 32 tables keyed by rotated prefix | `add_route`, `route`, `match` | longest prefix wins; TTL decreases; nothing is forwarded without a route |
| **bidirectional_stream_copy** `apps` | two byte streams, shutdown flags, four rules | one loop | drains both directions, then ends |
| **adapters** (`tcp_over_ip`, `tuntap_adapter`, `lossy_fd_adapter`, `tun`) | addresses, listening flag, loss rates | read, write, tick | one connection's segments pass; the lossy one drops some |
| **headers, parser, checksum** `util/...` | buffers, chunk list, error flag | parse, serialize, compute_checksum | what is serialized is parsed back; what is damaged is refused; a parser never looks beyond its input |
| **file descriptors, sockets** | `eof` and `closed` flags shared by duplicates | read, write, close, shutdown | no write into a direction that is shut down |
| **programs** (`endtoend`, `tcp_ipv4`, `tcp_native`, `webget`) | threads over the above | `main` | frames find their way; both threads end |

**How they interact.** The application's thread and the TCP thread share only a socket
pair. The TCP thread runs an `EventLoop` with three rules: a datagram arrives
(`TCPPeer::receive`), the pipe has bytes or its end (`outbound_writer().push/close`, then
`TCPPeer::push`), and there are received bytes for the pipe (`inbound_reader().pop`); after
each event, and at least every `TCP_TICK_MS`, it calls `TCPPeer::tick`. The owner's thread
runs `bidirectional_stream_copy` over an event loop of its own, and then joins the TCP thread.
In `endtoend` a third thread runs two network interfaces and a router between the TCP
thread's adapter (a socket pair of frames) and a UDP socket to the other program. `TCPPeer` makes calls on
its sender and receiver, one after the other, in one thread; each message of the sender
leaves through a callback with the receiver's reply of that moment. Peers know each other
only by segments, which the network may lose, repeat, delay and reorder.

**What is hard.** Segments in any order, overlapping or repeated; acknowledgments and
windows that arrive late; premature retransmissions; a receive window that closes and of
which the receiver never announces the reopening; lost SYN, FIN and last acknowledgments;
32-bit numbers that wrap around; counters updated at separate places; when a peer may leave.
Two event loops that close, shut down and cancel the same pipe, and act on what poll said
before the other thread moved. ARP requests, replies and expiries on three links while
datagrams wait. Lengths read from the wire and used before anything has checked them.
`PROJECT.json` "hazards" lists each at its line, with the properties that cover it or a note
why none does yet.

## 2. The modules

    MachineIntegers          widths, minimum and maximum
      WrappingIntegers       Wrap32 (wrap, unwrap)
        WrapTracking         ... used as sender and receiver use it             [run]
      ByteQueue              a byte stream as its users see it
        ByteQueueSpec        abstract: a bounded FIFO
        ByteStream           detailed: deque, prefix, counters                  [run]
                             implements ByteQueueSpec
        Reassembler          insert as an operator on a record
          ReassemblerSpec    ... fed with a stream's substrings                 [run]
                             implements StreamAssembly (abstract: a set of indices)
      TCPMessages            the two halves of a segment; the sequence space
        TCPSender            sender and timer as operators on a record
          TCPSenderSpec      ... with any application and any peer              [run]
        TCPReceiver          receiver as operators (with Reassembler)
          TCPReceiverSpec    ... with every segmentation of a stream            [run]
        TCPPeer              both halves and the linger rule
          TCPConnection      two peers, applications, network
                             implements ByteQueueSpec in each direction
            MCTCPConnection    values for TLC                                   [2 runs]
              TCPConnectionDocs  what comments say of it                        [2 runs]
      InternetDatagrams      datagrams and their header checksum
        NetworkInterface       ARP table, requests, waiting datagrams
          Router                 routes and forwarding
            EndToEnd               host, router and the other program (with TCPOverIP)
              MCEndToEnd             addresses and routes for TLC                [run]
      TCPOverIP              the listening adapter's filter
      Descriptors            file descriptors, socket pair (with ByteQueue)
        TCPMinnowSocket        the socket's rules over an abstract peer
        StreamCopy             bidirectional_stream_copy's rules
          SocketProgram          both threads of tcp_ipv4                       [run]
    EventLoop              wait_next_event, instantiated by the two above
    Parser                 Parser, Serializer, InternetChecksum
      WireFormats            Ethernet, ARP, IPv4 and TCP on the wire
        FrameTransfer          compose, damage, take apart
          MCFrameTransfer        packets for TLC                                [run]

Each proof module extends the module it is about:

    TCPMessagesProofs      lemmas: numbers, recursive functions, sequences, streams, Wrap32
      TCPPeerProofs          lemmas: the methods of TCPSender, Reassembler, TCPReceiver
        TCPSenderSpecProofs    theorems about TCPSenderSpec
        TCPReceiverSpecProofs  theorems about ReassemblerSpec and TCPReceiverSpec
        TCPConnectionProofs    theorems about TCPConnection
      FoundationProofs       theorems about WrapTracking and ByteStream
      EndToEndProofs         theorems about EndToEnd
      SocketProgramProofs    theorems about SocketProgram

A class is a record, a method an operator from the state before to the state after (with the
messages it transmits, if any); a specification module has one action for each call. So a
composition makes the very calls the code makes: `TCPPeer` is built from the same
`Push`, `ReceiveReply` and `ReceiveSegment` that the component runs check. Field names are those of the code
without the trailing underscore.

* **Bytes** are named by their position in their stream. A byte that is lost, repeated or
  moved is then visible in any property that compares positions.
* **Loops** are recursive functions of the number of turns made. `push` is at most `Window(s)` turns of
  `PushOnce`: every turn but the last sends at least one number. `pop` and `read` are
  as many turns as the deque has strings. The loop of `TCPSender::receive` is "the number of messages at the front of the queue that end at or
  before the ackno".
* **The interval list** is a sequence; `Store` does what lower_bound, the merge with the
  previous interval and the merge loop do, `WriteOut` is the erase_if.
* **Widths**: `Mod32` and `Mod64` stand for 2^32 and 2^64; `Unwrap` computes the signed
  offset and the signed sum modulo those, as the machine does.
* **The RST bit**: a segment has one, set if either half has it; `Segment` merges the two
  on the way out and reads it into both, as serialize and parse do.
* **Time**: `idle` is the time since the last receipt, counted up to the linger time it is
  compared with; `PassTime` is one pass of the event loop's tick.
* **Network**: `net` is a set of segments under way. Two equal segments in flight count as
  one (a retransmission that overtakes nothing changes nothing); `DeliverAndRepeat` brings
  repetition back as a bounded choice.

### Network interfaces and the router (`EndToEnd`)

* A method returns the *set* of its outcomes (state after, frames sent): what waits for a
  mapping leaves in the unspecified order of an `unordered_multimap`.
* `routing_table` is 32 functions, keyed as in the code by the prefix rotated down
  (`Rotr`) and looked up by the shifted address; shifts divide by a power of two, `TwoTo`. `LongestPrefix` compares that with the
  definition of a longest prefix, for every address and after every call of `add_route`.
* One pass of the network thread's loop is one action: event, `route`, and the tick of both
  interfaces, which the code does after every event whatever time has passed. The three
  clocks (host, network thread, other program) run independently.
* The header checksum is the real algorithm over words of a small width, so that a TTL
  decreased without computing it anew is rejected by the next parser.
* Frames equal to one that waits at the same place count as one. `RemoteRestart` starts
  the other program anew with another Ethernet address, as every start draws one.

### Event loops and sockets (`SocketProgram`)

* `wait_next_event` is an operator library with the rules as parameters, instantiated once
  with the copy's four rules and once with the socket's three. A call is two steps, up to
  poll's return and from there (`Prepare` and `Poll`, `Dispatch`): in between the other
  thread runs, so what poll reported may be stale. What a rule is interested in
  depends only on its own thread's state, so nothing is lost by taking interest and poll together.
* `pair` is the AF_UNIX socket pair: bytes in each direction, directions shut down, hang-up when
  both are. A write into a direction that is shut down raises SIGPIPE, which no part of the
  program handles: `killed`.
* poll reports a hang-up whether or not a rule wants events. A rule without interest then makes the loop
  turn without waiting, until the rule becomes interested or is cancelled; the model
  allows that turn, and `NoBusyWait` is about the case the code throws for.
* For the busy-wait detection a `shutdown` counts as a write (`register_write`).
* The peer is an abstract one, with streams and what is in flight; losses,
  sequence numbers and windows are the matter of `TCPConnection`, where the same rules drive the real peer.

### Wire formats (`FrameTransfer`)

* Bytes are numbers. A 32-bit number is the pair of its halves, because TLC's integers end at
  2^31. A layout is the list of fields in wire order, read by `ReadFields` and written by `WriteFields`.
* `astray` records that a parser looked at the front of an empty chunk, which the code does
  with `string_view::front`, undefined on an empty view.
* The receiver's strings have the sizes of the code (14, 20 and the rest; 20 and the rest), so every
  header lies in a chunk of its own, and a cut can fall at and inside each.

### Definitions named Bug...

Each is a plausible mistake in the definition that follows it (a dropped guard, an
off-by-one, a missing reset, a wrong order). Nothing uses them. `PROJECT.json` "mutants"
says which property of which run fails when the mistake replaces the definition: it shows
that the property really depends on that piece of the code.

## 3. The runs

Run them with `tlc -config X.cfg M`. `tcp_connection`, `end_to_end` and `socket_program`
take one to three minutes, the others less than one.

| Run | Bounds | What it shows |
|---|---|---|
| `wrap_tracking` | 8 sequence numbers, absolute ones up to 27, all zero points | tracking is exact over several wrap-arounds (`Tracks`); unwrap's answer is the nearest (`NearestToCheckpoint`) |
| `byte_stream` | capacity 3, 6 bytes, every split of pushes, pops, reads | the counters match the deque (`CountersMatchDeque`), and the structure implements the FIFO (`ImplementsQueue`); its `TypeOK` is left to the proof |
| `reassembler` | stream of 8, capacity 7, every substring in every order | the list stays normal (`BuffersNormal`), nothing is truncated between list and output (`NothingTruncated`), and inserts do what `StreamAssembly` promises (`KeepsPromise`) |
| `tcp_receiver` | stream of 9 over 8 sequence numbers, capacity 4, window field of 3, SYN repeats, keep-alives, RST | acknowledged numbers have arrived (`AckedHasArrived`); ackno and right edge never move back (`PromisesKept`); a segment within the window is taken in full (`WindowIsHonest`) |
| `tcp_sender` | stream of 5 and wrap-around, payloads of 2, windows 0, 1, 4, every ackno and none, RST, ticks of 1 and 2 | `QueueCoversInFlight`, `QueueIsStream`, `BackoffMatchesRetransmissions`, `WindowRespected`, `PushLeavesNothing`, whatever the peer replies |
| `tcp_connection` | 2 bytes one way and a bare FIN the other, payloads of 1, windows of 2, one loss or repetition, any delay, timeouts at any time; 814 thousand states | end-to-end integrity (`StreamsIntact`), no premature forgetting (`AckedIsReceived`), nobody waits for ever (`NeverStuck`), nobody is left behind (`NoOrphan`), both ends finish completely (`CleanFinish`); each direction implements the FIFO (`StreamsAreQueues`) |
| `tcp_connection_live` | the same streams, receive window 1, two losses | the handshake completes, bytes and ends of stream arrive |
| `end_to_end` | 4-bit addresses, four routes that nest (lengths 0, 1, 2, 2), two clients and one datagram whose TTL runs out, both ARP timers of one tick, one lost frame, any delay behind others, one restart; 124 thousand states | every header on the wire or in a queue is valid and has hops left (`HeadersAccepted`); the listening adapter serves one client (`OneConnection`); mappings are true (`MappingsTrue`); `LongestPrefix`; a client that keeps sending is heard and answered (`Conversation`) |
| `socket_program` | 2 bytes each way, every capacity 1, one fault (reset, broken output, exception) or a silence of the other side, alone or with an exception; end of input by eof or hang-up; 251 thousand states | nothing is lost between the four queues (`NothingLost`), no SIGPIPE in a fault-free run (`NoBrokenPipe`), no loop throws (`NoBusyWait`), the end of the input reaches the other side (`EndReachesRemote`), and program and TCP thread end (`ProgramEnds`), unless a silence leaves the peer active for ever |
| `frame_transfer` | four segments on both links and two ARP messages; every change of one byte to every other value, every cut | `RoundTrip`, `DamageNeverAccepted`, `NeverAstray` |
| `give_up` | one side unanswered | **violated**: `GivesUpRetransmitting` (finding 1) |
| `stale_window` | 4 bytes, no loss, no repetition | **violated**: `WindowStartsAtAckno` (finding 2) |

**Why the bounds are enough.** The widths are small so that numbers wrap around within a
stream (the opener's ISN is two below the wrap). In the component runs and in the live run
streams are longer than windows and capacities, so windows fill, close and reopen; in the
safety run of the connection the two bytes and the FIN exceed the window of two. Payload
limits are smaller than the windows, so a push sends several segments and acknowledgments
fall between and inside them. Capacity 7 of 8 lets the interval list hold three intervals
with gaps, so that a new one can absorb two neighbours and leave a third. `RTOCap` and `RetxCap` stop the RTO and the retransmission
count, which the code lets grow without end; `tcp_sender` sets them where doubling has been
seen two times, the connection runs set them to 1 because nothing there reads them.
`NetCap` stops timeouts and repetitions while so many segments are under way; without it
retransmissions would fill the network without end.

In `tcp_connection` a segment may also stay in `net` for ever while both sides time out
and retransmit (up to `NetCap`, 2, at a time), so long delays are covered besides the one
loss or repetition (`MaxFaults`). The live run has two losses: fairness of delivery excludes a delay for ever.
Deadlock is not checked in the connection runs: both peers become inactive and the system
stops. It is checked in the three runs above: `end_to_end` never stops, and the others stutter only
when they are over (`Over`).

In `end_to_end`, endpoints start a frame only while fewer than `WireCap` (1) places hold one; the frames that
these cause (requests, replies, what waits and leaves at once) are not bounded. So two
frames are in one queue only when several datagrams waited, which takes a lost frame first:
that is when `Delay` happens. Addresses of 4 bits hold networks inside networks
and an address for every interface and client. ARP timers of one tick let a mapping expire between any two uses of it;
the five-second and thirty-second limits of the code differ in length only. Capacities of 1 in `socket_program` fill every
queue at the first byte, so that each rule is seen uninterested, waiting for room, and interested again.

### Fairness

`FairSpec` assumes weak fairness of four things:

* `Connect`: the opener calls `connect`.
* `PassTime`: `_tcp_loop` wakes up every `TCP_TICK_MS` and calls `tick`.
* `Deliver`: rule 1 reads every datagram that is there, and the network delivers what it
  does not lose. Losses are bounded by `MaxFaults`, which stands for "a segment that is
  retransmitted for ever gets through".
* `AppRead`: rule 3 offers every received byte to the pipe, and the application empties it.

Nothing is assumed of `AppWrite` and `AppClose`: an application may never write or close,
so `EndArrives` and `BytesArrive` are conditional on what it did. In the live run `NetCap` is 1:
time passes only when nothing readable is under way, that is, the RTO is longer than the
round trip. Premature timeouts are covered by the safety run. TLC evaluates ENABLED of
these actions far too slowly, so each conjunct of `Fairness` spells out when the action is
possible and not a stutter (`Can...`).

In `end_to_end`, `FairSpec` assumes that both threads and the other program run (weak
fairness of receiving, writing, timeouts and ticks), and strong fairness of `HostWrite` and
`RemoteSends`: TCP retransmits what is not answered, and a client its SYN. Strong,
because a bound of the model (`WireCap`) keeps them waiting while other frames are under way. One
loss stands for "not every retransmission is lost".

In `socket_program`, `Spec` assumes weak fairness of each thread's own steps (the scheduler), of
the tick that ends lingering, and of the other side, until it falls silent: it connects to one that listens, acknowledges, sends what it has, and
ends its direction *once ours has ended*. Nobody has to type or to end the input, and no fault has to happen. `ProgramEnds` excepts a lost standard output: the
socket's inbound rule then has nobody to drain the pipe, the stream stays full, and the join in
`wait_until_closed` waits as long as the other side stays silent. It also excepts a silence (`RemoteFallsSilent`)
that leaves the peer active for ever: the stack never gives up retransmitting (finding 1), so neither `connect` nor the join
returns. The exception is `[](Silent /\ Active(tcp.peer) /\ ~abort)`, no more: the program still has to end when
both streams were complete before the silence, and an exception's abort ends the thread in silence as well.

## 4. Findings

1. `give_up`: `util/tools/tcp_config.h:20` says that after `MAX_RETX_ATTEMPTS` the stack
   gives up retransmitting. Only tests read that constant; the sender counts and nobody looks. What
   this does to the program is in `socket_program`: with a silent other side its join does not return.
2. `stale_window`: `util/tools/tcp_receiver_message.h:15` says a window starts at the ackno
   of its message. `TCPSender::receive` stores the window of any reply, also of one that is
   older than what it has seen acknowledged, and `push` counts it from the newer
   `ack_absseq_`. Two replies out of order then make it send beyond the receiver's room; the
   excess is dropped there and retransmitted, so `StreamsIntact` still holds.

Without a run of its own: the comment at `tcp_minnow_socket.h:60` says the destructor sends an RST
if the connection is still open. `_abort` only ends the loop (`TCPAborts`); no segment is sent, and the
other side learns of it by its own timeouts.

## 5. What is proved

Every invariant and action property of the runs `wrap_tracking`, `byte_stream`, `reassembler`,
`tcp_receiver`, `tcp_sender`, `tcp_connection` and `end_to_end`, and every invariant of `socket_program`, is a theorem, for
all values of the constants: widths, initial sequence numbers, stream lengths, capacities, payload limits, windows,
timeouts, addresses, routes, any number of losses and repetitions, and any faults of the program's surroundings. All refinements (the byte stream as a FIFO, the
assembly of a stream, the connection as two FIFOs) are theorems too. The assumptions are the named ASSUMEs on constants, which TLC evaluates in
the runs. These say something about the system:

* `MaxAbsAssumption` (`WrapTracking`) and `PeerAssumption` (`TCPReceiverSpec`): absolute
  numbers stay below 2^63, because `unwrap` computes with `int64_t`.
* `SequenceSpaceAssumption` (`TCPConnection`): a stream is shorter than half the 32-bit
  space. The network of the model may deliver a segment at any later time. TCP counts on none
  arriving after the numbers have come round, and the code has no defence of its own (no
  timestamps). How numbers wrap around is the matter of the component theorems, which
  have no such bound.
* `AddressAssumption` and `RoutesAssumption` (`EndToEnd`): the addresses of the host, of the router's two interfaces
  and of the other program differ, no route has host bits set, and the longest route to the host leads to
  its side, as `endtoend.cpp` lines 273-293 set them up.
* Of `SocketProgram`: buffers and the pipe have room for at least one byte, and nothing else.

`RTOCap`, `RetxCap`, `NetCap` and `MaxFaults` are constants of the specifications, so the theorems hold
for every value of them; a cap that is never reached is the code's own behaviour.

### The lemmas

`TCPMessagesProofs` has what the other proofs rest on: induction in terms of a set (a
form first-order provers can instantiate), functions defined by recursion on `0 .. n`
(`Iterates`), remainders, `UnwrapInvertsWrap` (unwrapping within half the width of the
checkpoint gives back the absolute number), byte streams that are pushed to and popped from, and the
sequence space as the function `Ends`.

`TCPPeerProofs` says what each method does, whatever happened before, and is used by the
component theorems and by the connection alike:

* `push` is an iteration: an invariant of its turns (`Pushing`), by induction, gives `PushSound`,
  `PushSendsStream`, `PushBackoff` and `PushStops`.
* `TCPSender::receive` pops a prefix of the queue; `FullyAckedStops` finds the least number
  of messages to stop at, for every ackno, and `AckedSound` shows that what is subtracted from
  the counter is what the popped messages occupy.
* `Reassembler::insert`: `StoreNormal` (lower_bound, the merge with the previous interval
  and the merge loop keep the list normal and add exactly the new indices), `WriteOutWrites`
  (what is handed to the output is the gap-free prefix), and `InsertDelivers`, which puts
  these together: everything there is room for is held, in order, and the stream is closed exactly at the end.
* `TCPReceiver::receive`: `SegmentTaken` places a segment in the stream by unwrapping its number, and
  takes of it what `InsertDelivers` says.

### The theorems and their invariants

None of the properties is inductive alone; `IInv` in each module is the strengthening.

| Module | Theorems | `IInv` and why it is needed |
|---|---|---|
| `FoundationProofs`, Wrap32 | `AlwaysTracks`, `AlwaysNearest` | `TrackingInv`, which is `Tracks` with the types: the checkpoint is exact, so that the next number is within half the width of it |
| `FoundationProofs`, ByteStream | `TypeCorrect`, `CountersAlwaysMatch`, `QueueImplemented` | types and `CountersMatchDeque` together: that a pop stops at all, and at the right string, needs that no string is used up and that the counter is the number of unread bytes |
| `TCPReceiverSpecProofs`, Reassembler | `AssemblyTypeCorrect`, `AlwaysNormal`, `NeverTruncated`, `PromiseKept` | `SoundReassembler`: a normal list within the capacity, no stored interval that could be delivered already, closed exactly at the end. Without the second part the prefix handed out would not be maximal |
| `TCPReceiverSpecProofs`, TCPReceiver | `TypeCorrect`, `AckedAlwaysArrived`, `PromisesAlwaysKept`, `WindowAlwaysHonest` | `SoundReceiver` and `HoldsArrived`: what the reassembler holds, out of order too, has arrived; a segment then delivers stored bytes as well, and acknowledges them |
| `TCPSenderSpecProofs` | `TypeCorrect`, `QueueAlwaysCovers`, `WindowAlwaysRespected`, `QueueIsAlwaysStream`, `BackoffAlwaysMatches`, `PushAlwaysFinishes` | `SoundSender` (types, capacity, queue = numbers in flight), `SendsStream` (queue and input are consecutive pieces of the stream), `BackoffMatches`. `total_outstandings` stays a natural number (it is unsigned in the code) only because the queue accounts for it |
| `TCPConnectionProofs` | `StreamsAlwaysIntact`, `AckedIsAlwaysReceived`, `NeverGetsStuck`, `AlwaysCleanFinish`, `NeverAnOrphan`, `StreamsImplementQueues` | see below |
| `EndToEndProofs` | `HeadersAlwaysAccepted`, `AlwaysOneConnection`, `MappingsAlwaysTrue`, `AlwaysLongestPrefix` | see below |
| `SocketProgramProofs` | `NothingEverLost`, `NeverBrokenPipe`, `NeverBusyWait` | see below |

**Refinements.** `QueueImplemented` maps the deque and its prefix to the unread bytes and shows
that each call is one on the bounded FIFO or a stutter: `PopFromSound` and `ReadFromSound`
say that a pop of `n` bytes takes exactly the first `n`, across any string boundaries.
`PromiseKept` maps list and output to the set of indices held (`Held`) and shows
that each insert adds exactly the new ones there is room for.
`StreamsImplementQueues` maps a direction of the connection to one queue (`Unread`): the bytes the reader
can take, those that are under way, stored out of order or waiting to be sent again, and those not sent yet. `RunsJoin`
shows that these three are one run of the stream without gap or repetition. By `EveryMove` a
step of a peer or of the network leaves that run as it is, and one of an application is the push, close or pop of its end (`AppsMove`). The room
in between is bounded by the stream's length only. That the reader sees the end only after every byte is `StreamsAlwaysIntact`; that bytes arrive at all is liveness, and checked by `tcp_connection_live`.

**The connection.** The invariant is stated once for each direction, from peer `x` to peer
`y` (`Good`):

* `Transmits`: the sender is sound and everything in its queue is a piece of its stream (`Sendable`).
* `Flows`: what the receiver has received, the sender has sent; what the sender takes as
  acknowledged, the receiver has received.
* `Valid`, for each segment under way: it carries a piece of the stream or nothing, and its ackno
  is a number the receiver had reached when it was sent, or reached before.
* `Busy`: bytes or a FIN to send, or anything unacknowledged, mean something in flight.
* `Leaves`: a side that stops lingering has received its peer's whole stream, and if the peer knows the same,
  all of its numbers are acknowledged; and an acknowledgment sent along with a FIN from there on is the final one.

What has been sent and received only grows (`Onward`, `GotOn`), and a segment that is `Valid` stays so
while it does (`ValidLater`): this is why late, repeated and reordered segments need no case of
their own. `CallKeeps` reduces every action to what its call must keep (`Keeps`), with
one lemma per action. An ackno names one number only because fewer than half the sequence
space is ever sent; there `SequenceSpaceAssumption` enters.

**The network side.** The theorems of `EndToEndProofs` are about any four distinct addresses, any routes without host bits,
any timers and widths, and any number of lost, delayed and reordered frames. `IInv` says of every
place a datagram can be in (queue, waiting set, wire) that what is there is good, because each
property is about what arrives from elsewhere:

* `GoodDatagram`: the TTL is above zero and the checksum is what the next parser computes.
  `ForwardedGood` shows it of a forwarded datagram, whose checksum is computed after its TTL has been
  decreased, and whose TTL was at least two.
* `GoodFrame`: an ARP message names an Ethernet address that its sender has had (`EthersOf`). The
  tables are filled from these messages only (`TrueTable`); a restart of the other program only adds to
  the addresses it has had, so that what was learned of the old one stays sound (`Later`).
* `OnWay`: where a frame may be, and to whom. What leaves the host is for a client it has accepted;
  what comes from the other program is for the host; the router never sends the second kind out on
  its Internet side, because the longest of its routes to the host leads to the host's side. Without
  it nothing would follow for who is answered (`OneConnection`).
* `HoldsRoutes`: each table has exactly the keys of the routes added to it, each with its entry. Two
  prefixes without host bits have the same key only if they are the same prefix, and a key equals the
  shifted address exactly if the prefix covers it (`MatchFinds`). So `LongestPrefix` holds for any
  order of the calls of `add_route`.

`RouteGood` goes through both loops of `route` by induction over the turns (`Iterates`), and
`SendGood`, `RecvGood` and `TickGood` say of each method of `NetworkInterface` that it keeps
a good interface good and sends good frames only, whatever order a flush takes the waiting datagrams in.

**The program and its two threads.** The invariant of `SocketProgramProofs` has four parts:

* `Data`: the buffers a direction passes through are one chain (`OutChain`, `InChain`): the other side's
  bytes, those in flight, the peer's stream, the pipe, the owner's stream and the unread input always read, one
  after the other, exactly what has been typed; a callback only moves a front part from one link to the
  next (`MovesOn`). `OutApp`, `InApp`, `OutTCP` and `InTCP` say that an end is passed on only when the links before
  it are empty, and by its writer only, as long as nothing has gone wrong.
* `CopyFacts` and `TCPFacts`: what poll has reported of a rule is still so when its callback is served,
  although other callbacks, the other thread and the world have moved in between. Bytes are only added to what a
  thread reads, room only grows in what it writes, and an end is never taken back: this is why `read` does not
  find an empty pipe, why the busy-wait test of `wait_next_event` never throws, and why nobody writes after an end.
* `CopyRulesLeft` and `TCPRulesLeft`: a rule that has been dropped (hang-up, end of file, closed) had nothing more
  to do, unless something has gone wrong. Without it a loop could end with bytes left.
* `Threads`: each stage of `main` is reached, with nothing gone wrong, only after the directions before it are finished.

`wait_next_event` walks its rules twice, before poll and after; both walks are recursive functions over the rules,
and induction over the turns carries an invariant of the walk (`Walked`). `NothingLost` follows because what
has arrived is the first link of the chain, and because all later links are empty when the program has
ended. The conclusion `NeverBusyWait` needs no condition: it holds after faults as well.

### Only model-checked

* Liveness (`tcp_connection_live`, `Conversation`, `EndReachesRemote`, `ProgramEnds`) and
  ENABLED: the prover handles neither.
* `frame_transfer`: `Parser` and what extends it use RECURSIVE operators, over
  layouts the wire formats fix; the run covers each layout.

## 6. Not modelled

* **EventLoop**: rules without a descriptor and `RuleHandle::cancel`, which no program of the
  repository uses, and the limit of 64 categories.
* **Sockets and addresses**: `Address`, bind, connect, accept and socket options are system
  calls whose results the stack takes as they are. `tun.cpp` opens a device.
* **SocketProgram** has an owner that copies streams, as every program over this socket does. One that calls
  `read` and `write` itself, or stops reading for ever, is not modelled. Standard output never blocks. The
  peer is abstract, see section 2.
* **Router**: a prefix with host bits set is stored under a key no address has, and a length
  of 32 is beyond the table; the programs pass neither, and `AddRoute` is used with neither. The
  test `tests/router_test/router.cpp:245` adds a route with host bits, but sends nothing to it. More than two interfaces.
* **datagrams_waiting_** grows without end for an address that never answers; the model's set
  holds each datagram once, so this growth does not show.
* **Network thread**: an exception ends it, and the printing of frames.
* **IPv4 length**: the code never compares it with what was read. Padding by a link, or the loss of
  trailing zero bytes that the checksum does not see, goes unnoticed; the payloads of
  `frame_transfer` have no trailing zeros, and `DamageNeverAccepted` says so.
* **Wrong lengths with a right checksum**: `frame_transfer` damages what was composed correctly, by one changed byte or
  one cut, so `TCPSegment::parse` rejects a wrong data offset by the checksum before it uses it (`tcp_segment.cpp:57-62`).
* The exceptions of `IPv4Header::serialize` and `ARPMessage::serialize` for headers the stack never composes.
* `Parser::string` and the `to_string` functions: tests and output only. `first_index + size`
  near 2^64 in the reassembler.
* `tcp_native`, `webget` and the command lines: I/O over the system's own TCP, without state of the stack.

## 7. Plan

Done, in the order of importance for the end-to-end promise:

1. Wrap32, ByteStream, Reassembler with their abstract specifications.
2. TCPReceiver and TCPSender against arbitrary peers.
3. TCPPeer and two peers over a network: safety, then liveness.
4. Proofs: lemmas about the operators; Wrap32, ByteStream, Reassembler, TCPReceiver, TCPSender,
   the connection; the refinements of ByteStream and Reassembler.
5. `NetworkInterface`, `Router` and the adapters, composed in `EndToEnd`.
6. `EventLoop`, `TCPMinnowSocket`, `bidirectional_stream_copy` and file descriptors, composed in `SocketProgram`.
7. Wire formats, parser and checksum.
8. Proofs: the network side, interfaces and router in `EndToEnd`.
9. Proofs: the event loops, the pipe and both threads in `SocketProgram`.
10. Proofs: two connected peers as two FIFOs.

Left is what section 5 lists as only model-checked, and what section 6 leaves out.
