# Camera streamer: TLA+ specification

This directory holds a TLA+ model of the camera frame streamer, the TLC
configurations that check it on small instances, and TLAPS proofs of what holds
for every instance. Paths below are relative to the repository.

## 1. The system

The client captures frames from a camera and streams them over TLS to a server.
It has three threads and one shared queue. The server has one thread and serves
one client at a time.

| Component | State | Operations | Talks to |
|---|---|---|---|
| Frame queue, `src/ring_queue.cpp` | `head_`, `tail_`, `count_`, mmap slots, `slot_in_use_[]`, mutex, condition, `shutdown_`, three counters | `push`, `pop`, `releaseSlot` / `frame_packet_free`, `shutdown`, `getStats` | called by all threads |
| Capture thread, `src/camera_capture.cpp` | `cap_`, `streaming_`, `frame_seq_` | `open`, `start`, `captureLoop`, `stop`, destructor | `push`; reads the running flag |
| Network thread, `src/tls_client.cpp` | `ssl_ctx_`, `ssl_`, `sockfd_`, `state_`, `reconnect_delay_ms_`, counters | `initialize`, `tlsConnect`, `createTcpConnection`, `sslWriteAll`, `tlsDisconnect`, `networkLoop`, destructor | `pop`, `frame_packet_free`; server |
| Program, `src/main.cpp` | `g_running`, the three objects, two threads | `parseArgs`, `main`, `signalHandler` | creates, stops, joins, deletes |
| Wire protocol, `include/protocol.hpp` | none | `initFrameHeader`, byte order | client and server |
| Server, `server/server.cpp` | `g_running`, listening socket, one connection, header and growing buffer, statistics, files | `main` with its accept loop, `handleClient`, `sslReadAll`, `saveFrame`, `signalHandler` | client; file system |
| Log, `include/log.hpp` | a line buffer per message, file, `pthread_once`, mutex | `LogMessage`, `openLogFile` | all threads of the client |

What is hard here:

- **Zero-copy pop.** The network thread reads a slot, and clears its in-use
  flag, without the mutex, while `push` writes slots under it.
- **A ring that evicts.** `tail_` is moved by both threads; the head may wrap
  onto a slot that is out of the queue but not freed.
- **One condition variable**, with timed, infinite and non-blocking waits, a
  signal per push, a broadcast after the unlock in `shutdown`.
- **Connections that break anywhere**: eight error exits between `socket` and
  the end of the handshake, writes that fail in the middle of a payload.
- **Stopping**: a signal at any moment, three threads, blocking calls with and
  without a timeout, objects to delete in the right order.
- **Two programs that disagree about a connection**: the client notices a broken
  connection and opens another while the single-threaded server still reads from
  the old one; what was written last may or may not have arrived.
- **A buffer that is reused**, in the server for frames of all lengths, and files
  that are written again by the next run of the client.
- **Integers at their edges**: `atoi` into `uint16_t` and `size_t`, the product of
  slots and stride, byte order in two copies of the code, the last two bytes of a
  log buffer.

`PROJECT.json` lists the hazards at the lines where they bite, with the
properties that cover them.

## 2. Modules

| Module | Models | Notes |
|---|---|---|
| `FrameChannel` | the contract of the queue | abstract: a bounded, lossy, in-order channel, without slots or locks |
| `RingQueue` | `ring_queue.cpp` | detailed; implements `FrameChannel` |
| `RingQueueProofs` | | TLAPS proofs about `RingQueue` |
| `TlsClient` | `tls_client.cpp` | network thread with kernel, OpenSSL and far side as environment |
| `TlsClientProofs` | | TLAPS proofs about `TlsClient` |
| `CameraCapture` | `camera_capture.cpp` | capture thread; has no run of its own, its steps are taken in `Streamer` |
| `Streamer` | `main.cpp` | extends `TlsClient`, composes it with `CameraCapture` and `FrameChannel` |
| `StreamerProofs` | | TLAPS proofs about `Streamer`, on top of `TlsClientProofs` |
| `FrameServer` | `server/server.cpp` | server with clients, kernel and file system as environment |
| `FrameServerProofs` | | TLAPS proofs about `FrameServer` |
| `Link` | `tls_client.cpp` and `server/server.cpp` | extends `TlsClient`, composes it with `FrameServer` over connections that break |
| `LinkProofs` | | TLAPS proofs about `Link`, on top of `TlsClientProofs` |
| `WireProtocol` | `include/protocol.hpp`, decoding in `server/server.cpp` | the header byte by byte, hosts of either byte order |
| `WireProtocolProofs` | | TLAPS proofs about `WireProtocol` |
| `Startup` | `parseArgs` of `main.cpp`, constructor and destructor of `ring_queue.cpp` | integer conversions and the memory of the queue |
| `StartupProofs` | | TLAPS proofs about `Startup` |
| `Log` | `include/log.hpp` | `LogMessage` of several threads |
| `LogProofs` | | TLAPS proofs about `Log` |
| `MCRingQueue`, `MCTlsClient`, `MCStreamer`, `MCFrameServer`, `MCLink`, `MCWireProtocol`, `MCStartup`, `MCLog` | | instances for TLC |
| `MCParts` | | the instances of `Startup`, `WireProtocol` and `Log` side by side |

Definitions marked `faulty:` are variants with a plausible bug. No specification
uses them: each shows, put in place of the definition that follows it, that some
property notices the bug.

### RingQueue

A frame is its sequence number. A slot is a header number and a payload number,
so that a torn or overwritten slot is a state one can see. Variables have the
names of the members; `push_pc`, `pop_pc[c]` and `shutdown_pc` say where each
thread is.

`push` is split at every access that another thread can observe without the
mutex: the test of the shutdown flag (`PushLock`), each turn of the eviction loop
(`PushEvict`), the guard on the head slot (`PushGuardHead`), the header
(`PushWriteHeader`), the `memcpy` (`PushCopyData`), the publication with its
signal and unlock (`PushPublish`), and the drop that is counted after the unlock
(`PushCountDrop`). The critical section of `pop` is one step, because nothing in
it is touched outside the mutex by others except flags of other slots:
`PopTake`, `PopEmpty` or `PopWait`. A waiting consumer is woken by a signal, the
broadcast, its timeout, or for no reason. `PopBuild` and `PopBuildFails` are the
allocation outside the mutex, `FreePacket` the release. `timeout_ms` is reduced
to its sign, the length of a frame to being legal or not. The branch of the
eviction loop for a held tail slot is in the model; `SlotsBound` says that it is
never taken.

`evicted` and `last_popped` are history variables.

### TlsClient

A step per call that can fail. A byte on the wire is the frame it belongs to and
its offset, so that the stream a receiver sees can be stated. `SSL_write` may
take any part of what it is given; a failing one may have sent part of it.
Retries after `WANT_*` and `EINTR` change nothing and are stuttering. `peer`
says whether the far side of the connection is there; once it is `gone` a write
may still succeed (the kernel buffers it) or fail. What was written to a closed
connection is answered by a reset, and the write after that may raise `SIGPIPE`, in
`SSL_write` or in `SSL_shutdown`; `SSL_connect` writes to a connection that was just
opened, and is answered by an error. `Destroy` is the destructor, which waits for
nobody: that the thread has ended is up to its caller (`DestroyJoined`; in `Streamer`,
`JoinNetwork` before `DeleteTls`). Milliseconds
are abstract units; the multiplier is a natural number (the default is 2.0, and
the largest product, 60000, is exact in a `float` and far from 2^32).
`failures`, `last_frame` and `late_pops` are history variables.

### Streamer

`main` step by step, with the failure returns. A call of the queue is a joint
step: `PushBegins` is `CaptureFrame` of the thread and `Offer` of the channel,
`PopTakes` is `Take`, `FrameDone` is `FrameSent` with `Release`, and so on. The
channel stands for the ring on the strength of `ImplementsChannel`. The
statistics loop changes nothing and is not a step.

### FrameServer

`main` step by step with its failure returns; `parseArgs` and `mkdir` are one step
that succeeds or not, since all they leave behind is constants of the model. A
byte knows the frame it belongs to, its offset and the length its header
announces, so that a file can be compared with what a client sent. `SSL_read` and
`write` take any part. What arrives on a connection (`stream`) and how it ends
(`ending`) is up to the client, which may stay silent, close or be lost. `LeaveClient` is
the end of `handleClient`, which clears the buffer; `EndOfTurn` the end of one
turn of its loop. `got` counts payload bytes while they are read and again while
they are written, as the `remaining` of the two functions do. `failed_saves` is a
history variable.

### Link

`TlsClient`, which is extended, and an instance of `FrameServer`, joined where a call of one
side meets the other: `connect` puts a connection into the backlog, a write adds
bytes to `stream`, a close is an `ending`, and what the server closes is `gone` for
the client. `SSL_connect` returns only when the server is in `SSL_accept` on that
connection or past it. A connection breaks with a reset, which both sides see,
or silently, and then neither side is told; either way a suffix of
what was written is lost. Only a connection that the server itself closed ends with
`SIGPIPE`. A client that ends is not started again here; files
written again by a second run are in `FrameServer`, where `MCStreams` has two
clients with the same frame numbers.

### WireProtocol

An integer is the sequence of its bytes at its real width, so nothing here is
scaled: 36 bytes of header, `htonll` by halves, the server's copy of `ntohll`, the
magic, version and length checks, and the file extension from the format.

### Startup

A word of the command line has its spelling, the option `getopt_long` takes it for
and what `atoi` makes of it. The conversions narrow with `%`. The number of values
of each type is a constant, because the arithmetic of 64 bits is beyond TLC's
integers. `Streamer` takes over where `main` has a queue.

### Log

A cell of the buffer is text, a newline, a NUL or uninitialised. Behind `buf_` there
is as much memory again, so that a write past its end would be seen. `write` takes
the line, part of it or nothing, as the code ignores its result.

## 3. Runs

| Run | Checks | Result |
|---|---|---|
| `ring` | `HeldFramesIntact`, `QueueInOrder`, `FramesAccounted`, `SlotsBound`, `NoLostWakeup`, `InOrderDelivery`, `ImplementsChannel`, `ShutdownEndsWaits`, `TimedPopReturns`, `PushReturns` | hold |
| `ring_policy` | `NewestFrameKept` | violated |
| `tls` | `ResourcesOwned`, `ConnectedUsable`, `WellFramed`, `BackoffSchedule`, `OneFrameAfterStop`, `StopEndsLoop`, `ReconnectsEventually` | hold |
| `tls_stalled` | `StopEndsLoop` with a server that may stop taking data | violated |
| `tls_sigpipe` | `SurvivesLostConnection` | violated |
| `streamer` | `NoUseAfterDelete`, `PacketFreed`, `StreamInOrder`, `CaptureNeverBlocks`, `ShutdownCompletes` | hold |
| `server` | `TypeOK`, `FilesWhole`, `FramesCounted`, `ServerResources`, `StopEndsServer`, `BacklogServed` | hold |
| `server_silent` | `StopEndsServer` with a client that may stay connected and silent | violated |
| `link` | `NoProtocolError`, `ReceivedWasSent`, `ReceivedInOrder`, `HandshakeAnswered` | hold |
| `link_silent` | `LostConnectionReplaced` | violated |
| `wire_doc` | `DocumentedHeaderSize` | violated |
| `parts` | of `Startup`: `SlotsMapped`, `MappingReleased`; of `WireProtocol`: `RoundTrip`, `NetworkOrder`; of `Log`: `BufferBounds`, `LinesTerminated`, `OpenedBeforeUse`, `SameOrder` | hold |

`Startup`, `WireProtocol` and `Log` share no state with each other or with the other
modules. One run has them side by side: a behaviour of `MCParts` is one of one of the
three, while the other two stay in an initial state.

**Bounds.**

- `ring`: two slots, four frames, two consumers: the head wraps, frames are evicted,
  both consumers hold a slot while the producer runs into it, one consumer times out
  while the other is signalled, and a fourth push meets the mutex that a refused
  third one has released. The program has one consumer; two make the wake-up
  argument non-trivial. The proofs cover every capacity.
- `tls`: two addresses, two descriptors, frames of two plus two bytes so that header
  and payload can break in the middle, four frames, a delay that reaches its maximum
  at the third failure.
- `streamer`: a queue of two and four frames, so that it fills while the network
  thread holds a packet; one address and one byte each of header and payload, whose
  detail `tls` covers.
- `server`: two connections, each with any prefix of one of six streams (two runs
  of the client with frames of other lengths, a foreign header, the header of a
  payload beyond the limit, a stream that starts inside a frame, a frame without
  payload); headers and
  payloads of two bytes, so that both break in the middle and the buffer is used
  again for a shorter frame.
- `server_silent`: one connection with any prefix of these streams.
- `link`, `link_silent`: two frames and two connections, which is one loss and one
  reconnection. `MaxFailures` is 0: it bounds a history variable that `Link` does not
  need. Both have `CHECK_DEADLOCK FALSE`, because with silent losses both sides
  really may wait for ever, which is what `link_silent` shows.
- `parts`, `WireProtocol`, and `wire_doc`: nothing is scaled; values whose bytes differ from each other and from zero.
- `parts`, `Startup`: a machine with 4 values of `uint16_t`, 5 of `uint32_t`, 256 of `size_t`
  and an `int` of -8 .. 7, chosen so that conversions wrap, so that some products wrap
  and others do not, and so that `WordAssumption` (section 4) holds; every command
  line of up to three words, alone or after `--host cam`.
- `parts`, `Log`: two threads with two messages each, a buffer of five bytes, pieces that are
  empty, that fit, that end at the last byte and that do not fit. TLC's check for
  deadlock is on, and a mutex that one thread does not give back would stop both.

`MaxFrames`, `MaxAddrs`, `MaxFailures`, `MaxConns` and `MaxLines` are the bounds; the
code has none.

**Fairness.** In `RingQueue` a thread inside `push`, `pop` or `shutdown` keeps
running and gets the mutex, whose sections are short; nobody has to call the
queue again or to free a packet. The timeout is strongly fair because the
deadline is absolute and computed once. In `TlsClient` and `Streamer` every call
that ends by itself is weakly fair: `poll`, `pop`, `nanosleep`, `sleep` and
`getaddrinfo` have a timeout, and OpenCV's V4L2 read has one. `SSL_connect` and
`SSL_write` have none. `TlsClient!FairSpec` assumes that the server answers or hangs
up, `StalledSpec` does not. `ProgFairSpec` of `Streamer` does not either, so that
`CaptureNeverBlocks` covers a stuck network thread; there `ShutdownCompletes` has the
assumption `ServerAnswers` in front of it. In the same way `Reachable`, that a server
that can be reached is reached again and again, stands in front of
`ReconnectsEventually`, and the absence of silent losses in front of
`HandshakeAnswered`.

In `FrameServer` a step that ends by itself is weakly fair, `select` because of its
one-second timeout; a read returns when there are bytes or an end to report, and a
handshake when the client has sent something or has gone (`SilentSpec`). `FairSpec`
adds that every client hangs up some day, an assumption on the clients that the code
does not see to: with it the server ends after Ctrl+C and serves its backlog (`server`),
without it it does not end (`server_silent`). In `Link` both programs keep running and a
call with its answer returns. Neither side has a timeout for a handshake, so that one on
a connection that stands, or that broke silently, may never be given up.

**Findings.**

1. `ring_policy`: the header promises DROP_OLDEST. While a packet is held, `head_`
   reaches its slot when `capacity - 1` frames are queued, and the *new* frame is
   dropped (`ring_queue.cpp:143`). The branch written for that purpose
   (`ring_queue.cpp:130`) is unreachable.
2. `tls_sigpipe`: `SIGPIPE` keeps its default action, so a server that closes the
   connection can end the client, which should reconnect. In the trace the server
   closes, `SSL_write` of the header succeeds, and that of the payload ends the process.
3. `tls_stalled`: `sslWriteAll` repeats an interrupted write and does not look at
   the flag, so Ctrl+C does not end a client whose server takes no data.
4. `server_silent`: a client that is connected and sends nothing keeps the server in
   `SSL_read`, which `SA_RESTART` and `server.cpp:163` repeat, so that Ctrl+C does not
   end it; `server.cpp:451` speaks of prompt handling.
5. `wire_doc`: the header has 36 bytes, and 36 in `header_len`; the repository's
   `README.md:224-231` says 40 for both. Client and server share the struct and agree.
6. `link_silent`: after a connection that broke silently the server reads from it
   for ever and serves nobody; the client's next connection is completed by the
   kernel and waits in `SSL_connect` for ever. There is no keep-alive or timeout.

Smaller disagreements met while reading, without a run of their own: the number
logged as `sent` is the number popped (`main.cpp:328`); `-h` is documented as help (`main.cpp:123`) and is
the host option; raw frames of 1920 x 1080 are accepted by `parseArgs` and refused by
every `push`, although `ring_queue.hpp:27` calls the slot enough for 4K.

## 4. Proofs

Each module of proofs has the same shape: an invariant that is strong enough to
be inductive, a lemma for each operation or group of operations with a step for
each action, and theorems that read the properties off the invariant. Every
inductive invariant was checked with TLC on the run of its module before it was
proved. No proof uses fairness.

### RingQueueProofs

Proves, for every capacity, every set of consumers and every number of frames,
that `RingQueue!Spec` implies `[]TypeOK`, `[]HeldFramesIntact`, `[]QueueInOrder`,
`[]FramesAccounted`, `InOrderDelivery`, `[]SlotsBound`, `[]NoLostWakeup` and
`ImplementsChannel`. The assumptions are those the module declares: the capacity and
the slot size are positive (the constructor refuses anything else), timeouts are of
three kinds, there are finitely many consumers.

None of these invariants is inductive. `IInv` adds what they rest on:

- `PushInv`: `push` owns the mutex from its shutdown check to its publication;
  the frame it carries is newer than all queued ones; the slot under `head_`,
  once found free, stays free, and is filled step by step. This is where the
  guard at `ring_queue.cpp:143` and the marking of a slot *before* the unlock in
  `pop` meet: nobody but `PopTake` sets a flag, and `PopTake` needs the mutex.
- `CursorInv`: `head_` is `count_` places after `tail_`.
- `InUseInv`: a flag is set exactly while some consumer holds that slot.
- `CountInv`: the counters, with the frame that `push` has not counted yet.

The lemmas on `Plus` hold all the modular arithmetic: a position is a slot,
moving `tail_` shifts positions by one, and positions below the capacity are
different slots. With them, a write to the slot under `head_` touches no queued
slot (`HeadNotQueued`), and taking the tail slot changes no other position.
There is a lemma for each of `push`, `pop` and `shutdown`, with a step for each
action; `WaitingIInv` covers all steps that only move threads between states in
which they hold nothing.

`InOrderDelivery` speaks of every step in which `frames_popped_` changes: the frame
taken is newer than `last_popped`, which `QueueInOrder` says of the tail slot.

Three results rest on `IInv` and on more:

- `RingHasRoom` (`SlotsBound`): positions below `count_` and slots that are held are
  disjoint sets of slots, so their sizes add up to at most the capacity. With it the
  branch at `ring_queue.cpp:130` is dead code for every capacity.
- `SignalSuffices` (`NoLostWakeup`) needs `WakeInv`: a consumer that was woken, or
  still runs, stands for each queued frame that was signalled. The proof counts
  consumers with the theorems on finite sets, which is what `ThreadsAssumption` (the
  consumers are a finite set) is for.
- `RingImplementsChannel`: `queueBar`, `offerBar` and `heldBar` name the refinement
  mapping. The queue of the channel is the frames in the slots from `tail_` on; an offer
  is open from the test of the shutdown flag until the publication or the drop.
  The initial states correspond, and each action is a step of `FrameChannel` or leaves
  the mapped variables alone.

### TlsClientProofs

Proves `[]TypeOK`, `[]ResourcesOwned`, `[]ConnectedUsable`, `[]OneFrameAfterStop`,
`[]WellFramed` and `[]BackoffSchedule` of `TlsClient!Spec` for any set of descriptors,
any number of addresses and frames, headers and payloads of any length, and every base,
multiplier and maximum of the delay. None of the last five is inductive. Whether a failed attempt
leaks depends on what the client owns at that place, so `ConnInv` ties `ssl_`,
`sockfd_`, `state_` and the far side to every place of `networkLoop` and of the
functions it calls: nothing is owned while an address is resolved or tried, except
the local descriptor between `socket()` and `connect()`; an SSL object exists from
`SslNew` until `tlsDisconnect` or the error exits of `tlsConnect`; at the top of
the loop there is everything or nothing, as `state_` says. `FrameInv` bounds what
`sslWriteAll` has left, and `LateInv` says where the thread can be once it took a
frame after the flag was cleared: beyond `pop`, and never back. Of the back-off,
`NextDelayBounds` shows that the delay stays between base and maximum.

`BackoffSchedule` compares the delay with `ExactDelay[failures]`, the delay without a
maximum, a recursive function. That such a function satisfies its own equation
(`ExactDelayEquation`) needs an induction over numbers, which is done as an argument about
a least counterexample: `LeastNumber` gives every nonempty set of numbers its least
element, from `WFMin` of the library. `Delays` are the finite schedules, which exist
for every length and agree where they overlap. `NextDelayExact` then says that one
step of the code, product and cap, is one step of the schedule. The cap commutes with
the product because the multiplier is at least 1; and because `failures` is counted only
up to `MaxFailures`, `DelayAssumption` asks that the maximum is reached by then.

`WellFramed` speaks of remainders of offsets. `WireInv` says how much of a frame is on
the wire at each place: whole frames while the loop is between frames, and what
`remaining` leaves of the current frame while `sslWriteAll` works. It also says that
every frame on the wire is older than or equal to the last one popped, so that a new frame
is newer. `RemainderUnique` is the arithmetic: bytes that are appended where the offset
says keep offset and position congruent.

### StreamerProofs

Proves `[]NoUseAfterDelete`, `[]PacketFreed` and `[]StreamInOrder` of `ProgSpec`, the
specification of `Streamer`, for every capacity of two slots or more (`parseArgs` refuses
fewer), any number of frames, and every failure of `main`. `Streamer` extends `TlsClient`,
so the variables of its network thread are those of `TlsClient` and the theorems about it
can be cited here.

The invariant `SInv` has a part for each worry: `ThreadInv` says which threads exist
at each place of `main`, that one that was joined has ended and that one that was never
created has not begun; `ObjectInv` which objects exist; `PacketInv` what the network
thread and the channel hold; `OrderInv` that what is queued is newer than what
was taken. `NoUseAfterDelete` then is a matter of where `main` can be when it deletes.

`StreamInOrder` is proved by implementation: `StreamerImplementsTlsClient` shows that
each step of the program is a step of `TlsClient` or leaves its variables alone, so
that `FramesWhole` holds in the program as well. The one obligation that is not
immediate is that a frame taken from the queue is newer than the last one, which
`TlsClient` assumes of the queue and `OrderInv` proves of the channel.

### FrameServerProofs

Proves `[]TypeOK`, `[]FilesWhole`, `[]ServerResources` and `[]FramesCounted` of
`FrameServer!Spec` for any number of connections, any length of headers and payloads, any split of reads and
writes, and any set of streams that satisfies `StreamsAssumption`: what a client
sends is `Coherent`, that is, the bytes that follow a byte are those of its frame up
to the frame's end. That is what `networkLoop` does on a connection (`FramesWhole` of
`TlsClientProofs`). It does not say that a stream starts at the start of a frame, that
it ends at the end of one, that the protocol is the right one or that the length is
small: the server has to cope with all of that, and the streams of the run include
such cases.

`FInv` adds to the three properties: `ControlInv` (there is a connection exactly at the
places of `Serving`; context and listening socket exist from their creation on),
`ArrivalInv` (connections come in the order of their numbers, nothing was read from one
that has not come), `HeaderInv` (the header is the last bytes that were read; once
accepted, its payload fits the buffer) and `PayloadInv` (buffer and file hold the bytes
of the frame of the header, as far as they were read and written). The core is
`ReadPayloadStep`: the last byte read was the one before the next byte of this frame,
so `Coherent` says what the next ones are. `FileWritten` carries it over to
files that are truncated and written again.

`FramesCounted` compares the counters with the sizes of two sets: the last bytes of
frames that were read (`FramesRead`), and the bytes of these frames (`FrameBytesRead`).
`SInv` adds to `FInv` that connections in the backlog are different ones of which
nothing was read (`WaitingInv`), where in the stream `handleClient` is at each of its
places (`PlaceInv`), and the sizes themselves (`CountInv`). A step that reads either ends no
frame (`ReadNoEnd`) or one (`ReadOneEnd`), whose bytes are in no frame counted before.
Which of the two it is follows from the place: a read of the payload ends the frame with
its last byte (`FrameSpan`), and a read of the header ends one only if it completes the header of
a frame without payload (`NextFrameEnd`, `HeaderEnd`). Such a frame is all there before the
header is accepted, and `Uncounted` has a case for it: with no more than the case for
the payload the property would be false there.

### LinkProofs

Proves `[]NoProtocolError`, `[]ReceivedInOrder` and `[]ReceivedWasSent` of `LinkSpec`, and
that `LinkSpec` implements `TlsClient!Spec`, for any number of connections and frames,
headers and payloads of any length, writes and reads split anywhere, and connections that
break at any byte, with a reset or silently. Besides the assumptions of `TlsClient` it takes
that the payload is within the server's limit (`PayloadAssumption`; `LimitFacts` of
`WireProtocolProofs` is the arithmetic behind it).

The client's half is inherited: every step of the composition is a step of `TlsClient`,
or its `PeerGone`, or leaves it alone (`StepOfClient`), so `IInv` and `WireInv` hold
here. `Flow` restates what `WireInv` says of remainders in a form that can be cut and
copied: a byte is followed by the rest of its frame, and then by newer frames
(`FlowExtends`). A prefix of a flow is one (`PrefixFlows`), which is all a broken
connection does to a stream.

`LInv` has a part for each question the three properties depend on:

- `Numbered` and `Waiting`: connections are numbered as they arrive and accepted in
  that order, the client's own is the last, and nothing was read of one that waits.
- `StreamInv`: each stream is a flow; while the connection stands it is the client's
  wire; what is in the stream of an earlier connection is older than all of a later one.
- `Position`: at each place of `handleClient` the server has read `At` so many bytes of
  a frame: none at the top of the loop, as many as `hdr` holds, header and `got`.
  `ReadOn` says where it is after the next read.
- `ReceivedInv`: what was counted is older than all that was not read yet, on the
  connection served and on those that wait.
- `SentInv`: there is a set of frames, as large as `frames_sent_` says, with every frame
  whose last byte is in a stream and every frame the server has counted. The set is an
  existential, and not a variable, because the program keeps none.

`NoProtocolError` follows from `Position`, `ReceivedInOrder` from `ReceivedInv`, and
`ReceivedWasSent` because the frames received are an injection into the set of `SentInv`.
None of the three is inductive: that the server never loses its place needs what is in
the streams, and that it counts no frame too many needs that no frame is completed on
two connections. The lemmas `ClientKeeps`, `StreamKeeps` and `ServerKeeps` say what the
steps of client, network and server have in common; below them there is a lemma for each
group of actions.

### WireProtocolProofs

Proves `[]NetworkOrder` and `[]RoundTrip` of `WireSpec` for all values of all
members and all byte orders of the two hosts, under `WidthAssumption` (values have the
width of their types). `HalvesReversed` shows that the exchange of the halves in
`htonll` and `ntohll` is the reversal of all eight bytes; `MembersOnWire` that each
member lies at the offset at which the server looks for it (by `AddMember`, one
member after the other); `LimitFacts` that what the queue takes is below the server's
limit; `ExtensionFacts` that the extension tells the formats apart.

### LogProofs

Proves `[]TypeOK`, `[]BufferBounds`, `[]LinesTerminated`, `[]OpenedBeforeUse` and
`[]SameOrder` of `LogSpec` for every number of threads, every buffer of at
least three bytes and pieces of every length. `BufferBounds` and `LinesTerminated` are not
inductive: they rest on `TextSoFar`, that a message under construction is text up
to `pos_` and that `pos_` leaves room for newline and NUL. `PieceFits` is the one
lemma about `snprintf` and the cap together (what was cut off is not counted, so
the NUL it wrote is where the newline goes). `Message` says what holds of one
message, and the lemmas with that word in their names show that each operation keeps it.
`OnceOrdered` relates the places of the threads to `pthread_once`.

`SameOrder` rests on `OrderInv`: the thread that writes holds the mutex; a message is in
the file at most once, and is the last one there while its thread is about to write it
to the terminal; what is on the terminal was logged before. So a message that is
added to the terminal cannot come behind one that follows it in the file.

### StartupProofs

Proves `[]SlotsMapped` and `[]MappingReleased` of `StartSpec` under
`WordAssumption`: the product of a number from the command line and the size of a
slot fits into `size_t`, and if the number is negative, what the product wraps to is more
than can be mapped. That is so with 64 bits of `size_t`, 32 of `int`, slots of 4 MB and
address spaces of 47 bits; with 32 bits `--queue-size 1024` would wrap to a small mapping,
so the theorem is a statement about 64-bit builds. The argument: every value that
`config["q"]` can take is `Honest`, meaning that the bytes computed for it are the
bytes needed or cannot be mapped (`ArgumentHonest`, by `ModUnique`); the constructor
maps exactly those bytes; and `StrideHolds` gives room for the last slot.
TLC evaluates `WordAssumption` for the instance of `MCStartup`.

### Not proved

The types of `RingQueue`, `TlsClient` and `Log` are proved and not a property of
their runs.

Checked by TLC only is liveness (`ShutdownEndsWaits`, `TimedPopReturns`, `PushReturns`,
`StopEndsLoop`, `ReconnectsEventually`, `CaptureNeverBlocks`, `ShutdownCompletes`,
`StopEndsServer`, `BacklogServed`, `HandshakeAnswered`): it needs fairness and `ENABLED`,
which are beyond this prover. Every other property of a passing run is a theorem.

## 5. Not modelled, and plan

Left out for good: image data, the text of log lines, certificate verification (an
outcome of the handshake), the build, and time. The deadline of `pop` is computed
from `CLOCK_REALTIME`, so a clock that is set back lengthens the wait; here a timed
wait may end at any moment. A consumer that holds several packets at once is left
out because the program has none. Of the server's `parseArgs` only success or
failure is modelled. `capture->start()` fails only if the camera is not open, which
it is at that place of `main`, so this failure is no step. The descriptor
that `saveFrame` opens (`server.cpp:196`) is closed before each of its returns and is not
a variable; `ServerResources` speaks of sockets and SSL objects only.

Two ends of the server are in the model and allowed by its properties, because no
line of the repository speaks against them: `accept` failing for good, and `SIGPIPE`
on a connection that was reset.
