# A TLA+ model of the RTMP server

The repository is an RTMP media server in C++ on the State Threads coroutine
library: publishers send a stream over RTMP, the server relays it to players and
may record it. This directory holds TLA+ modules that model it from the accepted
socket to the recorded file, TLC configurations that check them on small instances,
and TLAPS proofs of the most important properties for every value of the constants.

## 1. The system

Coroutines are scheduled cooperatively: a coroutine runs until it blocks (a socket
read or write, `st_usleep`, `st_cond_wait`, `st_thread_join`). So code between two
blocking calls is atomic, and every hazard of concurrency sits at a blocking call.

| Component | Source | State | Operations | Modelled by |
|---|---|---|---|---|
| Listener, handshake, commands | `app/server.cpp`, `common/listener.cpp`, `protocol/rtmp_handshake.cpp`, `app/rtmp_server.cpp`, `app/rtmp_connection.cpp` | place in the dialogue, request, pool of sources | accept, handshake, `ConnectApp`, `IdentifyClient`, `StartFmlePublish`, `StartPlay`, `FMLEUnPublish`, `FetchOrCreate` | `Session` |
| AMF0 values, packets | `protocol/rtmp_amf0.cpp`, `protocol/rtmp_packet.cpp` | none | size, encode, decode | `Amf0`, `Packets` |
| Chunk protocol, receiving | `protocol/rtmp_stack.cpp` `Protocol` | `ChunkStream`s (header, message under way), `in_chunk_size_` | `RecvMessage`, `ReadMessageHeader`, `ReadMessagePayload`, `OnRecvMessage` | `ChunkStream`, `Streams` |
| Chunk protocol, sending | the same file, `common/socket.cpp` | iovecs, header cache, `out_chunk_size_` | `DoSimpleSend`, `DoSendMessages`, `SendLargeIovs` | `Sender`, `Channel` |
| Receive buffer | `common/buffer.cpp` `FastBuffer` | memory, `start_`, `end_`, `capacity_` | `SetBuffer`, `Grow`, `ReadSlice`, `Skip` | `FastBuffer` |
| Reorder buffer | `common/queue.hpp` `MixQueue` | multimap by timestamp, two unsigned counters | `Push`, `Pop` | `MixQueue`, `MixCorrect` |
| Source | `protocol/rtmp_source.cpp` | caches of sequence headers, GOP cache, consumers, `mix_queue_` | `OnAudio`, `OnVideo`, `CreateConsumer` | `Source` |
| Shared messages | `protocol/rtmp_message.cpp` | payload with `shared_count`, handles | `Create`, `Copy`, destructor | `Source` |
| Consumer, its queue and clock | `rtmp_consumer.cpp`, `rtmp_message.cpp`, `rtmp_jitter.cpp` | messages, `av_start_time_`, `av_end_time_`, jitter, `mw_waiting_` | `Enqueue`, `Shrink`, `DumpPackets`, `Wait`, `WakeUp` | `MessageQueue`, `Playing`, `Source` |
| Array of the queue | `common/queue.hpp` `FastVector`, used by `rtmp_message.cpp` | `msgs_`, `nb_msgs_`, `count_` | `PushBack`, `Clear`, `Erase`, `Free` | `FastVector` |
| GOP cache | `protocol/gop_cache.cpp` | messages, two counters | `Cache`, `Dump`, `Clear` | `GopCache` |
| Play session | `app/rtmp_connection.cpp`, `app/rtmp_recv_thread.cpp` | two coroutines, error code, received messages | `Playing`, `DoPlaying`, `QueueRecvThread` | `Playing` |
| Publish session | the same files, `common/connection.cpp` | two coroutines, message count, error code, merged-read handler | `Publishing`, `do_publish`, `PublishRecvThread`, `ServiceCycle` | `Publishing` |
| Coroutine wrapper | `common/thread.cpp` | `loop_`, `st_`, `can_run_`, `really_terminated_`, `disposed_` | `Start`, `Dispatch`, `StopLoop`, `Stop`, `Dispose` | `Thread`, `Coroutine` |
| DVR, FLV muxer, file writer | `app/dvr.cpp`, `muxer/flv.cpp`, `common/file.cpp` | segment, durations, descriptor, files | `OnPublish`, `OnAudio`, `OnVideo`, roll, `Open`, `Close` | `Dvr` |

How they interact: the listener starts a connection's coroutine, which shakes hands,
serves commands, fetches the Source of its virtual host, and then becomes a publish or
a play session with a second, receiving coroutine. A publish session's receiver
calls the Source, which writes each message to the DVR, copies it to every Consumer
and signals the play session that waits on it. The receiver of a play session signals
the same Consumer for what the player sends. Messages are shared, not copied; each
holder owns a handle. A play session hands batches to the sending half of `Protocol`.

What is hard, and so what the properties are about: a wake-up lost between a flag
and a condition variable; an interrupt used up by the wrong blocking call; a socket
read by two coroutines; reference counts over six kinds of holder; counters kept
beside the containers they count; windows, buffers and header caches at their limit;
a chunk size that changes between two messages; a dialogue taken up again after a
timeout; a file half opened, half written or left behind by a killed process; loops
that never block under a cooperative scheduler. `PROJECT.json` lists each with its line.

## 2. The modules

* `Media` classifies a message the way the code does, by its first payload bytes.
  `adpcm` is the class of audio whose bytes read like an AVC header, because the code
  asks the byte tests without asking the RTMP type. `DemuxAudioOk` is false: the code
  shifts the sound format twice and refuses every codec.
* `MixQueue`, `MessageQueue`, `GopCache` are operator modules, one record per C++
  object; they keep the code's slips (the third `mix_ok` test reads `nb_audios_`
  twice, `Shrink` tests `IsAudio` twice, the key frame test of `Cache` is negated).
* `MixCorrect` drives the reorder buffer as `OnAudio` and `OnVideo` do, for any number of
  publishers, since nothing arbitrates between those of one stream: push, then
  pop at most once. `lastIn`, `lastSeq` are histories, one per publisher and type. Its names begin with `Mix`, so that
  `RelayProofs` can extend it together with `Source`.
* `Source` composes the three: one action per call of `OnAudio`/`OnVideo`,
  `CreateConsumer`, and a play session's dump and send. `shared_count` is the counter
  of each payload, -1 once freed; the deltas are the copies and destructions the call
  makes. `atc_` is false and `cache_metadata_` null, as configured.
* `Playing` is one play session: the connection's coroutine (`pc`), its receive
  thread (`rpc`) and the publisher's dispatch. Labels of `pc` and `rpc` are the
  blocking calls. Note that `DoPlaying` returns after its first batch.
* `Publishing` is one or more publish sessions of a stream, and the loop of
  `ServiceCycle` around them: `spin` is that loop when the peer has gone, where
  nothing blocks, and `Starved` says that no other coroutine can run.
* `Thread` is the object on its own, any number of them: the coroutine of an earlier run
  is kept beside the one `st_` points to, so that one left behind would show. `Coroutine` is what
  its users rely on. `Thread` implements it (`KeepsPromise`), and so does what `Playing` and
  `Publishing` suppose of their receive threads (`ReceiverIsThread`): these look at the thread
  from just after `Start`, which `Coroutine` therefore admits as an initial state.
* `FastVector` is the array of a message queue. `PushBack` copies twice the entries the old
  array has; each entry read beyond it is any value of `Wild`, or the process ends
  (`EnqueueFaults`). `window` is the sequence the other modules take the vector for.
* `FastBuffer` keeps offsets for pointers; a byte is its position in the byte stream,
  so that a lost or overwritten byte shows. `DOMAIN buf` is the memory allocated,
  which `SetBuffer` changes while `capacity_` stays.
* `ChunkStream` is the receiving half of `Protocol` beside a peer (external) that
  interlaces messages on several chunk streams, chooses header formats and changes its
  chunk size. `out` holds the last message handed out beside what the peer meant.
  `lost` says why the receiver has left the peer's cut of the byte stream; there the
  model ends, as the code has no way back. `Streams` is what its callers rely on: one
  channel per chunk stream.
* `Sender` is the sending half: one action per chunk of a packet (`DoSimpleSend`), per
  turn of the loop that gathers a batch (`DoSendMessages`) and per `WriteEv`
  (`SendLargeIovs`). Iovecs point into the header cache by position, so that a header
  overwritten before it is written shows. The client (external) reads by the protocol.
  After a failed write this end stops; the code goes on to use the connection, whose
  byte stream then has a hole. `Channel` is what the callers rely on.
* `Amf0` are the values of AMF0 as operators: what a write puts down, what `TotalSize`
  asks for beforehand, what a read makes of any bytes. It uses recursion over nested
  values. `Packets` are the packets on top of it: the server's, read by a client, and
  a client's requests, whole or broken off at any byte, read by the server. A request
  is decoded by a list of reads; names of commands and properties are one byte long.
* `Session` is the dialogue of several connections. An action is one message, or one
  failed read, with all the coroutine does until it reads again; each answer it sends
  may fail. `cause` collects what a connection has met that the dialogue does not provide
  for (a message out of order or one that does not decode, a stall, a session that
  ended), `crashed` is a null packet read, `rs_assert(0)` or `AMF0ReadAny` freeing its
  caller's pointer, and `Halted` also covers a coroutine that spins. A command that does
  not decode is an error or, wherever the server decodes it, the end of the process
  (`MayAbort`), which depends on where its values break off; `Packets` tells the two apart.
* `Dvr` is the `DvrSegmentPlan` of each of several Sources, with its segment, the muxer and
  the file writer, and the two file names that survive a killed process. All Sources open
  the same path: `GetDvrPath` is a constant, `StringReplace` replaces nothing, and what is
  put behind the path holds no vhost. So one Source truncates what another writes, and a
  rename takes along every descriptor that is on the file. A tag is one item of a file; a
  write may put down a part of it, at the descriptor's position (`at`) unless the file was
  opened for append, and what two Sources have written over each other is `Spoilt`.
  `writer` is the descriptor: null, open, or closed and kept; a closed handle may have got
  the number of a descriptor opened later (`over`), so that a write or a second close
  through it hits another Source. `disturbed` is a history: the Sources whose file another
  one has truncated, written to or closed, or shares with a writer.
* `RelayProofs` (`MixCorrect` and `Source`), `PlayingProofs`, `PublishingProofs` (and
  `Thread`), `FastBufferProofs` (and `FastVector`), `ChunkStreamProofs`, `SenderProofs`,
  `SessionProofs` and `DvrProofs` hold the theorems.
* `MCSource`, `MCPackets`, `MCSender` and `MCDvr` give the inputs and symmetries of their
  runs. `MCCommon` puts `FastBuffer`, `Thread`, `FastVector` and `MixCorrect`, classes of
  `src/common` which share nothing, into one run: a behaviour uses one of them, so that no
  product of their states is built.

Definitions marked `Mutant` are one plausible slip each (a dropped guard, a missing
reset) in the definition that follows them; no specification uses them.

## 3. The runs

| Run | Question | Bounds and why |
|---|---|---|
| `playing` | wake-ups, order, window, use of the thread, end of session | `MinMsgs` 1, window 3, batch 2: windows overflow, batches are cut; four messages, two from the player |
| `source` | reference counts, GOP counters, headers | four messages of seven classes, two consumers joining at any time, two interchangeable header bodies (symmetry) |
| `common` | `FastBuffer`: bounds, integrity of the stream, service; `Thread`: one coroutine at a time, does `Stop` return, is the promise kept?; `FastVector`: does the array hold the window, has every message one owner?; `MixCorrect`: are the counters exact, the tracks of two publishers in order? | capacity 4, memory up to 6, requests up to 7, eight bytes: every branch of `Grow`, requests larger than the buffer, buffers that wrap twice. A joinable and a detached object, four starts of each: a third run finds what two others left. Two entries to begin with and six messages, so that the array grows twice and shrinks and is cut in between; memory of two values. Reorder limit 3 in place of 10, six messages: twice the limit, so both pure-track releases and mixed ones happen; timestamps 0..3 give ties and gaps |
| `publishing` | errors noticed, cause of giving up, handler, use of the thread, end | two connections, two messages and one small read per session |
| `publish_silent`, `publish_ends` (violated) | is a silent publisher dropped? does a closed connection end? | one connection |
| `chunk_stream` | are messages put together as meant, each stream on its own, refused only for cause, cut where the peer cut? | three chunk streams, three messages, lengths of 0 and 5 units against sizes 1 to 3, so that messages take several chunks and the size changes inside them; times 0..3 with the announcement of an extended time at 3 and the wrap at 4 |
| `send` | does the sending half implement `Channel`, within its arrays? | four messages in batches of up to three, of 1 to 5 units, chunk sizes 1 and 2; a cache for two or three headers and two iovecs to begin with, so that both fill inside a message; portions of 4 iovecs; times at 24 and 32 bits scaled to 4 and 16 |
| `packets` | do sizes, encodings and decodings agree, and what becomes of a broken request? | every packet with two numbers and three texts (empty, an end mark's byte, a length's byte); requests are cut at every byte; bytes 0..31 |
| `session` | dialogue, transaction ids, sources, crashes, service | one publisher and one player, tcUrls and names with and without a host, a vhost query and all their parts; one message per client off its dialogue (one that does not decode included) and one step that goes amiss, each at every place |
| `dvr` | does a Source that nobody disturbs record what it was given? is a finished recording kept? | two interchangeable Sources (symmetry), five messages of four classes and two times, so that one can roll while the other records; a segment of 1 unit and one audio message to end it (500 in the code), one failing system call, one restart |
| `dvr_shared` (violated) | is a finished recording that of one Source? | two Sources, no failing call, no restart |

Eight properties that follow from the same invariants as those of the runs are stated by
theorems only (section 4): the types of `Playing`, `Publishing` and `ChunkStream`,
`BacklogBounded`, `OverflowOnlyTooLarge`, `OneReader`, `HandlesPresent` and `SizesAgree`.

Runs bound their counters, so they may stop: deadlock is not checked
(`CHECK_DEADLOCK FALSE`) except in `packets` and `dvr`, and everyone-waits-on-everyone
is covered by the liveness properties instead.

`Sender` implements `Channel` under the mapping *accepted* = messages handed over, as
the wire can carry them; *received* = messages the client has put together; *state* =
the link. A message is *unsafe* when its chunk stream id has no one-byte form or its
time, cut to 24 bits, announces an extended time that is not there: `Channel` allows the
client to lose its place only while such a message is under way. The implementation
includes progress: what was accepted is delivered unless a write fails.

**Fairness.** State Threads resumes each runnable coroutine in turn, ends every
sleep and timed wait, and returns from a read of a closed or interrupted socket;
weak fairness of the actions that stand for those is assumed. In `Sender` a write ends
within the send timeout, and the client reads what has arrived. In `Session` the listener
accepts, and a client that keeps to its dialogue sends what comes next: `PatientServed` is
about such clients only. Otherwise nothing is assumed of peers: not that they send,
read or leave. In `Publishing` fairness holds only until a coroutine spins, and the
specification says so (`~Starved`, `~Halted` in `Session`); `Playing` models one
session in a process where no other connection spins.

**What the violated runs show.** `publish_silent`: `OnRead` sleeps inside a read and
ignores an interrupt; `Stop` then joins a thread that reads with no timeout.
`publish_ends`: `ServiceCycle` never leaves its loop; when the peer has closed it spins
without blocking and starves the process. `dvr_shared`: two Sources record; one rolls and
its file gets the final name, the other writes its next tag where its own file would have
gone on, over what is there.

**What the properties leave out.** `CrashForCause` takes as a cause whatever the dialogue
does not provide for, and `DialogueExact` is about connections that met no cause: a
timeout or a failed send exempts them; `AnswersAsked` holds of every connection whatever
fails. `RecordingExact` is exact up to the first roll of a Source; after it the writer is
closed, nothing more is recorded, and the property says that what was recorded stays.
`RecordingExact` exempts the Sources that another has disturbed, and `FinalGrowsOnly` ends
when two Sources have met in a file, until the process is started again. `Intact` and its
companions end with the first message whose extended time is not recognised (`lost`).

**Known deviations** that the modules carry and no run is spent on:

* One audio message alone lets `MixQueue::Pop` release whatever is first
  (`queue.hpp:210` reads `nb_audios_` twice), so audio and video that arrive apart leave
  out of order with each other, though each track of each publisher keeps its own order
  (`TrackOrder`). `GopCache::Cache` clears on inter frames and keeps key frames, the
  opposite of its log line (`gop_cache.cpp:49`). `can_publish_` is never cleared: two
  connections may publish one stream.
* An extended time is never announced or recognised below `0xffffffff`: received ones are
  taken for payload (`rtmp_stack.cpp:413`), sent times are cut to 24 bits
  (`rtmp_message.cpp:11`). The loop of `SendAndFreeMessage` stops at the first message
  that has the stream id, so that later ones of the batch keep theirs.
* `ExpectMessage` succeeds with a null packet for a message of another kind: in
  `ConnectApp` and the first two steps of `StartFmlePublish` the process dies; in the
  third any message counts as publish. `IdentifyClient` asserts on any other command, also
  after a timeout or an ended session made the loop identify a client again: a slow
  publisher, a player's later command or a second publish on the connection ends the process.
* The key of the source pool holds the virtual host only; all its streams are one Source.
* `AMF0ReadAny` frees the caller's pointer variable when a value does not read
  (`rtmp_amf0.cpp:1657`); the models count that as the end of the process. `RefusedCleanly`
  says where in a packet alone it can happen; in `Session` any command that does not decode
  may do it, in the dialogue and also from a publisher that is served. `FMLEStartResPacket::Decode` refuses
  what its own encoder writes.
* All Sources record into one path (`dvr.cpp:53`, `utils.cpp:104`), see `dvr_shared`. After a
  roll the DVR writes through a closed descriptor (`file.cpp:40`), it is not disabled
  on errors although the log says so (`rtmp_source.cpp:240`), only audio on its own
  ends a segment, and a temporary file is truncated at the next start.

## 4. What is proved

TLAPS checks these for every value of the constants that satisfies the `ASSUME`s of
the modules (limits are naturals, a capacity is positive, and so on). Three say more:
`ChunkStream` takes the peer's times from the 32 bits of its clock, `MaxTime < 2 * TimeMod`;
`Sender` takes the step by which iovecs grow to be even, as `RTMP_IOVS_MAX` is; `Playing`
takes only the classes of message that a Source relays (`Relayed`), which leaves out the
AAC header, as `DemuxAudioOk` is false. Each theorem is `Spec => []Property` by an inductive invariant (`IInv`), or the action property
that follows from it.

* `RelayProofs`, the reorder buffer: `MixCountersExact`, `MixBacklogBounded`,
  `MixTrackOrder`, for any number of publishers. The invariant adds that arrival numbers are distinct and bounded and
  that queued entries of a monotone track are sorted by arrival: without it the head of
  the multimap need not be the oldest of its track. `BeginIsLeast` shows that the `CHOOSE`
  of `MixBegin` has a witness in a non-empty queue; `PushRight` and `PopRight` carry the
  counters through cardinalities. With the counters exact, a bound on their sum is one on the
  messages queued.
* `RelayProofs`, the Source: `RelayRefCountsExact`, `RelayGopCountersExact`,
  `RelayConsumersHaveHeader`, for any number of messages and consumers. The handles are
  counted with `Sum`, a recursive function over the consumers, and with `Occurs`, a
  cardinality of positions; the lemmas say what adding a message, `Shrink`, a cut in two
  and the change of one consumer do to them. The invariant adds that every message held
  anywhere has the id of a payload that was published, so that a new payload starts with no
  holder, and that the cached video header is a video header while the GOP holds none: this
  is why a consumer primed with header and GOP ends on that header.
* `PlayingProofs`: `PlayNoLostWakeup` and `PlayOneReader`, whose invariant joins the types,
  the two wake-up properties and that a receive thread which has left cleared what it set.
  The heart is `UnsignalledNotReady`: what `Enqueue` does not signal, `Wait` did not ask
  for, although the two tests differ. `PlayTypeOK`, `PlayDeliveryOrder` and the action
  property `PlayWindowBounded` rest on a second invariant (`JInv`): ids sent and then ids
  waiting are increasing, and no AAC header waits, so that the two headers `Shrink` keeps
  cannot come out in the wrong order.
* `PublishingProofs`: `PublishTypeOK`, `PublishNoLostError`, `PublishGivenUpForCause`,
  `PublishHandlerOutlivesUse`, for any number of connections. The invariant of a session
  says that there is a receive thread exactly while `Publishing` runs, that a thread which has
  left took its handler off the buffer, that it leaves before it is stopped only with an error,
  and what `do_publish` knows at each of its blocking calls.
* `PublishingProofs`, the thread: `ThreadOnlyCurrentAlive`, `ThreadDisposeReturns` and
  `ThreadKeepsPromise`, for any number of objects and starts. The invariant adds that
  `st_` is null or the newest coroutine, that a coroutine which has left its loop said so, and that
  `disposed_` is not set while there is a coroutine: `Start` clears it, or `Stop` would return at
  once. `PublishReceiverIsThread` and, in `PlayingProofs`, `PlayReceiverIsThread` show the other
  half, that the sessions use their threads as `Coroutine` allows.
* `FastBufferProofs`, the array: `VectorHoldsWindow` and `VectorOwnedOnce`, for every initial
  size and whatever the memory beyond the array holds. `Holds` says of an array, its length and the
  entries in use that they are the window and no entry occurs twice; `PushBackHolds`, `ShrunkHolds`
  and `DumpPacketsInv` carry it through growth, a shrink and a cut: the entries that came from
  outside lie beyond `count_` and are written before they are ever in use.
* `FastBufferProofs`: `BufferWithinCapacity`, `BufferStreamIntact`, `BufferServes`,
  `BufferOverflowOnlyTooLarge`. The invariant adds that a `Grow` under way has room for what
  it lacks (`GrowPending`) and that the slice taken since the last `Grow` is still behind
  `start_` (`SliceKept`), which is what makes `Skip` safe. `RoomMade` is the lemma on reset
  and move.
* `ChunkStreamProofs`: `ChunkTypeOK`, `ChunkIntact`, `ChunkRefusedForCause`,
  `ChunkFramingKept`, for any number of chunk streams and any sizes. The invariant says that
  as long as the receiver is in step (`InStep`), each `ChunkStream` object holds the header as
  the peer's last chunk on it left it and the units the peer has sent of the message under way
  (`Linked`), and that both ends cut by one size unless a size was refused. Three lemmas say
  that reducing a time to 31 bits commutes with adding a difference and with the clock's wrap.
  `ChunkStreamsApart` is the refinement of `Streams` from the same invariant: in step, a chunk
  completes the receiver's message exactly when the peer has sent the last of it (`ChunkHandsOut`),
  so each chunk is a beginning, an end or nothing in `Streams`.
* `SenderProofs`: `SendCachesFit`, whose invariant adds that iovecs come in pairs and the array
  has an even number of places: the code tests for growth after it has written, and with an odd
  `RTMP_IOVS_MAX` the test would come one iovec too late (`EvenGrowth`). `SendSizesAgree` and
  `SendImplementsChannel`, the safety part of the refinement. Their invariant (`JInv`)
  reads the bytes on the wire and the iovecs gathered behind them as one stream: it is a
  `Path` of whole chunks from the place where the client is to the place where the next chunk
  will be cut, each cut by the size that holds there, and maybe one header without its payload
  after a failed write. Each step lengthens the path at one end, shortens it at the other or
  moves items from iovecs to wire; that maps to accepting, delivering, or nothing in `Channel`.
* `SessionProofs`: `SessionAnswersAsked`, `SessionDialogueExact`, `SessionSourceOfVhost`,
  `SessionCrashForCause`, for any publishers, players and hosts; a malformed command is a
  cause wherever it is decoded. The invariant adds that
  nothing is asked or said before `connect`, which is why `ConnectApp` may answer under the
  id 1; that for a connection for which nothing has gone amiss the place where it reads tells
  its role, its turn, how many commands and answers it has had and that its tcUrl is one
  `ConnectApp` accepts (`OnScript`); and that the pool of sources and the sources made are each
  other's inverse (`PoolExact`).
* `DvrProofs`: `DvrHandlesPresent`, `DvrRecordingExact` and the action property
  `DvrFinalGrowsOnly`, for any number of Sources, messages, failures and restarts and every
  segment length. The invariant (`IInv`) adds that at most one of the two names is on the
  disk and every descriptor is on one that is (`OnDisk`), so that no rename meets a finished
  file; that a Source which is not disturbed has its file to itself, but for Sources that
  opened it for append once it had closed (`Apart`); that its descriptor then stands at the
  end (`AtEnd`); that the flag of the key frame says whether one has come; and that the file
  is, or after the close begins with, what it was at opening followed by what each message
  comes to (`Copied`, `Kept`). That last concatenation is a recursive function; that it
  exists and is unique is shown by the least counterexample of a well-founded order, in place
  of an induction schema. Most of the proof is what one Source's step leaves of the others'
  conjuncts: a truncation, a rename, an append, a write through a stale handle, a stale close.

Only model-checked: all liveness (`CloseEndsSession`, `ReadyBatchTaken`, `PatientServed` and
the others under fairness, and the progress part of `ImplementsChannel`), which is outside
the prover's reach, and `Amf0` and `Packets`, whose values are nested and so recursive, which
the prover does not take.

## 5. Not modelled

Logging, configuration values (they are constants of the modules), statistics, binding
and listening at start, path and time utilities, `protocol/flv.cpp` (not built), edge
mode (empty), the append and session plans of the DVR (empty) and `OnMetadata` (an
AMF0 data message never survives `DoDecodeMessage`). Codec parsing (AVC, AAC) is reduced
to whether it succeeds. The bytes of an FLV tag and of the handshake blocks, which nothing
in the server reads back, are left out.

## 6. What is left

* That the deltas of `shared_count` in `Source` keep every count from falling below -1 at each
  copy and destruction inside a call: the proofs count between calls.
* `Amf0` and `Packets` on paper rather than by TLC alone: their values nest, and the provers take
  no induction over them.
* The hazards whose outcome depends on a peer that never sends (`publish_silent`) are shown as
  violations; there is no theorem that a publisher which does send is never blocked.
