# A verification project for YXLog's push-to-talk voice engine

YXLog (`src/YXLog/myc++`) is the C++ voice engine of a push-to-talk client: it
records, encodes and sends one talk at a time over RTP/UDP, and receives, orders,
elects and plays the talks of others through one loudspeaker.  About 14,000 lines
of C++ in `media/` and `transport/`, with their headers in `include/`, are the
program's own; the rest of the repository is a vendored voice codec (`solo/`, 29,000
lines), vendored Objective-C libraries and a demonstration application.

The engine is a handful of objects shared by threads that lock little:

| thread | runs | takes |
|---|---|---|
| send looper | `udp_ept_send_looper` -> `sendFromIOQ` | `sqLock` |
| receive looper | `udp_ept_recv_looper` -> `recvToIOQ` | `rqLock` |
| timer (dispatch queue) | `TimerTrigger::traval` -> `matchCond` of every counter | the timer's mutex |
| scheduler | `streamplay_monitor_looper` -> `schedualRecord`, `schedualPlay` | `evMutex` |
| player callback | `HandleOutputBuffer` -> `feedPcm` | the audio queue's own |
| recorder callback | `consumePcm` | the audio unit's own |
| preamble thread | `send_several_previous_packet` | none |
| application, bridge | `MyCtext::...` | `evMutex`, `eptsLock` at times |

## Inventory

**Timer trigger** (`TimerTrigger`). State: the list of waiting counters, the
dispatch source and whether it runs, the private list of counters to restart.
Operations: `registerWaiter`, `unregisterWaiter`, `traval`; the counters answer
INC, RESET, RELASE or RESTART. Hard: the source is started, and the list searched node
by node, outside the mutex under which nodes are erased; restarting happens after it is
released; the handler of a cancelled source may still run beside that of the next. Correct when: it behaves
as a list of counters, each ticked once per interval while it is in.

**I/O queue** (`IOQueue`). State: the buffer, `readable`, `writtable`, `status`,
`writeStatus`, `dirty`, two timer counters. Operations: `open/closeRead`,
`closeWrite`, `write`, `read`, `asyncClose`, `setWriteTimeOut`, the two
`matchCond`s. Hard: writer, reader, owner and timer test the switches and the
buffer's size without a lock. Correct when: closing ends, a closed queue stays shut
and strands nothing, silence is reported in two stages.

**Circle buffer** (`UnitCircleBuffer`). State: memory, read offset, length,
`moreData`. Operations: `write`, `markRange`, `getRange`, `read`, `reset`,
`closeWrite`. Hard: ranges handed out by address must not wrap. Correct when: it is
a FIFO and a caller who keeps to its pattern of use is never refused.

**Jitter buffer** (`RTPJitterBuffer`, `RTPRecvIOQueue`). State: the heap of held
packets, the threshold, `isEnded`, the estimates. Operations: `push`, `popupJitter`,
`recalculateThreshold`, `rehold`, `getPredictContinousMS`. Hard: `rehold` comes from
the player's thread without the lock; each packet is tested twice for acceptance.
Correct when: order, bounded holding, flushing at the end, a start for every stream.

**Outgoing transaction** (`OutgoingTransaction`). State: the record state, the
preamble thread, `context.seq`, the queue it sends through, the recorder's handle.
Operations: `initialOutgoing`, `startTrans`, `srsStartRecord`, `srsStopRecord`,
`srsDispose`, `stopTrans`, `sendEmptyRTP`, `consumePcm`, destruction. Hard: four
threads write to the queue or use the parts while it is torn down; the scheduler joins
and waits for locks with its own held. Correct when: nobody uses what is freed, the
end follows the voice, the recorder is returned, a stopped talk is deleted.

**Stream play scheduler** (`StreamPlayScheduler`). State: `sourceList`,
`activeSouce`, `preemptionSource`, `engrossId`, `recSource`, the count of rounds.
Operations: two `delegate`s, `terminatePlay`, `enableEngross`, `clearEngross`,
`stopRecordAsync`, the looper. Hard: `terminatePlay` takes no lock, nor does `delegate` when
it looks at the talk, which may be deleted under it; the callback and the timer
change what the looper reads, starts fail half-way. Correct when: what it refers to
exists, the only player is never lost, what ended is reclaimed.

**Incoming transaction, silk file source** (`IncomingTransaction`,
`SilkFileStreamSource`). State: the play state, the decoder, the player's handle.
Operations: `startTrack`, `stopTrack`, `feedPcm`, `spsReadyForPlay`,
`spsReadyForDestroy`. Correct when: an end is never overwritten for good.

**Audio device manager** (`AudioDevMgr`). State: occupation and id of player and
recorder, playing, recording. Operations: acquire, start, stop, release of each; the
callbacks. Correct when: the devices are exclusive and come back on every error path.

**UDP endpoint** (`UdpEndPoint`). State: the two lists of queues, the two threads.
Operations: `sendFromIOQ`, `recvToIOQ`, register and unregister, start and stop.
Hard: `onIOQueueUpdated` signals without the lock; the wait has no predicate; the
destructor joins threads that may wait for the locks of whoever destroys. Correct when:
a looper that has a packet comes back to its socket, and a queue it finds exists.

**Endpoint: cache and heartbeats** (`EndPoint`, `EptHeartBeat`). State: the cache of
early packets; one counter for each remote, with its users, its retries and the time of
the last answer. Operations: `recvEncache`, `disposeCache`, `addHeartBeat`,
`removeHeartBeat`, `fireHeartBeat`, `matchCond`, `onHeartBeatResponse`. Hard: the cache is
walked without its lock; counters are shared by sessions, retried in the timer's
thread and deleted while the timer holds them. Correct when: a packet has one owner, the
walk ends, the cache keeps its size, a counter beats for as long as a session wants
it, a silent server is noticed.

**Endpoint manager** (`EndPointManager`), **session and conference** (`Session`,
`MyCtext`). State: the reference counted table of endpoints, the table of sessions.
Operations: `aquire`, `release`, the application of operations under `eptsLock`;
`raiseSession1`, `releaseSession`, `incoming_trigger`. Hard: lookups whose result is used
after the lock; a session is deleted with the lock of the table held. Correct when:
what was looked up exists when it is used, and a release returns.

**RTP protocol** (`RTPProtocol`). State: none but the packet. Operations: `encode`, the
parse into header, extension and payload, the decoding of each. Hard: lengths in
words here and in bytes there, offsets that depend on what is present. Correct when: what
is received says what was sent.

**Codecs** (`Silk`, `CodecManager`, `AudioCodec`), **silk file** (`SilkFile`). State: the
encoder's ring; two stdio streams on one file, one appended to and one read. Operations:
packing encoded packages into blocks and unpacking them, `writeFile`, `readFile`,
the record filters. Hard: blocks are padded to even offsets on two sides; the file is read while it
is written, by whoever has flushed last; two transactions may have it open. Correct when: a
recording holds just what was said, and plays back as recorded.

**Solo codec** (`solo/`, vendored: SILK with two descriptions and a high band). State: at each
end, the coder of each description and what prediction remembers of the frames before
(gains, types, line spectrum, pitch, the signal itself). Operations:
`SKP_Silk_SDK_Encode`, `AGR_Sate_encode_process`, `SKP_Silk_NSQ_del_dec`,
`AGR_Sate_decode_process`, `SKP_Silk_SDK_Decode`, the range coder. Hard: two state
machines that never talk to each other must stay equal through lost packets and lost
descriptions, and the encoder searches with the decoder simulated inside. Correct when: what
arrives decodes to its end, to what was said, and to the signal that was simulated.

Vendored or without logic of their own: `way/`, `include/back`, `MJExtension`,
`fishhook`, `c++调oc`, the application and the test templates.

`PROJECT.json` lists each of these with what is modelled, and the hazards by line.

## Modules

| module | models | composes |
|---|---|---|
| `TickService` | what users assume of the timer: counters in a set, ticked | |
| `TimerTrigger` | the code of the timer, step by step | refines `TickService` |
| `IOQueue` | the queue with a writer, reader, owner and timer | |
| `PcmFifo` | an abstract first-in first-out queue of samples | |
| `UnitCircleBuffer` | the ring, and two patterns of use (`EncoderSpec`, `PlayerSpec`) | refines `PcmFifo` |
| `RTPJitterBuffer` | jitter buffer, receive queue, feeder and the start of a stream | |
| `OutgoingTransaction` | a talk from its delegation to its deletion | the scheduler's recording half, the recorder, the send looper, the queue's writing and closing; `TickService` for its close counter |
| `StreamPlayScheduler` | the scheduler's playing half | incoming transactions, file sources, the player |
| `ReceivePath` | the receive loopers, the cache, the endpoints and who holds them, the raising and deletion of transactions and sessions | endpoint, endpoint manager, session, the life of the incoming transaction; a queue is reduced to what it accepts and took |
| `HeartBeat` | the heartbeats of the sessions to one remote, with the timer, the minute tick and the answers | endpoint, endpoint manager, session; the timer reduced to one walk |
| `RTPProtocol` | the layout of a packet: encoding, parsing, decoding, as operators | |
| `AudPacket` | the packing of encoded packages into a block and back, as operators | |
| `SilkFile` | a file of voice: its streams, magic and blocks, as operators | |
| `VoiceRecord` | a talk from its packages through the network to the record file and its playback | `RTPProtocol`, `AudPacket`, `SilkFile` |
| `RangeCoder` | the arithmetic coder, both directions, as operators | |
| `ShellPulses` | the coding of a frame's pulses | `RangeCoder` |
| `DelayedDecision` | the search for the pulses, and the synthesis that it simulates | |
| `SoloCodec` | encoder, network and decoder, packet after packet | `ShellPulses`, `DelayedDecision` |
| `IncomingTransaction_proofs` | theorems about what an incoming transaction makes of a talk | extends `VoiceRecord` and `RTPJitterBuffer` |
| `Codec_proofs` | theorems about the two ends of the codec: the ring that samples and packages wait in, and the coder of its bytes | extends `UnitCircleBuffer` and `RangeCoder` |
| `TimerTrigger_proofs`, `IOQueue_proofs`, `OutgoingTransaction_proofs`, `StreamPlayScheduler_proofs`, `ReceivePath_proofs`, `HeartBeat_proofs` | theorems about the module named | extends it |

The `MC...` modules give the constants values; the `.cfg` files choose the specification,
bounds and properties. Names are the code's (its spelling included) wherever a
definition stands for a variable, a function or an enumerator: `activeSouce`,
`schedualRecord`, `CLOSE_TO`. A step of a model is a section of code during which no
other thread can see or change what it touches: a section under a lock, or one
unlocked access. Where two accesses are unlocked there are two steps (`ReadTestEmpty`,
`ReadTestWrite`, in `IOQueue` and in each module that reads a queue; `TerminateTest`,
`TerminateLoad`, `TerminateSet`; `DelegateTest`, `LookFetch`, `LookAsk`; each node of the
search in `registerWaiter`), and a `pc` says where each
thread is. Actions of a component carry the name of the function, or of what is decided
in it (`AsyncClose`, `AsyncCloseDecide`, `AsyncCloseArm`). `PROJECT.json` maps each
definition to its lines.

Definitions marked "Seeded fault" are not part of any specification. Each is a version
of a neighbouring definition with a plausible bug, against which the property named
in `PROJECT.json` was shown to fail.

### Correspondence, where it is not plain

* `TimerTrigger`: `waitList` is a sequence, and an iterator stands at a position of it, at
  `end()` (`Nobody`), or on a node that was erased under it, which is then the counter the
  freed node held. A step from an erased node ends the process, or leads to any node, or to the end
  (`strayed` notes that a search went on like this). The creation of the source, its
  resumption and the timer thread that finds a cancelled one are steps of their own; `orphaned` is a source
  that still runs though `timerId` no longer points to it. The release of a source that
  was never resumed is a crash of the dispatch library. `matchCond` and its answer are one step of the
  walk: what it does to its own object is the matter of the module that owns the counter.
* `IOQueue`: `place`-like variables per thread; a datum is its number and whether
  it carries the end mark; filters and matchers are abstracted to acceptance.
* `UnitCircleBuffer`: samples, not bytes; an address is an offset into `buf`.
* `RTPJitterBuffer`: packets are records with a sequence number and an
  occurrence, so that duplicates differ; the estimate is any of `Estimates`, since it
  depends on arrival times. The queue's `write` and `read` are the steps that `IOQueue` makes of
  them, and a threshold is chosen in one step and set in another (`chosen`), as it is in each of the two threads. `late`,
  `taken` and `raced` are histories: what came after its turn, what the feeder has read, and what was
  pushed between a read's test of the size and its test of `writtable`.
* `OutgoingTransaction`: the talk `t` is a number and pointers are the number of
  the talk they lead to, 0 for none, so that a stale pointer is one whose number
  differs from `rec`. `late` marks a packet that was pushed between the two tests of
  a read or after the writing was shut. `look` is where a thread that delegates an incoming stream
  is with its look at `recSource`; it may go through the pointer any number of times, and
  `deletedSince` notes that a talk was deleted since it began. `crashed` ends everything.
* `StreamPlayScheduler`: `evMutex` is held wherever `pc` is neither `wait` nor
  `limit`. A stream's life on the network is three questions: has its payload type
  been heard, has enough been heard, what is its write status. `overtaken` records the
  sources that `terminatePlay` reached too late. Of a talk there is what its state is
  (`recording`), as `delegate` asks for it without `evMutex`: a source is `looking`, has fetched the pointer (`holding`),
  and is `astray` when the talk was deleted after that. A null pointer ends the process, one to a freed talk may, or
  answers anything.
* `ReceivePath`: a transaction has the name of the packet that raised it, and its queue the
  name of the transaction. A lock that is held from one step to the next is read off the
  places of the threads (`SessionMutexFree`, `EvMutexFree`, `EptsLockFree`); `rqLock` and
  `cacheMutex` are held within a step. `ept` is freed by whoever drops the last
  `shared_ptr`, which the model counts (`TransOn`, `SessionsOn`, `inEpts`). `node` and
  `vnode` are the first node of `epts`, read before `eptsLock` is had. `walk` is the
  iterator of `disposeCache`, 0 when its node was freed under it. A step that goes
  through a freed pointer may end the program (`Crash`) or, where the memory still has its
  old contents, go on as the code reads. `raced` is a history: a release met a packet in a
  looper or a deletion. `recSource` is the scheduler's pointer to the talk that is sent, which a looper
  that delegates looks through without a lock (`look`); `overtaken` has the loopers under whose look a talk was
  deleted.
* `HeartBeat`: a counter is a number, as an address is.  A walk that goes through a freed
  one ends the program, or goes on from any node.  The minute tick goes counter by counter,
  with `hbMutex` held throughout; the timer's walk goes in the steps in which it holds and
  drops the timer's mutex.  Time is counted in ticks of the timer; `Quiet` is the code's 80
  seconds.
* `RTPProtocol`: a packet is a sequence of bytes, as its layout is the matter; all else of the
  record's path has small numbers for voice. `VoiceRecord` delivers a packet where
  the jitter buffer pops it, so that loss and order are the network's and the buffer's
  together. `overlapped` records that two transactions had the file open at once.
* `SilkFile`: each stdio stream has how far it has written and what of that it still holds back. It
  flushes when its buffer is full, a whole buffer at a time, and the rest when it is
  closed; an appended buffer goes to the end of the file, wherever that is by then.
* `RangeCoder`: the width of a byte is a parameter (`ByteBits`), and every constant of the code that
  depends on it (the normalised range, the tables, the thresholds) is scaled with
  it. A stream is a sequence of bytes; the decoder's memory keeps what earlier packets
  left in it (`Row`, `MAX_ARITHM_BYTES + 4`).
* `ShellPulses`: the recursion over halves of a block is a tree, so that the module has
  recursive operators and no theorems can be proved in it or above it.
* `DelayedDecision`: fixed-point numbers have one precision (`Unit`) instead of six. The
  three quantisers are positions of a sequence, the paths are records with all of their history
  instead of rings of the last 32 samples. The hash by which the code tells paths
  apart (`RandState`) is the seed with the pulses, so that its collisions do not occur.
* `SoloCodec`: a frame is the parameters that the analysis found and the signal; the pulses are
  searched for. Each of the two descriptions has the position of its number. `tuned` is a
  history: all packets so far were heard, and in the same way.

## Runs

| run | question | states |
|---|---|---|
| `timer_service` | Is the timer, with all that is unlocked, still the service its users assume? Yes, until a search goes on through an erased node: refinement of `TickService` by a list without duplicates, the traversal's iterator stays valid once it is under the mutex, restarted counters rejoin. | 910,518 |
| `timer_keeps_firing` (violated) | Does a registered counter keep the timer firing (`TimerTrigger.hpp:88`)? No: the emptiness test is made before the mutex is taken. | |
| `ioqueue_lifetime` | Do unlocked closing, writing, reading and timing out agree? Only data that overtook a test is stranded, closing is timed and ends, silence is reported. | 196,829 |
| `ring_fifo` | Does the ring implement a FIFO under any calls? Yes. | 30,672 |
| `jitter_stream` | Loss, reordering and the feeder's rehold: order but for late packets, the end flushes, an ended stream is started and played, but for what came between the two tests of a read. | 788,644 |
| `outgoing_talks` | Two talks: nobody who works for a talk uses freed parts, and who looks at it without the lock only when it was deleted under the look; a clean close was given the end, and sent all but what came late; the recorder comes back, a stopped talk is deleted. | 941,331 |
| `play_scheduler` | Preemption, exclusion, failed starts, unlocked termination, unlocked looks at a talk that is deleted: references are live, the player is never lost, nobody plays for ever, what ended is reclaimed, a file is played. | 418,472 |
| `receive_path` | As long as no release meets a packet, does a thread go through a freed pointer, and does a looper come back to its socket? Only through that of a talk, when one was deleted under its look; and yes. Has a packet one owner always? Yes. | 646,783 |
| `session_release_returns` (violated) | Does the release of the last session free the endpoint and return (`EndPointManager.cpp:13`)? No: it joins, with `g_session_mutex` held, a looper that waits for `g_session_mutex`. | |
| `heartbeat` | Two sessions share a server's counter: it beats while one of them wants it, is freed only by a removal that came under the timer's walk, and silence is noticed. | 230,754 |
| `voice_record` | Three packets, lost and reordered, one or two transactions, a file that is read while it is written: packets say what was sent, the file holds what was spoken, and plays as recorded unless two had it open. | 1,238,647 |
| `solo_codec` | Two packets of every pair of frames, either or one of its descriptions lost: what arrives decodes to its last symbol, to what was said, and to the signal the encoder simulated. | 4,086 |

### Bounds, and why they suffice

* Timer: two client threads, one counter each (one that can RESTART, one that
  cannot), counts up to 1, three calls of each client, two handlers. The races involve one call of
  each and a traversal, or two when a handler is overtaken by that of the next source; a third call
  registers anew after an unregistration. `timer_keeps_firing` needs two calls.
* I/O queue: one writer, two data, all timeouts one
  tick, two calls of `asyncClose`. Two data are enough for one that is stranded behind
  one that is read, and two closes for the second that finds the queue closing.
* Ring: unit 2, three units, blocks up to 3. Blocks larger and smaller than a unit, odd
  offsets and every wrap occur; the theorems have no bounds.
* Jitter: a packet of the preamble, three of voice and two end packets, one copy each, a minimum of 2 and
  estimates below and above it. Bursts, late packets, the threshold's
  rise and fall and the end in the middle of a burst occur.
* Talks: one preamble packet of the code's five, one end packet of three, one voice
  packet, one tick to close, two talks, two stops, one look at a time. A preamble packet before and
  after the end packet occurs, the end packet falls between the two tests of a read, and a second
  talk meets what the first left. The theorems have no bounds.
* Playing: one stream and two files, cut after one round, two acts of the application
  out of opening or closing an exclusive session, a talk and a termination. Two
  files preempt each other, the stream and a file preempt and exclude each other.
  A talk begins, ends, is deleted and looked at while sources are handed over. With two streams and a
  file the invariants hold too (1,409,971 states). `FileIsReleased` is checked
  for one of the two files, which the module does not tell apart.
* Receiving: two sessions and so at most two endpoints, a stream of one packet and its end, a
  packet of another stream that raises nothing, a cache of two, one talk that is sent. The second session
  shares the endpoint of the first, or has one of its own while a transaction still holds the
  first; the cache is flushed with packets that are taken and packets that stay; it overflows with three. In
  `session_release_returns` one session is enough.

* Heartbeats: two sessions to one remote, each starting once, two counters (a second
  one may follow the first under an old address), one retry, a tick of one. A session's start and release meet the
  other's, the minute tick, the walk and a late answer.
* Recording: three packets of two packages, of odd and even length, in two bands and at
  two times, two transactions, a stdio buffer of 16 bytes so that a flush falls
  inside a block. An extension of 8 bytes is that of the program.
* Codec: bytes of 4 bits and blocks of 4 pulses, since the range coder's 32-bit registers
  are beyond the integers of TLC; frames of 16 samples in 4 subframes, 4 paths as in the code, a
  delay of 4 samples, prediction of 2 and 3 taps. Four frames: silent, unvoiced and
  loud, voiced with and without interpolation, chosen so that gains rise and fall over their
  whole range, pulses need shifting down and escape symbols, carries run over full
  bytes, rewhitening happens in the middle of a frame, and paths expire. Two packets of two frames each make
  every frame follow every other, within and across packets.

Deadlock is not checked (but in the ring): every model stops legitimately when its bounded callers are done;
that nothing is stuck on the way is what the liveness properties say.

### Fairness, and why the code justifies it

Only threads that loop, or whose call returns, are fair.

* Timer: the steps of each handler, `traval` and the registrations it makes (strong, as the mutex
  is not a fair lock; the dispatch source calls it every interval). Clients are not fair.
* I/O queue: a write that was begun ends (weak); the owner's `asyncClose` and the
  timer's ticks come again and again whatever is in their way (strong, as the timer's
  mutex is not a fair lock). The reader need never read.
* Jitter: the network thread finishes a push; a stream that must be ready is started; the feeder
  is called as long as the player runs; the timer ticks. The network need not deliver.
* Talks: strong for the scheduler and the owner's call, as mutexes are not fair and
  the wait is timed; weak for the preamble thread, the recorder's callback in progress,
  the send looper when it has been signalled, and the timer, until the look of `delegate`
  crashes. The steps of the scheduler's thread, the sending of the end packets among them, are one
  condition. Who looks need not go on. Spurious wakeups may happen and are not
  relied on. `AudioOutputUnitStop` is assumed to wait for a callback in progress, and a
  second `pthread_join` of one thread to return at once.
* Playing: the looper comes round (the wait is timed), who deletes a talk gives `evMutex`
  back, the player calls back, and the
  player that is tried again and again is had and started at last. Senders, the write
  timer and the application are not fair, so that a sender may talk for ever: only the cut
  after 300 rounds bounds it.
* Heartbeats: the timer's walk, the minute tick and a call of a session that was begun go on; time
  passes. The server need never answer, and sessions need not start.
* Recording and the codec have no liveness: nothing in them waits.
* Receiving: the loopers, the deletion of a transaction or a talk that was begun and the call of the
  application that was begun go on (weak; what they wait for is free again for good within
  finitely many packets). Packets, the end of a stream and calls need not come.

### What the runs say about the code

Two comments of the repository are not true of the code in a way that matters most; each has
a run and a finding. Others were read, and have no run of their own:

* `TimerTrigger.hpp:90`: an `unregisterWaiter` between a RESTART answer and the end of the
  traversal finds nothing to take out, and the counter comes back.
* `IOQueue.hpp:36`: a write that was accepted before the writing was shut may be pushed
  after the queue was found empty and closed; `StrandedOnlyByRace` excepts just these data. In
  the program they are the last packets of a talk: an end packet and `closeWrite` that fall between the
  size and the switch of `IOQueue.cpp:108` leave a queue that is CLOSED, not timed out, with the end packet
  never sent (`CleanCloseSentTheEnd` excepts packets that are `late`). On the receiving side the
  flush of the end is stranded in the same way, and never played (`EndedIsPlayed` excepts what is in `raced`).
* `StreamPlayScheduler.cpp:436`: `delegate` tests `recSource` and goes through it twice, without
  `evMutex`, from a receive looper or the application, while the scheduler (`:717`) or the `delegate` of
  the next talk (`:656`) deletes the talk and clears the pointer. `UsersOutlived` and
  `NothingFreedInUse` say that this is the only such access, and that it takes a
  deletion under the look.
* `TimerTrigger.cpp:165`: the search of `registerWaiter` goes from node to node without the mutex
  under which `traval` and `unregisterWaiter` erase nodes; it may go on through a freed one, and miss
  or find a counter wrongly. `ImplementsTickService` demands the list to be a set until this has
  happened (`strayed`). `:231`: `traval` takes `begin()` before the mutex, with the same danger.
* `IOQueue.cpp:255`: the timer may have found a stream silent when its end arrives, and then shuts the
  reading of a stream that has ended, whose voice is not played (`EndedIsPlayed` starts from a timer that is idle).
* `EndPoint.hpp:196`: `disposeCache` does not flush all that the queue accepts, since its
  walk skips the node that follows an erased one.
* `UdpEndPoint.cpp:367`: one failure of `select` or `recvfrom` ends the receive looper for good.

* `TimerTrigger.hpp:41`: a counter that was released keeps its count.
* `RTPJitterBuffer.cpp:38` and `:45`: the second packet below the minimum is predicted
  already; `:56`: what a timeout finds held stays held, as only a push pops.
* `RTPJitterBuffer.cpp:256` against `StreamPlaySource.hpp:35`: the lost percentage is
  computed unsigned and underflows when packets are doubled.
* `RTPJitterBuffer.cpp:194`: a stream that has voice and no end, and is too short to be predicted, never
  times out and is never started, since only `startTrack` sets the write timeout.
* `OutgoingTransaction.hpp:109`: the last packet need not carry the mark, since a packet of the preamble may
  follow the end. `OutgoingTransaction.cpp:316`: `context.seq++` of two threads is unlocked, and a
  number may be given twice.
* `OutgoingTransaction.hpp:107`: the first voice packet does not have number 0, since the
  preamble consumes numbers.
* `StreamPlaySource.hpp:136`: an asynchronous stop is not awaited, since
  `AudioDevMgr::isRecording` answers false always.
* `StreamPlayScheduler.cpp:56`: the count of rounds goes on from one source to the
  next when no empty round lies between, so that the second is cut sooner.
* `StreamPlayScheduler.cpp:543`: a termination that comes between the stop and the
  clearing of a source sets a played source back, which is then never reclaimed. The
  properties of `play_scheduler` except exactly these sources.
* `EndPoint.cpp:158`: the comment says that a counter without an answer retries; the call that would
  send is commented out, so that a retry only waits. An answer is credited to the first
  counter whoever it came from, and one that comes after the last retry finds the
  counter given up. A silence of more than 80 seconds is forgiven.
* `EndPoint.cpp:88`: a session that releases without having started a heartbeat gives back the
  reference of another; `:98`: a counter that answered RESTART may be freed before the end of the walk and is then
  registered again, and the walk over it can pass others over for good (`SilenceIsNoticed` excepts this).
* `IncomingTransaction.cpp:222` and `StreamPlayScheduler.cpp:458`: the test that an incoming stream is played
  already is compiled out, so that packets behind the end marker raise a second transaction
  that opens the same record file; their flushes interleave, and the magic may come
  in the middle. `PlayedIsRecorded` excepts just this.
* `OutgoingTransaction.cpp:192`: the extension is copied by words from a buffer counted in
  bytes; the program's is a multiple of four.
* `SKP_Silk_process_gains_FIX.c:97`: the second frame of a packet is quantised with a share of the
  gain of its own, of which only the first frame's is ever sent, so that it is decoded
  with the wrong one. `InStep` excepts packets in which the two differ.
* `SKP_Silk_decode_parameters.c:31`: when one description is heard alone it is decoded as the first, and what the
  second remembers of the line spectrum is stale in the next packet that has both.
* `SKP_Silk_decode_frame.c:139`: the result that asks for concealment of a broken packet is overwritten, and
  `decode_file` copies whatever its frame buffer holds. `SKP_Silk_dec_API.c:110`: a packet is found too long for
  a flag that nobody passes.
* `SKP_Silk_range_coder.c:305`: the comment counts 1 to 9 extra bits at the end of a stream, 10 are possible.
* `Silk.cpp:199`: an encoded package is copied into 200 bytes without a test.

## Proofs

Checked by TLAPS for every value of the constants that the named assumptions allow.

**`IOQueue_proofs`** (assumption: the constants' types). `IInv` is `TypeOK` with
`StrandedOnlyByRace` and `ClosingIsTimed`, and four facts that make them inductive:
`UnopenedIsQuiet` (before the reading is opened nobody reads or times),
`FinalIsShut` (a final status has both ends shut), `ExpiredIsUnreadable` (an expired stage
has shut the reading) and `EmptyIsOvertaken` (a test that found the buffer empty is
invalidated only by data that is recorded as having overtaken it). The type invariant is
proved in three parts (`SwitchTypes`, `StageTypes`, `WritingTypes`), of which a step disturbs one or two. `StrandedOnlyByRace`
alone is not inductive: it says nothing of a thread between the test and the close.
From `IInv` follow the two invariants and the action properties `StaysShut` (a closed
queue is never opened again) and `TimeoutHasTwoStages` (the second stage of a timeout follows the
first), for any number of writers and any bounds; these two are proved and no longer model-checked.

**`Codec_proofs`**, the ring (assumption: a positive unit and number of units).
`TypeCorrect`, then `RingIsFifo`: each step of the ring maps to a step or a stutter of
`PcmFifo`, for every capacity. The lemmas are about `Wrap`: that the contents
after a wrapped copy are the old contents followed by the block. For `PlayerSpec` and
`EncoderSpec` the inductive invariants are alignments: offset and length
are multiples of the unit (player), or the offset is (encoder), and the capacity is
one by definition, from which `NoResidue`, `FrameNeverRefused` and `PackageNeverRefused` follow by arithmetic.
These three are proved and no longer model-checked.

**`Codec_proofs`**, the range coder (assumption: a byte of at least two bits, a buffer of at least one byte; a
table rises strictly from 0 to the top of the range, as all 45 of the source do). Two results, for symbols of
any number and any tables. `CarryStops`: the loop that carries back over the full bytes finds
one that is not full before it leaves the buffer. `StreamReadsBack`: the decoder reads what was encoded, its range and
place are then the encoder's, and its check of the stream's end passes; this whatever it has read before
(`DecInit` leaves old bytes in its memory), and whatever lies behind the stream. The encoder
must not have reported an error and the stream must fit the decoder's memory, as the code demands.
The argument: the bytes written, with the base behind them, are one number, the lower limit
of an interval (`Low`). A carry keeps the number (`CarryAdds`), and as the interval keeps below the first power
of the bytes written (`EncOK`), a carry that runs out of the buffer would make the number too large. A symbol narrows
the interval to a part of it, so that a stream inside the interval of the end was inside of all before
(`InsideBefore`), and a decoder whose stream is inside the interval holds its distance from the lower limit
(`Follows`): `DecodeStep` shows that it picks the encoder's symbol and keeps the distance. The end
is `FinishInside`: what `range_enc_wrap_up` rounds to and fills with ones is
inside the interval whatever bytes follow it. The induction over the symbols
goes by a least counterexample, as the induction theorems of the library take an operator; `Two`, the powers,
is a recursive function, as the prover knows nothing of `^`.

**`TimerTrigger_proofs`** (assumption: the types of the constants, and that threads, counters
and `Nobody` are apart). `IInv` has two halves. `CallsAreOwn` and `WalkIsLocked` hold always. `Clean` holds
until a search has gone on through an erased node, and says what makes the unlocked search harmless
until then: a counter is registered by its owner or, if it can restart, is in one place at a
time (`RestartableIsOnce`); so no two threads register one counter (`EnteringAlone`), and a
search has not passed the node of its counter (`NotPassed`, `SearchMisses`), whatever was erased and
appended under it, so that what it found missing is missing still when it is pushed. Without
the last of these the list without duplicates is not inductive. `ImplementsTickServiceHolds`
maps each step to a step of `TickService` or to none, the steps of a strayed search included;
`IteratorStaysValidHolds` is the action property that no other thread erases the node under the walk.

**`IncomingTransaction_proofs`**, the record (assumption: the blocks are what the encoder makes, 1 to 1028 bytes
of them; the packets of a talk fit a sequence number of 16 bits, the extension is that of the program and not empty; the
stream's buffer holds a byte; an odd block is followed by any byte). First the three formats, for
payloads of every length: `DecodeEncode` (a packet that was encoded and stamped decodes to what it was made of),
`BlocksOfPack` (the packing of blocks taken apart again) and `ReadBlock` (a block that lies in the file
is what the player reads). `Pack` is a fold and `Blocks` goes from offset to offset; the induction over the number
of blocks is made in the form of a least counterexample, as the induction theorems of the library take an
operator. Three invariants follow, one on the other: `NetInv` (what is on its way was encoded from
what is noted with it) gives `ReceivedAsSent`; `FilterInv` (what is recorded is what the filter took, without the
blocks of the packet that it has in hand) gives `RecordedIsSpoken`; `FileInv` gives `PlayedIsRecorded`. The file of
`FileInv` is not the disk but what the disk will be when the stream that is open is closed (`WholeFile`): the blocks lie in it one
behind the other (`LaidOut`), whatever part of it the stream holds back, and the player stands
between two blocks of it (`Played`). So the player meets the end of the disk only within a block that is
not all on the disk, and gives up without a byte of it.

**`IncomingTransaction_proofs`**, the jitter buffer (assumption: finite sets of numbers, preamble before voice before
end; thresholds below `IntMax`). `InOrderUnlessLate` speaks of what has passed; that it is
kept needs what is held (`HeldIsNext`) and the packet between its measuring and its push
(`NewIsNext`) to be next or late already, and the packet on its way from the top of the heap into the
queue, over four unlocked steps, to be the top still (`WrittenIsTop`). `EndedIsFlushed` needs the same of the
moment before (`FlushedBeforeNext`). The sets are finite for the sake of `CountIsArrived`: the
program counts the packets that came, and keeps to the minimum until there are so many.

**`StreamPlayScheduler_proofs`** (assumption: streams and files are apart, files have the normal
permission). `IInv` is `TypeOK` and `Held`: `ReferencesLive` and `PlayerHeldByActive` with what
the looper knows at each place of its round (`Rounding`), that what plays is not ready to be
deleted (`ActivePlays`), and that the list has no source twice (`ListedOnce`), without
which a source could be reclaimed once and stay listed. `Reclaim` is one step per source, as the
walk of the code is: a termination may come between two of them. The unlocked look at the talk, and the
deletions that lead it astray, move no source in or out of the list (`LooksKeep`, `AstrayKeeps`).

**`OutgoingTransaction_proofs`** (assumption: at least one end packet). `OwnerPlaces` says what
the holder of `evMutex` knows at each place, `SendersInside` and `QueueUsers` who may
still be inside a send or have the queue, `LookIsLive` that a look has the talk that is there as
long as none was deleted since it began, from which `UsersOutlived` and `RecorderReturned`
follow. `StrandedLate` says of the looper between its two tests what `CleanCloseSentTheEnd` says
of the closed queue: what is in it came late. `CleanCloseSentTheEnd` needs that the end packets written are those not left to write
(`EndsCounted`), and the bound of `context.seq` that the numbers taken are counted by what each
sender has sent (`SeqCounted`): a lost update of the unlocked `seq++` keeps it below.
`CleanCloseSentTheEnd` says that a queue that closed, rather than timed out, was given every end packet and
sent all that was written, but for what was pushed between a read's two tests or after the
writing was shut. The type invariant is proved in parts, of which a step disturbs a few.

**`ReceivePath_proofs`** (assumption: a cache holds at least one packet, `None` is no packet, stream or
session). Fifteen parts. `SessionPlaces`, `HoldersCounted` and `UsedInOrder`: the count of
an endpoint is the number of sessions that have it, and these have the one that is listed.
`ReceivingIsListed` and `StaleIsStopped`: an endpoint whose loopers run is listed, and a
deleted queue stays only with one that was stopped. `OwnedOnce`: a packet is in one hand, one
cache or one queue, races included. `Unraced` says what holds until a release meets a
packet or a deletion; `NothingFreedInUse` follows from it, and it is what has to be given up
after a race. `LooksAreLive` is the same for the pointer to the talk: what a looper has read of it is the
talk that is there, unless one was deleted since it began to look. `NextSteps` takes the next-state relation
apart once, into steps that name what they leave alone. That the cache keeps its size although the size is tested before the lock is taken is
part of `TypeOK`; it holds since only the endpoint's own looper adds to it (`CachesBounded`).

**`HeartBeat_proofs`** (assumption: finitely many sessions, an interval and a minute of at least
one tick, counters ordered by when they are made). `BeatsWhileWanted` is not inductive: a release takes the counter away when its
count comes to 0. `WantingCounted` adds that a remote has one counter at the most, and that
its count is no less than the number of open sessions that started it, unless the remote was
robbed of a reference; the finiteness is for that number. `FreedOnlyUnderTheWalk` needs what
the application has in its hand (`HandPlaces`): what it is about to delete is out of the
list and the timer's hands, or is noted as overtaken. `RetriesApart` and `WalkPlaces`
(the timer's decision is about a listed counter with retries left) bound the counts. The proof is
for every number of retries, with or without a race of the minute tick with a retry.

All but the record also have `Inductive` (`Spec => []IInv`; of the jitter buffer `JitterInductive`) and `TypeCorrect`. Each invariant was checked as
an invariant of TLC before it was proved.

Only model-checked: the three invariants of `SoloCodec`, as its coding of pulses is recursive, which this prover
cannot reason about (that its entropy coder reads back any symbols is proved, above; which
symbols the two sides agree to write and read is not); and everything that is liveness: `RestartedCounterRejoins`, `ClosingEnds`,
`SilenceIsReported`, `EndedIsPlayed`, `StopReleases`, `NobodyPlaysForEver`, `EndedIsReleased`,
`FileIsReleased`, `PacketIsHandled` and `SilenceIsNoticed`.

## Not modelled

Most lines of the repository are not control. Of the codec's 29,000 lines those are modelled
that decide what the two ends must agree on; left out are the analysis of the signal (pitch, prediction, noise
shaping, activity), which only chooses the frames that the model takes as given, the filters and
resamplers, the synthesis of the high band, the tables, of which the model has small
ones of the same shape, the assembler versions of C functions, and what this program
never turns on: in-band redundancy, discontinuous transmission, a joint coding of the descriptions,
other sampling rates of the encoder. What the decoder makes up for a lost frame is
taken as unknown: the program never asks for it, as its decoder simulates no losses
(`packetLoss_perc` is 0, `Silk.cpp:244`) and is not told of those of the network. `solo_codec` lets a
description be lost and so explores more than the program does. Saturations and the wrap of intermediate sums are left out of `DelayedDecision`.

The application, the bridge, the resampler and the vendored libraries have no part in the protocol.

In modelled components, by component:

* Scheduler: the looper's start and stop. `startWork` and `stopWork` are called once each, when the
  program is loaded and unloaded (`conference.cpp:426`, `:440`). A second `startWork` would return with
  `workStateMutex` held (`StreamPlayScheduler.cpp:496`).
* `MyCtext::UnOnLoad`, which stops the looper and then deletes every session with
  `g_session_mutex` held; the table of speakers, status getters, reports.
* `AudioDevMgr`: the buffers of the audio queue and the configuration of the audio unit. `HandleOutputBuffer` uses the
  buffer of noise without a lock and `stopPlay` frees it; `AudioDevMgr.cpp:93` copies as many bytes as
  samples are left, where `NoResidue` says that none ever are.
* Queues: `openWrite`, filters. Endpoints: `releaseAllEndPoint`. Playing: pausing and resuming. None
  of them is called.
* RTP: contributing sources and padding, which no caller uses. The length test of the parser (`RTPProtocol.cpp:99`)
  compares an unsigned number with zero and never holds.
* Memory exhaustion, and calls of the application from several threads at once.

## Plan

1. (done) The timer, the I/O queue, the ring and the jitter buffer, with the abstract
   specifications `TickService` and `PcmFifo`; the talks and the playing, which compose them.
2. (done) `ReceivePath`: the receive looper, the cache, the raising of transactions and the
   teardown of sessions and endpoints. `HeartBeat`: counters shared, retried and removed.
3. (done) The path of the voice itself: `RTPProtocol`, `AudPacket`, `SilkFile`, `VoiceRecord`; the codec
   in `RangeCoder`, `ShellPulses`, `DelayedDecision`, `SoloCodec`.
4. (done) Proofs of the safety of the timer (with its refinement), the queue, the ring (with its
   refinement), the jitter buffer, the talks, the playing, the receive path and the heartbeats.
   Proofs that `RTPProtocol`, `AudPacket` and `SilkFile` read back what they write, and of the record made of them;
   that the range coder reads back what it writes.
5. Next: the action properties of the scheduler's round.
