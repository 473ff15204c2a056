------------------------ MODULE OutgoingTransaction ------------------------
(***************************************************************************)
(* One talk after another, from the call that hands an OutgoingTransaction *)
(* to StreamPlayScheduler until the scheduler deletes it.  Seven threads   *)
(* meet: the application (delegate, stopRecordAsync), the scheduler's      *)
(* looper, the preamble thread of startTrans, the recorder's callback, the *)
(* endpoint's send looper, the timer, and a thread that delegates an       *)
(* incoming stream and looks at recSource before it takes evMutex.         *)
(*                                                                         *)
(* Three locks order them: evMutex (hold), sqLock (the send looper has it  *)
(* from its walk to the end of it) and the timer's mutex (held while tq is *)
(* set).  context.seq, the queue's switches and its size have none, nor    *)
(* has the look at recSource.                                              *)
(***************************************************************************)
EXTENDS Integers, Sequences, FiniteSets

CONSTANTS
  PrevPackets,  \* empty packets of the preamble thread (5 in the code)
  EndPackets,   \* end packets of stopTrans (3 in the code)
  CloseTicks,   \* closeMaxTickCount for the 200 ms of srsDispose
  MaxVoice,     \* bound on the voice packets of a talk
  MaxTalks,     \* bound on the talks
  MaxStops      \* bound on the calls of stopRecordAsync

ASSUME OutgoingAssumption ==
  /\ PrevPackets \in Nat
  /\ EndPackets \in Nat \ {0}
  /\ CloseTicks \in Nat
  /\ MaxVoice \in Nat
  /\ MaxTalks \in Nat
  /\ MaxStops \in Nat

VARIABLES
  rec, srs,               \* recSource (0 for NULL) and its srsState
  hold, spc,              \* the holder of evMutex and its place
  talks, stops,           \* calls so far
  readable, writtable, status,  \* the talk's IOQueue
  written, head,          \* the packets pushed, and how many were popped
  listed, count,          \* its close counter, as TimerTrigger keeps it
  seq,                    \* context.seq
  place, got, left,       \* each sender: its place, the seq it read, its packets
  prev,                   \* the talk the preamble thread works for
  unit, occupied,         \* the talk the recorder feeds; recordOccupied
  sendIOQs,               \* the queues registered with the endpoint
  lpc, lq, woken,         \* the send looper, the queue it drains, its signal
  data,                   \* its read has a packet to return
  tq,                     \* the queue whose close the timer is announcing
  look, seen,             \* delegate(play)'s look at recSource, the pointer read
  deletedSince,           \* history: a talk was deleted since that look began
  crashed                 \* the look went through a pointer to nothing

ioq    == <<readable, writtable, status, written, head>>
timer  == <<listed, count, tq>>
sender == <<seq, place, got, left>>
device == <<unit, occupied>>
looper == <<lpc, lq, woken, data>>
looker == <<look, seen, deletedSince, crashed>>
owner  == <<rec, srs, hold, spc>>
calls  == <<talks, stops>>
vars == <<owner, calls, ioq, timer, sender, prev, device, sendIOQs, looper, looker>>

Senders == {"prev", "voice", "end"}
Final == {"CLOSED", "CLOSE_TO"}
Talks == 1 .. MaxTalks
MaxSeq == PrevPackets + MaxVoice + EndPackets

\* late is history: the packet was pushed between a read's test of the size
\* and its test of writtable, or after the writing was shut.
Packets == [end : BOOLEAN, late : BOOLEAN]

Trigger == INSTANCE TickService WITH Waiters <- {"close"}, MaxCount <- CloseTicks

TypeOK ==
  /\ rec \in 0 .. MaxTalks
  /\ srs \in {"INVALID", "WAITING", "RECORING", "STOPING", "STOPED"}
  /\ hold \in {"none", "sched", "app"}
  /\ spc \in {"idle", "registering", "opening", "starting", "ending", "joining", "closing",
              "deciding", "arming", "freeing", "unregistering", "deleting", "forgetting"}
  /\ hold = "none" <=> spc = "idle"
  /\ talks \in 0 .. MaxTalks /\ stops \in 0 .. MaxStops
  /\ readable \in BOOLEAN /\ writtable \in BOOLEAN
  /\ status \in {"READY", "CLOSING"} \cup Final
  /\ written \in Seq(Packets)
  /\ head \in 0 .. Len(written)
  /\ Trigger!TypeOK
  /\ seq \in 0 .. MaxSeq
  /\ place \in [Senders -> {"idle", "taken", "stored", "accepted", "storing"}]
  /\ got \in [Senders -> 0 .. MaxSeq]
  /\ left \in [Senders -> 0 .. MaxSeq]
  /\ prev \in 0 .. MaxTalks /\ unit \in 0 .. MaxTalks /\ occupied \in BOOLEAN
  /\ sendIOQs \subseteq Talks
  /\ lpc \in {"top", "waiting", "walking", "popped", "emptied", "notifying"}
  /\ lq \in 0 .. MaxTalks /\ tq \in 0 .. MaxTalks
  /\ woken \in BOOLEAN /\ data \in BOOLEAN
  /\ look \in {"idle", "tested", "fetched"}
  /\ seen \in 0 .. MaxTalks
  /\ deletedSince \in BOOLEAN /\ crashed \in BOOLEAN

Nothing == [s \in Senders |-> 0]

Init ==
  /\ rec = 0 /\ srs = "INVALID" /\ hold = "none" /\ spc = "idle"
  /\ talks = 0 /\ stops = 0
  /\ readable = FALSE /\ writtable = TRUE /\ status = "READY"
  /\ written = <<>> /\ head = 0
  /\ Trigger!Init /\ tq = 0
  /\ seq = 0
  /\ place = [s \in Senders |-> "idle"] /\ got = Nothing /\ left = Nothing
  /\ prev = 0 /\ unit = 0 /\ occupied = FALSE
  /\ sendIOQs = {}
  /\ lpc = "top" /\ lq = 0 /\ woken = FALSE /\ data = FALSE
  /\ look = "idle" /\ seen = 0 /\ deletedSince = FALSE /\ crashed = FALSE

\* UdpEndPoint::onIOQueueUpdated signals without sqLock: a signal that finds
\* the looper anywhere but in its wait is lost.
Signal == woken' = (woken \/ lpc = "waiting")

\* sqLock is free.
SqFree == lpc \in {"top", "waiting"}

Shut(s) ==
  /\ status' = s
  /\ readable' = FALSE
  /\ writtable' = FALSE

Drained == ~writtable /\ head = Len(written)

\* The talk that exists, and the pointer recSource: it is set after srsStandby
\* and set to NULL after the delete.
Alive == IF spc = "forgetting" THEN 0 ELSE rec
Pointer == IF spc \in {"registering", "opening"} THEN 0 ELSE rec
-----------------------------------------------------------------------------
(* The application *)

\* delegate deletes a previous source that is ready for it, and takes the new
\* one.  When the previous source is not ready the new one is deleted, and
\* nothing else changes.
Delegate ==
  /\ hold = "none"
  /\ talks < MaxTalks
  /\ \/ rec = 0 /\ spc' = "registering"
     \/ rec # 0 /\ status \in Final /\ spc' = "freeing"
  /\ talks' = talks + 1
  /\ hold' = "app"
  /\ UNCHANGED <<rec, srs, stops, ioq, timer, sender, prev, device, sendIOQs,
                 looper, looker>>

\* The queue and the counters of a talk are new.
Fresh ==
  /\ readable' = FALSE /\ writtable' = TRUE /\ status' = "READY"
  /\ written' = <<>> /\ head' = 0
  /\ listed' = {} /\ count' = [c \in {"close"} |-> 0]
  /\ seq' = 0
  /\ left' = Nothing /\ got' = Nothing

\* startTrans: the new queue goes to the endpoint.
Register ==
  /\ spc = "registering"
  /\ SqFree
  /\ rec' = talks /\ srs' = "INVALID"
  /\ sendIOQs' = sendIOQs \cup {talks}
  /\ Fresh
  /\ spc' = "opening"
  /\ UNCHANGED <<hold, calls, tq, place, prev, device, looper, looker>>

\* startTrans: the queue can be read, and the preamble thread starts.
Open ==
  /\ spc = "opening"
  /\ readable' = TRUE
  /\ prev' = rec
  /\ left' = [left EXCEPT !["prev"] = PrevPackets]
  /\ srs' = "WAITING"
  /\ hold' = "none" /\ spc' = "idle"
  /\ UNCHANGED <<rec, calls, writtable, status, written, head, timer, seq, place,
                 got, device, sendIOQs, looper, looker>>

\* stopRecordAsync, at any time and as often as it is called: the state goes to
\* STOPING from whatever it was.
StopRecordAsync ==
  /\ hold = "none"
  /\ rec # 0
  /\ stops < MaxStops
  /\ stops' = stops + 1
  /\ srs' = "STOPING"
  /\ UNCHANGED <<rec, hold, spc, talks, ioq, timer, sender, prev, device, sendIOQs,
                 looper, looker>>
-----------------------------------------------------------------------------
(* The scheduler: schedualRecord, under evMutex.  Its wait is timed, so that  *)
(* it comes round whether or not a wakeup was lost.                           *)

\* startRecord: the recorder is acquired.  When it cannot be, nothing changes and
\* the source keeps WAITING for the next round.
AcquireRecorder ==
  /\ hold = "none"
  /\ rec # 0 /\ srs = "WAITING"
  /\ ~occupied
  /\ occupied' = TRUE
  /\ hold' = "sched" /\ spc' = "starting"
  /\ UNCHANGED <<rec, srs, calls, ioq, timer, sender, prev, unit, sendIOQs, looper, looker>>

StartRecord ==
  /\ spc = "starting"
  /\ unit' = rec
  /\ left' = [left EXCEPT !["voice"] = MaxVoice]
  /\ srs' = "RECORING"
  /\ hold' = "none" /\ spc' = "idle"
  /\ UNCHANGED <<rec, calls, ioq, timer, seq, place, got, prev, occupied,
                 sendIOQs, looper, looker>>

\* Seeded fault: the error path does not put the recorder back.
StartRecordFailsKeeps ==
  /\ spc = "starting"
  /\ hold' = "none" /\ spc' = "idle"
  /\ UNCHANGED <<rec, srs, calls, ioq, timer, sender, prev, device, sendIOQs,
                 looper, looker>>

\* The audio unit does not start: the recorder is released again.
StartRecordFails ==
  /\ spc = "starting"
  /\ occupied' = FALSE
  /\ hold' = "none" /\ spc' = "idle"
  /\ UNCHANGED <<rec, srs, calls, ioq, timer, sender, prev, unit, sendIOQs, looper, looker>>

\* srsDispose: isRecording answers FALSE always, so that a stopping source is
\* disposed of in the next round.  The recorder is released first; stopping the
\* audio unit waits for a callback in progress.
Dispose ==
  /\ hold = "none"
  /\ rec # 0 /\ srs = "STOPING"
  /\ place["voice"] = "idle"
  /\ unit' = 0 /\ occupied' = FALSE
  /\ srs' = "STOPED"
  /\ left' = [left EXCEPT !["end"] = EndPackets, !["voice"] = 0]
  /\ hold' = "sched" /\ spc' = "ending"
  /\ UNCHANGED <<rec, calls, ioq, timer, seq, place, got, prev, sendIOQs,
                 looper, looker>>

\* Seeded fault: the writing end is shut before the end packets are written.
CloseWriteFirst ==
  /\ spc = "ending"
  /\ place["end"] = "idle"
  /\ left' = [left EXCEPT !["end"] = 0]
  /\ writtable' = FALSE
  /\ spc' = "joining"
  /\ UNCHANGED <<rec, srs, hold, calls, readable, status, written, head, timer,
                 seq, place, got, prev, device, sendIOQs, looper, looker>>

\* stopTrans, once the end packets are written (or refused).
CloseWrite ==
  /\ spc = "ending"
  /\ place["end"] = "idle"
  /\ left["end"] = 0 \/ ~writtable
  /\ left' = [left EXCEPT !["end"] = 0]
  /\ writtable' = FALSE
  /\ spc' = "joining"
  /\ UNCHANGED <<rec, srs, hold, calls, readable, status, written, head, timer,
                 seq, place, got, prev, device, sendIOQs, looper, looker>>

\* Seeded fault: the preamble thread is detached, not joined.
JoinSkipped ==
  /\ spc = "joining"
  /\ spc' = "closing"
  /\ UNCHANGED <<rec, srs, hold, calls, ioq, timer, sender, prev, device, sendIOQs,
                 looper, looker>>

\* pthread_join(prevSendThread), with evMutex held.  A second disposal joins a
\* thread that was joined before; that call is taken to return at once.
Join ==
  /\ spc = "joining"
  /\ prev = 0
  /\ spc' = "closing"
  /\ UNCHANGED <<rec, srs, hold, calls, ioq, timer, sender, prev, device, sendIOQs,
                 looper, looker>>

AsyncClose ==
  /\ spc = "closing"
  /\ tq = 0
  /\ Trigger!Unregister("close")
  /\ spc' = "deciding"
  /\ UNCHANGED <<rec, srs, hold, calls, ioq, tq, sender, prev, device, sendIOQs,
                 looper, looker>>

\* asyncClose: closed already, or nothing left, or it must wait.
AsyncCloseDecide ==
  /\ spc = "deciding"
  /\ \/ /\ status = "CLOSED"
        /\ hold' = "none" /\ spc' = "idle"
        /\ UNCHANGED <<readable, writtable, status, woken>>
     \/ /\ status # "CLOSED" /\ Drained
        /\ Shut("CLOSED") /\ Signal
        /\ hold' = "none" /\ spc' = "idle"
     \/ /\ status # "CLOSED" /\ ~Drained
        /\ spc' = "arming"
        /\ UNCHANGED <<hold, readable, writtable, status, woken>>
  /\ UNCHANGED <<rec, srs, calls, written, head, timer, sender, prev, device,
                 sendIOQs, lpc, lq, data, looker>>

AsyncCloseArm ==
  /\ spc = "arming"
  /\ tq = 0
  /\ status' = "CLOSING"
  /\ Trigger!Register("close")
  /\ hold' = "none" /\ spc' = "idle"
  /\ UNCHANGED <<rec, srs, calls, readable, writtable, written, head, tq, sender,
                 prev, device, sendIOQs, looper, looker>>

\* schedualRecord: a stopped source whose queue has closed is deleted.
Destroy ==
  /\ hold = "none"
  /\ rec # 0 /\ srs = "STOPED" /\ status \in Final
  /\ hold' = "sched" /\ spc' = "freeing"
  /\ UNCHANGED <<rec, srs, calls, ioq, timer, sender, prev, device, sendIOQs,
                 looper, looker>>

\* The destructor frees the extension, the encoder, the filter and the consumer
\* before it takes the queue away from the endpoint.
FreeParts ==
  /\ spc = "freeing"
  /\ spc' = "unregistering"
  /\ UNCHANGED <<rec, srs, hold, calls, ioq, timer, sender, prev, device, sendIOQs,
                 looper, looker>>

Unregister ==
  /\ spc = "unregistering"
  /\ SqFree
  /\ sendIOQs' = sendIOQs \ {rec}
  /\ spc' = "deleting"
  /\ UNCHANGED <<rec, srs, hold, calls, ioq, timer, sender, prev, device, looper, looker>>

\* ~IOQueue takes its counters out of the timer, whose mutex makes it wait for
\* the end of a traversal; then the memory is freed: the queue that is seen from
\* here on is the next talk's ...
DeleteQueue ==
  /\ spc = "deleting"
  /\ tq = 0
  /\ Fresh
  /\ spc' = "forgetting"
  /\ deletedSince' = (look # "idle")
  /\ UNCHANGED <<rec, srs, hold, calls, tq, place, prev, device, sendIOQs, looper,
                 look, seen, crashed>>

\* ... and recSource becomes NULL.
Forget ==
  /\ spc = "forgetting"
  /\ rec' = 0 /\ srs' = "INVALID"
  /\ spc' = IF hold = "app" THEN "registering" ELSE "idle"
  /\ hold' = IF hold = "app" THEN "app" ELSE "none"
  /\ UNCHANGED <<calls, ioq, timer, sender, prev, device, sendIOQs, looper, looker>>
-----------------------------------------------------------------------------
(* The senders: sendEmptyRTP for the preamble and the end, consumePcm for the *)
(* recorder's callback.  All three take their number from context.seq++.      *)

\* sendEmptyRTP asks whether it may write; consumePcm does not.
MaySend(s) ==
  /\ place[s] = "idle" /\ left[s] > 0
  /\ s = "prev" => prev # 0 /\ writtable
  /\ s = "voice" => unit # 0
  /\ s = "end" => spc = "ending" /\ writtable

ReadSeq(s) ==
  /\ MaySend(s)
  /\ got' = [got EXCEPT ![s] = seq]
  /\ place' = [place EXCEPT ![s] = "taken"]
  /\ UNCHANGED <<owner, calls, ioq, timer, seq, left, prev, device, sendIOQs,
                 looper, looker>>

StoreSeq(s) ==
  /\ place[s] = "taken"
  /\ seq' = got[s] + 1
  /\ got' = [got EXCEPT ![s] = 0]
  /\ place' = [place EXCEPT ![s] = "stored"]
  /\ UNCHANGED <<owner, calls, ioq, timer, left, prev, device, sendIOQs, looper, looker>>

\* IOQueue::write refuses the packet of a sender that is too late.
Accept(s) ==
  /\ place[s] = "stored"
  /\ IF writtable
     THEN place' = [place EXCEPT ![s] = "accepted"] /\ UNCHANGED left
     ELSE /\ place' = [place EXCEPT ![s] = "idle"]
          /\ left' = [left EXCEPT ![s] = @ - 1]
  /\ UNCHANGED <<owner, calls, ioq, timer, seq, got, prev, device, sendIOQs,
                 looper, looker>>

\* Reading is shut: the packet is dropped and write still succeeds.
TestReadable(s) ==
  /\ place[s] = "accepted"
  /\ IF readable
     THEN place' = [place EXCEPT ![s] = "storing"] /\ UNCHANGED left
     ELSE /\ place' = [place EXCEPT ![s] = "idle"]
          /\ left' = [left EXCEPT ![s] = @ - 1]
  /\ UNCHANGED <<owner, calls, ioq, timer, seq, got, prev, device, sendIOQs,
                 looper, looker>>

Push(s) ==
  /\ place[s] = "storing"
  /\ written' = Append(written, [end |-> s = "end", late |-> lpc = "emptied" \/ ~writtable])
  /\ Signal
  /\ place' = [place EXCEPT ![s] = "idle"]
  /\ left' = [left EXCEPT ![s] = @ - 1]
  /\ UNCHANGED <<owner, calls, readable, writtable, status, head, timer, seq, got,
                 prev, device, sendIOQs, lpc, lq, data, looker>>

\* The preamble thread ends after its last packet, or when it may not write.
PrevEnds ==
  /\ prev # 0
  /\ place["prev"] = "idle"
  /\ left["prev"] = 0 \/ ~writtable
  /\ left' = [left EXCEPT !["prev"] = 0]
  /\ prev' = 0
  /\ UNCHANGED <<owner, calls, ioq, timer, seq, place, got, device, sendIOQs, looper,
                 looker>>
-----------------------------------------------------------------------------
(* udp_ept_send_looper *)

\* The wait has no predicate: packets already queued do not prevent it.
LooperWait ==
  /\ lpc = "top"
  /\ lpc' = "waiting" /\ woken' = FALSE
  /\ UNCHANGED <<owner, calls, ioq, timer, sender, prev, device, sendIOQs, lq, data,
                 looker>>

\* The wait ends, with sqLock held: signalled, or spuriously.
LooperWake ==
  /\ lpc = "waiting"
  /\ lpc' = "walking" /\ woken' = FALSE
  /\ IF sendIOQs = {} THEN lq' = 0 ELSE lq' \in sendIOQs
  /\ UNCHANGED <<owner, calls, ioq, timer, sender, prev, device, sendIOQs, data, looker>>

\* Seeded fault: the packet is popped without a test of the size.
LooperPopBlind ==
  /\ lpc = "walking" /\ lq # 0 /\ readable
  /\ data' = TRUE
  /\ head' = head + 1
  /\ lpc' = "popped"
  /\ UNCHANGED <<owner, calls, readable, writtable, status, written, timer, sender,
                 prev, device, sendIOQs, lq, woken, looker>>

\* read takes the first packet, if there is one.
LooperPop ==
  /\ lpc = "walking" /\ lq # 0 /\ readable
  /\ data' = (head < Len(written))
  /\ head' = IF head < Len(written) THEN head + 1 ELSE head
  /\ lpc' = "popped"
  /\ UNCHANGED <<owner, calls, readable, writtable, status, written, timer, sender,
                 prev, device, sendIOQs, lq, woken, looker>>

\* sendFromIOQ sends what read returned and reads on, until it gets NULL.
LooperReturn ==
  /\ data' = FALSE
  /\ IF data THEN lpc' = "walking" /\ UNCHANGED lq ELSE lpc' = "top" /\ lq' = 0

\* read tests the size again ...
LooperTestEmpty ==
  /\ lpc = "popped"
  /\ IF head = Len(written) THEN lpc' = "emptied" /\ UNCHANGED <<lq, data>>
                            ELSE LooperReturn
  /\ UNCHANGED <<owner, calls, ioq, timer, sender, prev, device, sendIOQs, woken,
                 looker>>

\* ... and after that whether the writing is shut: if so it closes the queue.
LooperTestWrite ==
  /\ lpc = "emptied"
  /\ IF writtable
     THEN LooperReturn /\ UNCHANGED <<readable, writtable, status>>
     ELSE /\ Shut("CLOSED")
          /\ lpc' = "notifying" /\ data' = FALSE /\ UNCHANGED lq
  /\ UNCHANGED <<owner, calls, written, head, timer, sender, prev, device, sendIOQs,
                 woken, looker>>

\* No queue, or one that cannot be read: the walk is over, sqLock is released.
LooperDone ==
  /\ lpc = "walking" /\ (lq = 0 \/ ~readable)
  /\ lpc' = "top" /\ lq' = 0
  /\ UNCHANGED <<owner, calls, ioq, timer, sender, prev, device, sendIOQs, woken, data,
                 looker>>

\* Seeded fault: the scheduler is woken with evMutex held.
LooperNotifyLocked ==
  /\ lpc = "notifying" /\ hold = "none"
  /\ lpc' = "walking"
  /\ UNCHANGED <<owner, calls, ioq, timer, sender, prev, device, sendIOQs, lq,
                 woken, data, looker>>

\* setStatus calls the observers with sqLock held; wakeup takes no lock.
LooperNotify ==
  /\ lpc = "notifying"
  /\ lpc' = "walking"
  /\ UNCHANGED <<owner, calls, ioq, timer, sender, prev, device, sendIOQs, lq,
                 woken, data, looker>>
-----------------------------------------------------------------------------
(* The timer: CloseTimer::matchCond *)

\* Not drained yet, and not at the limit.
CloseTickInc ==
  /\ "close" \in listed /\ tq = 0
  /\ ~Drained /\ count["close"] < CloseTicks
  /\ Trigger!Tick("close", "INC")
  /\ UNCHANGED <<owner, calls, ioq, tq, sender, prev, device, sendIOQs, looper, looker>>

\* Drained, or out of time: the status is final, the observers come next.
CloseTickShut ==
  /\ "close" \in listed /\ tq = 0
  /\ \/ Drained /\ Shut("CLOSED")
     \/ ~Drained /\ count["close"] >= CloseTicks /\ Shut("CLOSE_TO")
  /\ tq' = rec
  /\ UNCHANGED <<owner, calls, written, head, listed, count, sender, prev, device,
                 sendIOQs, looper, looker>>

CloseTickNotify ==
  /\ tq # 0
  /\ Signal
  /\ tq' = 0
  /\ Trigger!Tick("close", "RELASE")
  /\ UNCHANGED <<owner, calls, ioq, sender, prev, device, sendIOQs, lpc, lq, data, looker>>
-----------------------------------------------------------------------------
(* delegate for an incoming stream, before it takes evMutex: recSource is     *)
(* tested, and then fetched and asked for its state, twice in the code and    *)
(* here as often as it likes.                                                 *)

LookTest ==
  /\ look = "idle"
  /\ Pointer # 0
  /\ look' = "tested"
  /\ deletedSince' = (spc = "forgetting")
  /\ UNCHANGED <<owner, calls, ioq, timer, sender, prev, device, sendIOQs, looper,
                 seen, crashed>>

LookFetch ==
  /\ look = "tested"
  /\ look' = "fetched" /\ seen' = Pointer
  /\ UNCHANGED <<owner, calls, ioq, timer, sender, prev, device, sendIOQs, looper,
                 deletedSince, crashed>>

\* srsGetRecrodState is called on what was fetched: NULL ends the program, memory
\* that was freed may end it or give an answer.
LookAsk ==
  /\ look = "fetched"
  /\ \/ seen # 0 /\ UNCHANGED crashed
     \/ seen # Alive /\ crashed' = TRUE
  /\ seen' = 0
  /\ \/ look' = "tested" /\ UNCHANGED deletedSince
     \/ look' = "idle" /\ deletedSince' = FALSE
  /\ UNCHANGED <<owner, calls, ioq, timer, sender, prev, device, sendIOQs, looper>>
-----------------------------------------------------------------------------
Application == Delegate \/ Register \/ Open \/ StopRecordAsync
Recording == AcquireRecorder \/ StartRecord \/ StartRecordFails
Closing == \/ Dispose \/ CloseWrite \/ Join
           \/ AsyncClose \/ AsyncCloseDecide \/ AsyncCloseArm
           \/ Destroy \/ FreeParts \/ Unregister \/ DeleteQueue \/ Forget
SendStep(s) == StoreSeq(s) \/ Accept(s) \/ TestReadable(s) \/ Push(s)
LooperStep == \/ LooperWait \/ LooperPop \/ LooperTestEmpty \/ LooperTestWrite
              \/ LooperDone \/ LooperNotify
Timer == CloseTickInc \/ CloseTickShut \/ CloseTickNotify
Look == LookTest \/ LookFetch \/ LookAsk

Step ==
  \/ Application
  \/ Recording
  \/ Closing
  \/ \E s \in Senders : ReadSeq(s) \/ SendStep(s)
  \/ PrevEnds
  \/ LooperStep
  \/ LooperWake
  \/ Timer
  \/ Look

Next == ~crashed /\ Step

\* The scheduler's wait is timed, the timer ticks and every thread inside a call
\* runs on.  The mutexes are not fair, hence strong fairness for the holder of
\* evMutex, who waits for two others.  Nothing makes the application call, the
\* recorder deliver, an unsignalled wait end or a stream be delegated; and nothing
\* runs on after a crash.
Runs(Part) == ~crashed /\ Part
Owner == \/ Closing \/ Register \/ Open \/ StartRecord \/ StartRecordFails
         \/ SendStep("end") \/ ReadSeq("end")

Fairness ==
  /\ SF_vars(Runs(Owner))
  /\ WF_vars(Runs(SendStep("prev") \/ ReadSeq("prev") \/ PrevEnds))
  /\ WF_vars(Runs(SendStep("voice")))
  /\ WF_vars(Runs(LooperStep \/ (woken /\ LooperWake)))
  /\ WF_vars(Runs(Timer))

Spec == Init /\ [][Next]_vars
FairSpec == Spec /\ Fairness
-----------------------------------------------------------------------------
(* Properties *)

PartsFreed == rec = 0 \/ spc \in {"unregistering", "deleting", "forgetting"}

\* Nobody who works for a talk outlives it: the preamble thread and the recorder
\* work for a talk whose encoder, filter and consumer are there; the send looper,
\* its list and the timer's announcement only ever refer to the queue that exists.
\* It rests on the join in stopTrans, on sqLock in unregisterSendQueue and on
\* the timer's mutex in ~IOQueue.  Only delegate(play), which looks at recSource
\* without evMutex, goes through a pointer to nothing, and only when a talk was
\* deleted since its look began.
UsersOutlived ==
  /\ prev # 0 => prev = rec /\ ~PartsFreed
  /\ unit # 0 => unit = rec /\ ~PartsFreed
  /\ \A s \in Senders : place[s] # "idle" => ~PartsFreed
  /\ lq # 0 => lq = Alive
  /\ sendIOQs \subseteq {Alive}
  /\ tq # 0 => tq = Alive
  /\ look = "fetched" /\ seen # Alive => deletedSince

\* A queue that closed, rather than timed out, was given all the end packets and
\* has sent what was written, but for packets that were pushed between a read's
\* test of the size and its test of writtable, or after the writing was shut.
CleanCloseSentTheEnd ==
  status = "CLOSED" =>
    /\ \A i \in head + 1 .. Len(written) : written[i].late
    /\ Cardinality({i \in 1 .. Len(written) : written[i].end}) = EndPackets

\* The only recorder is occupied by the talk that records, or is about to stop,
\* and by no talk that failed, stopped or is gone.
RecorderReturned ==
  occupied => /\ rec # 0
              /\ \/ spc = "starting"
                 \/ unit = rec /\ srs \in {"RECORING", "STOPING"}

\* A stopped talk is deleted, and the next one can be taken, although the
\* scheduler joins a thread and waits for two locks while it holds its own;
\* only the crash of delegate(play) ends it before.
StopReleases == srs = "STOPING" ~> (rec = 0 \/ crashed)
=============================================================================
