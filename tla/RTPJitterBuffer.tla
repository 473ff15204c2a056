-------------------------- MODULE RTPJitterBuffer --------------------------
(***************************************************************************)
(* The receiving side of one voice stream: RTPRecvIOQueue and the          *)
(* RTPJitterBuffer in front of it.  The network thread pushes the packets  *)
(* that arrive, lost, doubled or out of order; the jitter buffer holds     *)
(* them until there are more than a threshold, and then pops them all, the *)
(* smallest sequence number first, into the queue.  The scheduler starts   *)
(* the stream when it may be played, the feeder reads it, and restarts the *)
(* holding when it finds nothing; the timer shuts the reading when nothing *)
(* has come for long.  The queue's own steps are those of IOQueue: its     *)
(* tests of the switches and of its size are made without a lock, each in  *)
(* a step of its own.  The threshold is set by two threads without a lock, *)
(* each some time after it was chosen.                                     *)
(***************************************************************************)
EXTENDS Integers, Sequences, FiniteSets

CONSTANTS
  Preamble,    \* sequence numbers of the packets sent ahead, without payload
  Audio,       \* of the packets of voice
  End,         \* of the packets with the marker, sent after the last voice
  Copies,      \* how often the network may deliver a packet
  MinThreshold, \* minThreshold
  Estimates,   \* the thresholds the measured jitter may call for
  IntMax       \* INT_MAX, the threshold before the first packet

ASSUME JitterAssumption ==
  /\ Preamble \subseteq Nat /\ Audio \subseteq Nat /\ End \subseteq Nat
  /\ IsFiniteSet(Preamble) /\ IsFiniteSet(Audio) /\ IsFiniteSet(End)
  /\ \A a \in Preamble, b \in Audio : a < b
  /\ \A a \in Preamble \cup Audio, b \in End : a < b
  /\ Copies \in Nat \ {0} /\ MinThreshold \in Nat \ {0}
  /\ 0 \in Estimates /\ Estimates \subseteq Nat
  /\ IntMax \in Nat /\ \A e \in Estimates \cup {MinThreshold} : e < IntMax

Sequences16 == Preamble \cup Audio \cup End
Packets == [seq : Sequences16, copy : 1 .. Copies]
Timeouts == {"TIMEOUT_WAITING", "TIMEOUT"}

VARIABLES
  held,          \* buffer: the priority queue
  dqThreshold,
  isEnded,       \* the marker has arrived
  rtpDuration,   \* the duration of a packet is known
  totalRTPCount,
  lastSequence,
  queue,         \* IOQueue::buffer
  readable, writtable, writeStatus,
  playing,       \* the scheduler has started the track
  npc, cur,      \* the network thread, and the packet in its hands
  rpc, got,      \* the feeder, and whether its read has found a packet
  chosen,        \* tmpThres of the two threads that recalculate the threshold
  tpc,           \* the timer's thread in WriteTimerCB::matchCond
  arrived,       \* history: the packets that have come
  taken,         \* history: what the feeder has read, in that order
  late,          \* history: the packets a later one had passed on arrival
  raced          \* history: those in queue pushed between the two tests of a read

jitter == <<held, dqThreshold, isEnded, rtpDuration, totalRTPCount, lastSequence>>
ioq == <<queue, readable, writtable, writeStatus>>
network == <<npc, cur>>
feeder == <<rpc, got>>
history == <<arrived, taken, late, raced>>
jitterVars == <<jitter, ioq, playing, network, feeder, chosen, tpc, history>>

Thresholds == Estimates \cup {0, MinThreshold, IntMax}
Writing == {"accepted", "storing", "stored"}

\* What has gone through the jitter buffer into the queue, in that order.
passed == taken \o queue

TypeOK ==
  /\ held \subseteq Packets
  /\ dqThreshold \in Thresholds
  /\ chosen \in [{"network", "feeder"} -> Thresholds]
  /\ isEnded \in BOOLEAN /\ rtpDuration \in BOOLEAN
  /\ totalRTPCount \in 0 .. Cardinality(Packets)
  /\ lastSequence \in Sequences16 \cup {0}
  /\ queue \in Seq(Packets)
  /\ readable \in BOOLEAN /\ writtable \in BOOLEAN
  /\ writeStatus \in {"WRITING", "END"} \cup Timeouts
  /\ playing \in BOOLEAN
  /\ npc \in {"idle", "enqueue", "recalculate", "reset", "popup", "popping"} \cup Writing
  /\ npc # "idle" => cur \in Packets
  /\ rpc \in {"read", "popped", "empty", "returned", "rehold", "reset"}
  /\ got \in BOOLEAN
  /\ tpc \in {"idle", "expired"}
  /\ arrived \subseteq Packets /\ late \subseteq Packets /\ raced \subseteq Packets
  /\ taken \in Seq(Packets)

JitterInit ==
  /\ held = {} /\ dqThreshold = IntMax /\ isEnded = FALSE /\ rtpDuration = FALSE
  /\ totalRTPCount = 0 /\ lastSequence = 0
  /\ queue = <<>> /\ readable = TRUE /\ writtable = TRUE /\ writeStatus = "WRITING"
  /\ playing = FALSE
  /\ npc = "idle" /\ rpc = "read" /\ got = FALSE /\ tpc = "idle"
  /\ chosen = [thread \in {"network", "feeder"} |-> 0]
  /\ cur = [seq |-> 0, copy |-> 0]
  /\ arrived = {} /\ taken = <<>> /\ late = {} /\ raced = {}
-----------------------------------------------------------------------------
(* The network thread *)

\* RTPRecvIOQueue::write accepts the packet and push measures it.
Arrive(p) ==
  /\ npc = "idle" /\ p \notin arrived
  /\ writtable
  /\ npc' = "enqueue" /\ cur' = p
  /\ arrived' = arrived \cup {p}
  /\ late' = IF \E i \in 1 .. Len(passed) : passed[i].seq > p.seq
             THEN late \cup {p} ELSE late
  /\ rtpDuration' = (rtpDuration \/ p.seq \notin Preamble)
  /\ lastSequence' = IF p.seq > lastSequence THEN p.seq ELSE lastSequence
  /\ totalRTPCount' = totalRTPCount + 1
  /\ UNCHANGED <<held, dqThreshold, isEnded, ioq, playing, feeder, chosen, tpc,
                 taken, raced>>

\* A packet with payload or marker is held; the marker ends the stream.
Enqueue ==
  /\ npc = "enqueue"
  /\ held' = IF cur.seq \in Preamble THEN held ELSE held \cup {cur}
  /\ isEnded' = (isEnded \/ cur.seq \in End)
  /\ npc' = "recalculate"
  /\ UNCHANGED <<dqThreshold, rtpDuration, totalRTPCount, lastSequence, ioq,
                 playing, cur, feeder, chosen, tpc, history>>

\* Seeded fault: the estimate is not capped.
ThresholdUncapped ==
  IF totalRTPCount < MinThreshold /\ dqThreshold # MinThreshold
  THEN {MinThreshold}
  ELSE IF rtpDuration THEN {2 * e : e \in Estimates}
       ELSE {dqThreshold}

\* The thresholds recalculateThreshold may set once it has packets and is
\* forced to or the threshold is not 0.
Threshold ==
  IF totalRTPCount < MinThreshold /\ dqThreshold # MinThreshold
  THEN {MinThreshold}
  ELSE IF rtpDuration
       THEN IF isEnded \/ writeStatus \in Timeouts THEN {0} ELSE Estimates
       ELSE {dqThreshold}

Recalculate ==
  /\ npc = "recalculate"
  /\ IF dqThreshold # 0
     THEN /\ \E t \in Threshold : chosen' = [chosen EXCEPT !["network"] = t]
          /\ npc' = "reset"
     ELSE npc' = "popup" /\ UNCHANGED chosen
  /\ UNCHANGED <<jitter, ioq, playing, cur, feeder, tpc, history>>

\* resetThreshold
ResetThreshold ==
  /\ npc = "reset"
  /\ dqThreshold' = chosen["network"]
  /\ chosen' = [chosen EXCEPT !["network"] = 0]
  /\ npc' = "popup"
  /\ UNCHANGED <<held, isEnded, rtpDuration, totalRTPCount, lastSequence, ioq,
                 playing, cur, feeder, tpc, history>>

\* Seeded fault: the marker does not flush what is held.
PopupUnended ==
  /\ npc = "popup"
  /\ IF Cardinality(held) > dqThreshold
     THEN npc' = "popping" /\ dqThreshold' = 0
     ELSE npc' = "idle" /\ UNCHANGED dqThreshold
  /\ UNCHANGED <<held, isEnded, rtpDuration, totalRTPCount, lastSequence, ioq,
                 playing, cur, feeder, chosen, tpc, history>>

Popup ==
  /\ npc = "popup"
  /\ IF Cardinality(held) > dqThreshold \/ isEnded
     THEN npc' = "popping" /\ dqThreshold' = 0
     ELSE npc' = "idle" /\ UNCHANGED dqThreshold
  /\ UNCHANGED <<held, isEnded, rtpDuration, totalRTPCount, lastSequence, ioq,
                 playing, cur, feeder, chosen, tpc, history>>

\* Seeded fault: the comparison of the priority queue is turned round.
Greatest(p) == p \in held /\ \A q \in held : q.seq <= p.seq

\* The top of the priority queue; copies of a packet come in any order.
Top(p) == p \in held /\ \A q \in held : p.seq <= q.seq

\* popupJitter has emptied the buffer, or offers the top of it to the queue.
\* IOQueue::write refuses it when the writing has ended.
WriteAccept ==
  /\ npc = "popping"
  /\ IF held = {}
     THEN npc' = "idle" /\ UNCHANGED <<held, cur>>
     ELSE \E p \in held :
            /\ Top(p)
            /\ cur' = p
            /\ IF writtable
               THEN npc' = "accepted" /\ UNCHANGED held
               ELSE held' = held \ {p} /\ UNCHANGED npc
  /\ UNCHANGED <<dqThreshold, isEnded, rtpDuration, totalRTPCount, lastSequence,
                 ioq, playing, feeder, chosen, tpc, history>>

\* Reading is shut: the packet is dropped.
WriteTestReadable ==
  /\ npc = "accepted"
  /\ npc' = IF readable THEN "storing" ELSE "stored"
  /\ UNCHANGED <<jitter, ioq, playing, cur, feeder, chosen, tpc, history>>

WritePush ==
  /\ npc = "storing"
  /\ queue' = Append(queue, cur)
  /\ raced' = IF rpc = "empty" THEN raced \cup {cur} ELSE raced
  /\ npc' = "stored"
  /\ UNCHANGED <<jitter, readable, writtable, writeStatus, playing, cur, feeder,
                 chosen, tpc, arrived, taken, late>>

\* The marker ends the writing; popupJitter takes out what it has written.
WriteFinish ==
  /\ npc = "stored"
  /\ IF cur.seq \in End
     THEN writtable' = FALSE /\ writeStatus' = "END"
     ELSE UNCHANGED <<writtable, writeStatus>>
  /\ held' = held \ {cur}
  /\ npc' = "popping"
  /\ UNCHANGED <<dqThreshold, isEnded, rtpDuration, totalRTPCount, lastSequence,
                 queue, readable, playing, cur, feeder, chosen, tpc, history>>

WriteStep == WriteAccept \/ WriteTestReadable \/ WritePush \/ WriteFinish
NetworkStep == Enqueue \/ Recalculate \/ ResetThreshold \/ Popup \/ WriteStep
-----------------------------------------------------------------------------
(* The scheduler, the feeder and the timer *)

\* Seeded fault: only a timeout makes a short stream ready.
ReadyIfTimedOut ==
  /\ rtpDuration
  /\ writeStatus \in Timeouts
  /\ held # {} \/ queue # <<>>

\* spsReadyForPlay: getPredictContinousMS judges an ended or timed-out stream
\* with something left ready, and one with enough packets if the jitter is low.
MustBeReady ==
  /\ rtpDuration
  /\ isEnded \/ writeStatus \in Timeouts
  /\ held # {} \/ queue # <<>>

MayBeReady ==
  /\ rtpDuration
  /\ totalRTPCount >= MinThreshold
  /\ held # {} \/ queue # <<>>

StartTrack ==
  /\ ~playing
  /\ MustBeReady \/ MayBeReady
  /\ playing' = TRUE
  /\ UNCHANGED <<jitter, ioq, network, feeder, chosen, tpc, history>>

\* IOQueue::read, called by the feeder of a stream that is playing.
ReadPop ==
  /\ playing /\ rpc = "read" /\ readable
  /\ got' = (queue # <<>>)
  /\ IF queue # <<>>
     THEN /\ taken' = Append(taken, Head(queue)) /\ queue' = Tail(queue)
          /\ raced' = raced \ {Head(queue)}
     ELSE UNCHANGED <<taken, queue, raced>>
  /\ rpc' = "popped"
  /\ UNCHANGED <<jitter, readable, writtable, writeStatus, playing, network, chosen,
                 tpc, arrived, late>>

ReadTestEmpty ==
  /\ rpc = "popped"
  /\ rpc' = IF queue = <<>> THEN "empty" ELSE "returned"
  /\ UNCHANGED <<jitter, ioq, playing, network, got, chosen, tpc, history>>

\* Nothing can come any more: the reading is closed.
ReadTestWrite ==
  /\ rpc = "empty"
  /\ readable' = (readable /\ writtable)
  /\ rpc' = "returned"
  /\ UNCHANGED <<jitter, queue, writtable, writeStatus, playing, network, got,
                 chosen, tpc, history>>

\* A packet is decoded.  When there was none and the queue can still be read, the
\* holding is restarted, if the circle buffer too is empty.
ReadReturn ==
  /\ rpc = "returned"
  /\ rpc' \in IF ~got /\ readable THEN {"read", "rehold"} ELSE {"read"}
  /\ got' = FALSE
  /\ UNCHANGED <<jitter, ioq, playing, network, chosen, tpc, history>>

\* onReadEmpty: the holding is restarted where it has stopped.
Rehold ==
  /\ rpc = "rehold"
  /\ IF dqThreshold = 0 /\ totalRTPCount > 0
     THEN /\ \E t \in Threshold : chosen' = [chosen EXCEPT !["feeder"] = t]
          /\ rpc' = "reset"
     ELSE rpc' = "read" /\ UNCHANGED chosen
  /\ UNCHANGED <<jitter, ioq, playing, network, got, tpc, history>>

ReholdReset ==
  /\ rpc = "reset"
  /\ dqThreshold' = chosen["feeder"]
  /\ chosen' = [chosen EXCEPT !["feeder"] = 0]
  /\ rpc' = "read"
  /\ UNCHANGED <<held, isEnded, rtpDuration, totalRTPCount, lastSequence, ioq,
                 playing, network, got, tpc, history>>

\* The write timer, which startTrack registers, decides that a stage has expired.
WriteTick ==
  /\ playing /\ writtable
  /\ writeStatus \in {"WRITING", "TIMEOUT_WAITING"}
  /\ tpc = "idle" /\ tpc' = "expired"
  /\ UNCHANGED <<jitter, ioq, playing, network, feeder, chosen, history>>

\* Each stage shuts the reading, whatever has been written meanwhile.
WriteExpire ==
  /\ tpc = "expired"
  /\ readable' = FALSE
  /\ writeStatus' = IF writeStatus = "WRITING" THEN "TIMEOUT_WAITING" ELSE "TIMEOUT"
  /\ tpc' = "idle"
  /\ UNCHANGED <<jitter, queue, writtable, playing, network, feeder, chosen, history>>

ReadStep == ReadPop \/ ReadTestEmpty \/ ReadTestWrite \/ ReadReturn
FeederStep == ReadStep \/ Rehold \/ ReholdReset
TimerStep == WriteTick \/ WriteExpire

JitterNext ==
  \/ \E p \in Packets : Arrive(p)
  \/ NetworkStep
  \/ StartTrack
  \/ FeederStep
  \/ TimerStep

JitterSpec == JitterInit /\ [][JitterNext]_jitterVars

\* The threads run and the timer ticks; nothing is assumed of the network.
FairSpec ==
  /\ JitterSpec
  /\ WF_jitterVars(NetworkStep)
  /\ WF_jitterVars(MustBeReady /\ StartTrack)
  /\ WF_jitterVars(FeederStep)
  /\ WF_jitterVars(TimerStep)
-----------------------------------------------------------------------------
(* Properties *)

\* The jitter buffer exists to put packets back in order.  It does so across
\* bursts, threshold changes by both threads and the flush of the end: a packet
\* is out of order in the queue only if it arrived after the later one had left.
InOrderUnlessLate ==
  \A i, j \in 1 .. Len(passed) :
    i < j /\ passed[i].seq > passed[j].seq => passed[j] \in late

\* After the marker nothing is held back: no later push would flush it.
EndedIsFlushed == npc = "idle" /\ isEnded => held = {}

\* A stream whose end has come through, and that the timer is not about to shut,
\* is started, however short, and played to its last packet.  Nothing is left
\* where the feeder does not look, but for packets that were pushed between a
\* read's test of the size and its test of writtable.
EndedIsPlayed ==
  (writeStatus = "END" /\ readable /\ tpc = "idle") ~>
    (playing /\ held = {} /\ \A i \in DOMAIN queue : queue[i] \in raced)

=============================================================================
