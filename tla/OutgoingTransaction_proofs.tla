--------------------- MODULE OutgoingTransaction_proofs ---------------------
(***************************************************************************)
(* Nobody who works for a talk outlives it, the recorder comes back and a  *)
(* queue that closed sent the end but for late packets, for any number of  *)
(* packets, talks and stops.                                               *)
(***************************************************************************)
EXTENDS OutgoingTransaction, FiniteSetTheorems, TLAPS

Stopping == {"ending", "joining", "closing", "deciding", "arming"}
Deleting == {"freeing", "unregistering", "deleting"}

\* What the holder of evMutex knows at each of its places.
OwnerPlaces ==
  /\ hold = "app" => talks >= 1
  /\ spc = "registering" => rec = 0 /\ hold = "app"
  /\ spc \notin {"idle", "registering"} => rec # 0
  /\ spc = "opening" => srs = "INVALID" /\ writtable /\ hold = "app"
  /\ spc = "starting" => srs = "WAITING" /\ occupied /\ unit = 0
  /\ spc \in Stopping => srs = "STOPED" /\ unit = 0
  /\ spc \in (Stopping \ {"ending"}) \cup Deleting => ~writtable
  /\ rec # 0 /\ srs = "INVALID" => spc = "opening"

\* A queue is shut for writing only by a disposal, and reading follows.
QueueEnds ==
  /\ status \in Final \/ listed # {} => ~writtable
  /\ status \in Final => ~readable
  /\ writtable /\ rec # 0 /\ spc \notin {"opening", "forgetting"} => readable
  /\ ~writtable /\ rec # 0 => srs \in {"STOPED", "STOPING"}

\* What a read that found the queue empty, or the close, leaves in it came late.
StrandedLate ==
  status = "CLOSED" \/ lpc = "emptied" => \A i \in head + 1 .. Len(written) : written[i].late

\* Each sender is inside a send only while what started it goes on, and all of
\* them are out once the queue is shut, but for the preamble until its join.
SendersInside ==
  /\ place["prev"] # "idle" => prev # 0
  /\ place["voice"] # "idle" => unit # 0
  /\ place["end"] # "idle" => spc = "ending" /\ writtable
  /\ prev # 0 => prev = rec /\ spc \notin {"opening", "forgetting"} /\ (writtable \/ spc = "joining")
  /\ unit # 0 => unit = rec /\ spc # "forgetting" /\ writtable /\ srs \in {"RECORING", "STOPING"}
  /\ occupied => spc = "starting" \/ unit # 0

\* The send looper, its list and the timer refer only to the present queue.
QueueUsers ==
  /\ sendIOQs \subseteq {rec}
  /\ lq # 0 => lq = rec /\ lpc \in {"walking", "popped", "emptied", "notifying"}
  /\ tq # 0 => tq = rec /\ listed # {}
  /\ rec = 0 => sendIOQs = {} /\ listed = {}
  /\ spc \in {"deleting", "forgetting"} => sendIOQs = {} /\ lq = 0
  /\ spc = "forgetting" => listed = {}

\* As long as no talk was deleted since it began, the look has the talk that is.
LookIsLive ==
  look # "idle" /\ ~deletedSince =>
    /\ rec # 0 /\ spc \notin {"registering", "opening", "forgetting"}
    /\ look = "fetched" => seen = rec

\* The end packets written so far are those that are not left to write.
Ends(s) == {i \in 1 .. Len(s) : s[i].end}

EndsCounted ==
  Cardinality(Ends(written)) = IF ~writtable THEN EndPackets
                               ELSE IF spc = "ending" THEN EndPackets - left["end"] ELSE 0

\* The numbers taken from context.seq, counted by what each sender has left: a
\* lost update keeps seq below that count.
Quota(s) == CASE s = "prev" -> PrevPackets [] s = "voice" -> MaxVoice [] s = "end" -> EndPackets

Sent(s) == Quota(s) - left[s] + (IF place[s] \in {"stored", "accepted", "storing"} THEN 1 ELSE 0)

PrevUsed == IF srs = "INVALID" THEN 0 ELSE Sent("prev")
VoiceUsed == IF srs \in {"INVALID", "WAITING"} THEN 0 ELSE Sent("voice")
EndUsed == IF ~writtable THEN EndPackets ELSE IF spc = "ending" THEN Sent("end") ELSE 0
Used == PrevUsed + VoiceUsed + EndUsed

SeqCounted ==
  /\ \A s \in Senders : left[s] <= Quota(s) /\ (place[s] # "idle" => left[s] > 0)
  /\ rec # 0 => /\ seq <= Used
                /\ \A s \in Senders : place[s] = "taken" => got[s] <= Used

IInv ==
  /\ TypeOK
  /\ OwnerPlaces
  /\ QueueEnds
  /\ StrandedLate
  /\ SendersInside
  /\ QueueUsers
  /\ LookIsLive
  /\ EndsCounted
  /\ SeqCounted

USE DEF vars, owner, calls, ioq, timer, sender, device, looper, looker
-----------------------------------------------------------------------------
LEMMA Constants ==
  /\ PrevPackets \in Nat /\ EndPackets \in Nat /\ EndPackets > 0 /\ CloseTicks \in Nat
  /\ MaxVoice \in Nat /\ MaxTalks \in Nat /\ MaxStops \in Nat
  /\ MaxSeq = PrevPackets + MaxVoice + EndPackets /\ MaxSeq \in Nat
  /\ Quota("prev") = PrevPackets /\ Quota("voice") = MaxVoice /\ Quota("end") = EndPackets
  /\ Senders = {"prev", "voice", "end"}
  BY OutgoingAssumption DEF MaxSeq, Quota, Senders

LEMMA InitIInv == Init => IInv
<1> SUFFICES ASSUME Init PROVE IInv
  OBVIOUS
<1> USE Constants
<1>1. TypeOK
  <2>1. <<>> \in Seq(Packets) /\ 0 \in 0 .. MaxSeq /\ 0 \in 0 .. MaxTalks
        /\ 0 \in 0 .. MaxStops
    OBVIOUS
  <2>2. Trigger!TypeOK
    BY DEF Init, Trigger!Init, Trigger!TypeOK
  <2>3. head \in 0 .. Len(written)
    BY DEF Init
  <2>4. /\ place \in [Senders -> {"idle", "taken", "stored", "accepted", "storing"}]
        /\ got \in [Senders -> 0 .. MaxSeq] /\ left \in [Senders -> 0 .. MaxSeq]
    BY <2>1 DEF Init, Nothing
  <2> QED
    BY <2>1, <2>2, <2>3, <2>4 DEF Init, TypeOK, Talks
<1>2. OwnerPlaces /\ QueueEnds /\ StrandedLate /\ SendersInside /\ QueueUsers /\ LookIsLive
  BY DEF Init, OwnerPlaces, QueueEnds, StrandedLate, SendersInside, QueueUsers, LookIsLive,
         Stopping, Deleting, Final, Trigger!Init, Senders
<1>3. EndsCounted
  <2>1. Ends(<<>>) = {}
    BY DEF Ends
  <2> QED
    BY <2>1, FS_EmptySet DEF Init, EndsCounted
<1>4. SeqCounted
  BY DEF Init, SeqCounted, Nothing
<1> QED
  BY <1>1, <1>2, <1>3, <1>4 DEF IInv
-----------------------------------------------------------------------------
(* The places of evMutex's holder, and the end of the queue *)

LEMMA OwnerPlacesKept == IInv /\ [Next]_vars => OwnerPlaces'
<1> SUFFICES ASSUME IInv, [Next]_vars PROVE OwnerPlaces'
  OBVIOUS
<1>0. TypeOK /\ OwnerPlaces /\ QueueEnds /\ SendersInside
  BY DEF IInv
<1>1. CASE Application
  <2>1. CASE Delegate
    BY <1>0, <2>1 DEF Delegate, TypeOK, OwnerPlaces, QueueEnds, Stopping, Deleting
  <2>2. CASE Register
    BY <1>0, <2>2 DEF Register, Fresh, TypeOK, OwnerPlaces, Stopping, Deleting
  <2>3. CASE Open
    BY <1>0, <2>3 DEF Open, TypeOK, OwnerPlaces, Stopping, Deleting
  <2>4. CASE StopRecordAsync
    BY <1>0, <2>4 DEF StopRecordAsync, TypeOK, OwnerPlaces, Stopping, Deleting
  <2> QED
    BY <1>1, <2>1, <2>2, <2>3, <2>4 DEF Application
<1>2. CASE Recording
  BY <1>0, <1>2 DEF Recording, AcquireRecorder, StartRecord, StartRecordFails, TypeOK,
     OwnerPlaces, SendersInside, Stopping, Deleting
<1>3. CASE Dispose \/ CloseWrite \/ Join
  <2>1. CASE Dispose
    BY <1>0, <2>1 DEF Dispose, TypeOK, OwnerPlaces, Stopping, Deleting
  <2>2. CASE CloseWrite
    BY <1>0, <2>2 DEF CloseWrite, TypeOK, OwnerPlaces, Stopping, Deleting
  <2>3. CASE Join
    BY <1>0, <2>3 DEF Join, TypeOK, OwnerPlaces, Stopping, Deleting
  <2> QED
    BY <1>3, <2>1, <2>2, <2>3
<1>4. CASE AsyncClose \/ AsyncCloseDecide \/ AsyncCloseArm
  <2>1. CASE AsyncClose
    BY <1>0, <2>1 DEF AsyncClose, Shut, TypeOK, OwnerPlaces, Stopping, Deleting
  <2>2. CASE AsyncCloseDecide
    BY <1>0, <2>2 DEF AsyncCloseDecide, Shut, TypeOK, OwnerPlaces, Stopping, Deleting
  <2>3. CASE AsyncCloseArm
    BY <1>0, <2>3 DEF AsyncCloseArm, TypeOK, OwnerPlaces, Stopping, Deleting
  <2> QED
    BY <1>4, <2>1, <2>2, <2>3
<1>5. CASE Destroy \/ FreeParts \/ Unregister \/ DeleteQueue \/ Forget
  <2>1. CASE Destroy
    BY <1>0, <2>1 DEF Destroy, TypeOK, OwnerPlaces, QueueEnds, Stopping, Deleting
  <2>2. CASE FreeParts
    BY <1>0, <2>2 DEF FreeParts, TypeOK, OwnerPlaces, Stopping, Deleting
  <2>3. CASE Unregister
    BY <1>0, <2>3 DEF Unregister, TypeOK, OwnerPlaces, Stopping, Deleting
  <2>4. CASE DeleteQueue
    BY <1>0, <2>4 DEF DeleteQueue, Fresh, TypeOK, OwnerPlaces, Stopping, Deleting
  <2>5. CASE Forget
    BY <1>0, <2>5 DEF Forget, TypeOK, OwnerPlaces, Stopping, Deleting
  <2> QED
    BY <1>5, <2>1, <2>2, <2>3, <2>4, <2>5
<1>6. ASSUME NEW s \in Senders, ReadSeq(s) \/ SendStep(s) PROVE OwnerPlaces'
  BY <1>0, <1>6 DEF ReadSeq, SendStep, StoreSeq, Accept, TestReadable, Push, OwnerPlaces
<1>7. CASE PrevEnds \/ LooperWake \/ LooperStep
  BY <1>0, <1>7 DEF PrevEnds, LooperWake, LooperStep, LooperWait, LooperPop, LooperTestEmpty,
     LooperTestWrite, LooperReturn, LooperDone, LooperNotify, Shut, OwnerPlaces, Stopping, Deleting
<1>8. CASE Timer
  <2>1. UNCHANGED <<owner, talks, unit, occupied>> /\ (~writtable => ~writtable')
        /\ (writtable => writtable' \/ spc \notin {"opening"})
    <3>1. CASE CloseTickShut
      BY <1>0, <3>1 DEF CloseTickShut, Shut, QueueEnds, OwnerPlaces
    <3>2. CASE CloseTickInc \/ CloseTickNotify
      BY <3>2 DEF CloseTickInc, CloseTickNotify
    <3> QED
      BY <1>8, <3>1, <3>2 DEF Timer
  <2> QED
    BY <1>0, <2>1 DEF OwnerPlaces
<1>9. CASE Look \/ UNCHANGED vars
  BY <1>0, <1>9 DEF Look, LookTest, LookFetch, LookAsk, OwnerPlaces
<1> QED
  BY <1>1, <1>2, <1>3, <1>4, <1>5, <1>6, <1>7, <1>8, <1>9 DEF Next, Step, Closing

LEMMA QueueEndsKept == IInv /\ [Next]_vars => QueueEnds'
<1> SUFFICES ASSUME IInv, [Next]_vars PROVE QueueEnds'
  OBVIOUS
<1> USE DEF Final
<1>0. TypeOK /\ OwnerPlaces /\ QueueEnds /\ SendersInside /\ QueueUsers
      /\ head \in Nat /\ head <= Len(written)
  BY DEF IInv, TypeOK
<1>1. CASE Application
  <2>1. CASE Register
    BY <2>1 DEF Register, Fresh, QueueEnds
  <2>2. CASE ~Register
    BY <1>0, <1>1, <2>2 DEF Application, Delegate, Open, StopRecordAsync, OwnerPlaces, QueueEnds
  <2> QED
    BY <2>1, <2>2
<1>2. CASE Recording
  BY <1>0, <1>2 DEF Recording, AcquireRecorder, StartRecord, StartRecordFails, OwnerPlaces,
     QueueEnds, TypeOK
<1>3. CASE Dispose \/ CloseWrite \/ Join
  <2>1. CASE Dispose
    BY <1>0, <2>1 DEF Dispose, OwnerPlaces, QueueEnds, TypeOK
  <2>2. CASE CloseWrite \/ Join
    BY <1>0, <2>2 DEF CloseWrite, Join, OwnerPlaces, QueueEnds, Stopping
  <2> QED
    BY <1>3, <2>1, <2>2
<1>4. CASE AsyncClose \/ AsyncCloseDecide \/ AsyncCloseArm
  BY <1>0, <1>4 DEF AsyncClose, AsyncCloseDecide, AsyncCloseArm, Shut, Drained, OwnerPlaces,
     QueueEnds, Stopping, Trigger!Unregister, Trigger!Register
<1>5. CASE Destroy \/ FreeParts \/ Unregister \/ DeleteQueue \/ Forget
  BY <1>0, <1>5 DEF Destroy, FreeParts, Unregister, DeleteQueue, Fresh, Forget, OwnerPlaces, QueueEnds,
     Deleting, Trigger!Unregister
<1>6. ASSUME NEW s \in Senders, ReadSeq(s) \/ SendStep(s) PROVE QueueEnds'
  BY <1>0, <1>6 DEF ReadSeq, SendStep, StoreSeq, Accept, TestReadable, Push, QueueEnds
<1>7. CASE PrevEnds \/ LooperWake \/ LooperStep
  BY <1>0, <1>7 DEF PrevEnds, LooperWake, LooperStep, LooperWait, LooperPop, LooperTestEmpty,
     LooperTestWrite, LooperReturn, LooperDone, LooperNotify, Shut, QueueEnds
<1>8. CASE Timer
  BY <1>0, <1>8 DEF Timer, CloseTickInc, CloseTickShut, CloseTickNotify, Shut, Drained,
     QueueEnds, Trigger!Tick
<1>9. CASE Look \/ UNCHANGED vars
  BY <1>0, <1>9 DEF Look, LookTest, LookFetch, LookAsk, QueueEnds
<1> QED
  BY <1>1, <1>2, <1>3, <1>4, <1>5, <1>6, <1>7, <1>8, <1>9 DEF Next, Step, Closing

\* A packet is late when the queue was found empty or the writing is shut.
LEMMA StrandedLateKept == IInv /\ [Next]_vars => StrandedLate'
<1> SUFFICES ASSUME IInv, [Next]_vars PROVE StrandedLate'
  OBVIOUS
<1>0. TypeOK /\ QueueEnds /\ StrandedLate /\ head \in Nat /\ Len(written) \in Nat
  BY DEF IInv, TypeOK
<1>1. ASSUME UNCHANGED <<written, head>>, status' = "CLOSED" => status = "CLOSED" \/ lpc = "emptied",
             lpc' = "emptied" => lpc = "emptied"
      PROVE  StrandedLate'
  BY <1>0, <1>1 DEF StrandedLate
<1>2. ASSUME UNCHANGED <<written, head>>, head = Len(written) PROVE StrandedLate'
  BY <1>0, <1>2 DEF StrandedLate
<1>3. CASE Register \/ DeleteQueue
  <2>1. written' = <<>> /\ head' = 0
    BY <1>3 DEF Register, DeleteQueue, Fresh
  <2>2. Len(written') = 0
    BY <2>1
  <2> QED
    BY <2>1, <2>2 DEF StrandedLate
<1>4. CASE AsyncCloseDecide \/ CloseTickShut
  <2>1. \/ head = Len(written)
        \/ status' = "CLOSED" => status = "CLOSED"
    BY <1>4 DEF AsyncCloseDecide, CloseTickShut, Shut, Drained
  <2>2. UNCHANGED <<written, head, lpc>>
    BY <1>4 DEF AsyncCloseDecide, CloseTickShut
  <2> QED
    BY <1>1, <1>2, <2>1, <2>2
<1>5. ASSUME NEW s \in Senders, Push(s) PROVE StrandedLate'
  <2> DEFINE pkt == [end |-> s = "end", late |-> lpc = "emptied" \/ ~writtable]
  <2>1. written' = Append(written, pkt) /\ UNCHANGED <<head, status, lpc>>
    BY <1>5 DEF Push
  <2>2. /\ Len(written') = Len(written) + 1 /\ written'[Len(written) + 1] = pkt
        /\ \A i \in 1 .. Len(written) : written'[i] = written[i]
    BY <1>0, <2>1 DEF TypeOK
  <2>3. status = "CLOSED" \/ lpc = "emptied" => pkt.late
    BY <1>0 DEF QueueEnds, Final
  <2> HIDE DEF pkt
  <2> QED
    BY <1>0, <2>1, <2>2, <2>3 DEF StrandedLate
<1>6. CASE LooperPop
  <2>1. /\ written' = written /\ head' \in {head, head + 1} /\ lpc' # "emptied" /\ status' = status
    BY <1>6 DEF LooperPop
  <2>2. \A i \in head' + 1 .. Len(written) : i \in head + 1 .. Len(written)
    <3>1. \A h, n \in Nat : \A i \in h + 1 + 1 .. n : i \in h + 1 .. n
      OBVIOUS
    <3> QED
      BY <1>0, <2>1, <3>1
  <2>3. status' = "CLOSED" => \A i \in head' + 1 .. Len(written) : written[i].late
    BY <1>0, <2>1, <2>2 DEF StrandedLate
  <2> QED
    BY <2>1, <2>3 DEF StrandedLate
<1>7. CASE LooperTestEmpty
  <2>1. UNCHANGED <<written, head, status>> /\ (head = Len(written) \/ lpc' # "emptied")
    BY <1>7 DEF LooperTestEmpty, LooperReturn
  <2> QED
    BY <1>1, <1>2, <2>1
<1>8. CASE LooperTestWrite
  <2>1. UNCHANGED <<written, head>> /\ lpc = "emptied" /\ lpc' # "emptied"
    BY <1>8 DEF LooperTestWrite, LooperReturn
  <2> QED
    BY <1>1, <2>1
<1>9. CASE \/ Delegate \/ Open \/ StopRecordAsync \/ Recording \/ Dispose \/ CloseWrite \/ Join
           \/ AsyncClose \/ AsyncCloseArm \/ Destroy \/ FreeParts \/ Unregister \/ Forget
  <2>1. UNCHANGED <<written, head, lpc>> /\ status' \in {status, "CLOSING", "READY"}
    BY <1>9 DEF Delegate, Open, StopRecordAsync, Recording, AcquireRecorder, StartRecord,
       StartRecordFails, Dispose, CloseWrite, Join, AsyncClose, AsyncCloseArm, Destroy,
       FreeParts, Unregister, Forget
  <2> QED
    BY <1>1, <2>1
<1>10. ASSUME NEW s \in Senders, ReadSeq(s) \/ StoreSeq(s) \/ Accept(s) \/ TestReadable(s)
       PROVE  StrandedLate'
  BY <1>1, <1>10 DEF ReadSeq, StoreSeq, Accept, TestReadable
<1>11. CASE \/ PrevEnds \/ LooperWake \/ LooperWait \/ LooperDone \/ LooperNotify
            \/ CloseTickInc \/ CloseTickNotify \/ Look \/ UNCHANGED vars
  <2>1. UNCHANGED <<written, head, status>> /\ (lpc' = "emptied" => lpc = "emptied")
    BY <1>11 DEF PrevEnds, LooperWake, LooperWait, LooperDone, LooperNotify, CloseTickInc,
       CloseTickNotify, Look, LookTest, LookFetch, LookAsk
  <2> QED
    BY <1>1, <2>1
<1> QED
  BY <1>3, <1>4, <1>5, <1>6, <1>7, <1>8, <1>9, <1>10, <1>11
  DEF Next, Step, Application, Closing, SendStep, LooperStep, Timer
-----------------------------------------------------------------------------
(* The users of the talk and of its queue *)

LEMMA SendersInsideKept == IInv /\ [Next]_vars => SendersInside'
<1> SUFFICES ASSUME IInv, [Next]_vars PROVE SendersInside'
  OBVIOUS
<1>0. TypeOK /\ OwnerPlaces /\ QueueEnds /\ SendersInside
  BY DEF IInv
<1>1. CASE Application
  <2>1. CASE Delegate
    BY <1>0, <2>1 DEF Delegate, TypeOK, OwnerPlaces, QueueEnds, SendersInside
  <2>2. CASE Register
    BY <1>0, <2>2 DEF Register, Fresh, TypeOK, OwnerPlaces, SendersInside
  <2>3. CASE Open
    BY <1>0, <2>3 DEF Open, TypeOK, OwnerPlaces, SendersInside
  <2>4. CASE StopRecordAsync
    BY <1>0, <2>4 DEF StopRecordAsync, TypeOK, OwnerPlaces, SendersInside
  <2> QED
    BY <1>1, <2>1, <2>2, <2>3, <2>4 DEF Application
<1>2. CASE Recording
  BY <1>0, <1>2 DEF Recording, AcquireRecorder, StartRecord, StartRecordFails, TypeOK,
     OwnerPlaces, QueueEnds, SendersInside, Stopping, Deleting
<1>3. CASE Dispose \/ CloseWrite \/ Join
  BY <1>0, <1>3 DEF Dispose, CloseWrite, Join, TypeOK, OwnerPlaces, SendersInside, Stopping, Deleting
<1>4. CASE AsyncClose \/ AsyncCloseDecide \/ AsyncCloseArm
  BY <1>0, <1>4 DEF AsyncClose, AsyncCloseDecide, AsyncCloseArm, Shut, TypeOK, OwnerPlaces,
     SendersInside, Stopping, Deleting
<1>5. CASE Destroy \/ FreeParts \/ Unregister \/ DeleteQueue \/ Forget
  BY <1>0, <1>5 DEF Destroy, FreeParts, Unregister, DeleteQueue, Fresh, Forget, TypeOK, OwnerPlaces, QueueEnds,
     SendersInside, Stopping, Deleting
<1>6. ASSUME NEW s \in Senders, ReadSeq(s) \/ SendStep(s) PROVE SendersInside'
  <2>1. /\ \A u \in Senders \ {s} : place'[u] = place[u]
        /\ place'[s] # "idle" => place[s] # "idle" \/ MaySend(s)
    BY <1>0, <1>6 DEF ReadSeq, SendStep, StoreSeq, Accept, TestReadable, Push, TypeOK
  <2>2. UNCHANGED <<prev, unit, occupied, spc, writtable, rec, srs>>
    BY <1>6 DEF ReadSeq, SendStep, StoreSeq, Accept, TestReadable, Push
  <2>3. \A u \in Senders : place'[u] # "idle" => place[u] # "idle" \/ MaySend(u)
    BY <2>1
  <2>4. \A u \in {"prev", "voice", "end"} : u \in Senders
    BY DEF Senders
  <2>5. /\ place'["prev"] # "idle" => place["prev"] # "idle" \/ prev # 0
        /\ place'["voice"] # "idle" => place["voice"] # "idle" \/ unit # 0
        /\ place'["end"] # "idle" => place["end"] # "idle" \/ (spc = "ending" /\ writtable)
    BY <2>3, <2>4 DEF MaySend
  <2> QED
    BY <1>0, <2>2, <2>5 DEF SendersInside
<1>7. CASE PrevEnds \/ LooperWake \/ LooperStep
  BY <1>0, <1>7 DEF PrevEnds, LooperWake, LooperStep, LooperWait, LooperPop, LooperTestEmpty,
     LooperTestWrite, LooperReturn, LooperDone, LooperNotify, Shut, SendersInside
<1>8. CASE Timer
  BY <1>0, <1>8 DEF Timer, CloseTickInc, CloseTickShut, CloseTickNotify, Shut, SendersInside,
     QueueEnds
<1>9. CASE Look \/ UNCHANGED vars
  BY <1>0, <1>9 DEF Look, LookTest, LookFetch, LookAsk, SendersInside
<1> QED
  BY <1>1, <1>2, <1>3, <1>4, <1>5, <1>6, <1>7, <1>8, <1>9 DEF Next, Step, Closing

LEMMA QueueUsersKept == IInv /\ [Next]_vars => QueueUsers'
<1> SUFFICES ASSUME IInv, [Next]_vars PROVE QueueUsers'
  OBVIOUS
<1>0. TypeOK /\ OwnerPlaces /\ QueueUsers /\ listed \subseteq {"close"}
  BY DEF IInv, TypeOK, Trigger!TypeOK
<1>1. CASE Application
  <2>1. CASE Register
    <3>1. rec = 0 /\ talks # 0
      BY <1>0, <2>1 DEF Register, Fresh, OwnerPlaces
    <3>2. sendIOQs = {} /\ lq = 0 /\ tq = 0
      BY <1>0, <2>1, <3>1 DEF Register, Fresh, QueueUsers, SqFree
    <3>3. rec' = talks /\ sendIOQs' = {talks} /\ UNCHANGED <<lq, tq>> /\ spc' = "opening"
      BY <2>1, <3>2 DEF Register, Fresh
    <3> QED
      BY <3>1, <3>2, <3>3 DEF QueueUsers
  <2>2. CASE ~Register
    BY <1>0, <1>1, <2>2 DEF Application, Delegate, Open, StopRecordAsync, OwnerPlaces, QueueUsers
  <2> QED
    BY <2>1, <2>2
<1>2. CASE Recording
  BY <1>0, <1>2 DEF Recording, AcquireRecorder, StartRecord, StartRecordFails, QueueUsers
<1>3. CASE Dispose \/ CloseWrite \/ Join
  BY <1>0, <1>3 DEF Dispose, CloseWrite, Join, QueueUsers
<1>4. CASE AsyncClose \/ AsyncCloseDecide \/ AsyncCloseArm
  BY <1>0, <1>4 DEF AsyncClose, AsyncCloseDecide, AsyncCloseArm, Shut, OwnerPlaces, QueueUsers,
     Trigger!Unregister, Trigger!Register
<1>5. CASE Destroy \/ FreeParts \/ Unregister \/ DeleteQueue \/ Forget
  BY <1>0, <1>5 DEF Destroy, FreeParts, Unregister, DeleteQueue, Fresh, Forget, OwnerPlaces, QueueUsers, SqFree,
     Trigger!Unregister
<1>6. ASSUME NEW s \in Senders, ReadSeq(s) \/ SendStep(s) PROVE QueueUsers'
  BY <1>0, <1>6 DEF ReadSeq, SendStep, StoreSeq, Accept, TestReadable, Push, QueueUsers
<1>7. CASE PrevEnds \/ LooperWake \/ LooperStep
  BY <1>0, <1>7 DEF PrevEnds, LooperWake, LooperStep, LooperWait, LooperPop, LooperTestEmpty,
     LooperTestWrite, LooperReturn, LooperDone, LooperNotify, Shut, QueueUsers
<1>8. CASE Timer
  BY <1>0, <1>8 DEF Timer, CloseTickInc, CloseTickShut, CloseTickNotify, Shut, QueueUsers,
     Trigger!Tick
<1>9. CASE Look \/ UNCHANGED vars
  BY <1>0, <1>9 DEF Look, LookTest, LookFetch, LookAsk, QueueUsers
<1> QED
  BY <1>1, <1>2, <1>3, <1>4, <1>5, <1>6, <1>7, <1>8, <1>9 DEF Next, Step, Closing

\* Only DeleteQueue takes the talk away, and it tells the look's history.
LEMMA LookIsLiveKept == IInv /\ [Next]_vars => LookIsLive'
<1> SUFFICES ASSUME IInv, [Next]_vars PROVE LookIsLive'
  OBVIOUS
<1>0. TypeOK /\ OwnerPlaces /\ LookIsLive
  BY DEF IInv
<1>1. ASSUME UNCHANGED <<look, seen, deletedSince, rec>>,
             spc' \in {"registering", "opening", "forgetting"} => spc' = spc \/ rec = 0
      PROVE  LookIsLive'
  BY <1>0, <1>1 DEF LookIsLive
<1>2. CASE Delegate \/ Open \/ StopRecordAsync \/ Recording
  BY <1>0, <1>1, <1>2 DEF Delegate, Open, StopRecordAsync, Recording, AcquireRecorder,
     StartRecord, StartRecordFails
<1>3. CASE Register \/ Forget
  <2>1. UNCHANGED <<look, seen, deletedSince>> /\ spc \in {"registering", "forgetting"}
    BY <1>3 DEF Register, Forget
  <2> QED
    BY <1>0, <2>1 DEF LookIsLive
<1>4. CASE DeleteQueue
  BY <1>4 DEF DeleteQueue, LookIsLive
<1>5. CASE \/ Dispose \/ CloseWrite \/ Join \/ AsyncClose \/ AsyncCloseDecide \/ AsyncCloseArm
           \/ Destroy \/ FreeParts \/ Unregister
  <2>1. UNCHANGED <<look, seen, deletedSince, rec>>
    BY <1>5 DEF Dispose, CloseWrite, Join, AsyncClose, AsyncCloseDecide, AsyncCloseArm, Destroy,
       FreeParts, Unregister
  <2>2. spc' \notin {"registering", "opening", "forgetting"}
    BY <1>5 DEF Dispose, CloseWrite, Join, AsyncClose, AsyncCloseDecide, AsyncCloseArm, Destroy,
       FreeParts, Unregister
  <2> QED
    BY <1>1, <2>1, <2>2
<1>6. ASSUME NEW s \in Senders, ReadSeq(s) \/ SendStep(s) PROVE LookIsLive'
  BY <1>1, <1>6 DEF ReadSeq, SendStep, StoreSeq, Accept, TestReadable, Push
<1>7. CASE PrevEnds \/ LooperWake \/ LooperStep \/ Timer \/ UNCHANGED vars
  <2>1. UNCHANGED <<look, seen, deletedSince, rec, spc>>
    BY <1>7 DEF PrevEnds, LooperWake, LooperStep, LooperWait, LooperPop, LooperTestEmpty,
       LooperTestWrite, LooperReturn, LooperDone, LooperNotify, Timer, CloseTickInc,
       CloseTickShut, CloseTickNotify
  <2> QED
    BY <1>1, <2>1
<1>8. CASE Look
  <2>1. CASE LookTest
    BY <1>0, <2>1 DEF LookTest, Pointer, LookIsLive, TypeOK
  <2>2. CASE LookFetch
    BY <1>0, <2>2 DEF LookFetch, Pointer, LookIsLive, TypeOK
  <2>3. CASE LookAsk
    BY <1>0, <2>3 DEF LookAsk, LookIsLive, TypeOK
  <2> QED
    BY <1>8, <2>1, <2>2, <2>3 DEF Look
<1> QED
  BY <1>2, <1>3, <1>4, <1>5, <1>6, <1>7, <1>8 DEF Next, Step, Application, Closing
-----------------------------------------------------------------------------
(* The end packets *)

LEMMA EndsOfAppend ==
  ASSUME NEW S, NEW s \in Seq(S), NEW p \in S
  PROVE  /\ Cardinality(Ends(s)) \in Nat
         /\ Cardinality(Ends(Append(s, p))) =
              IF p.end THEN Cardinality(Ends(s)) + 1 ELSE Cardinality(Ends(s))
<1>1. /\ Len(s) \in Nat /\ Len(Append(s, p)) = Len(s) + 1
      /\ Append(s, p)[Len(s) + 1] = p
      /\ \A i \in 1 .. Len(s) : Append(s, p)[i] = s[i]
  OBVIOUS
<1>2. IsFiniteSet(Ends(s)) /\ Cardinality(Ends(s)) \in Nat
  <2>1. IsFiniteSet(1 .. Len(s))
    <3>1. 1 \in Int /\ Len(s) \in Int
      BY <1>1
    <3> QED
      BY <3>1, FS_Interval, Zenon
  <2>2. Ends(s) \subseteq 1 .. Len(s)
    BY DEF Ends
  <2> QED
    BY <2>1, <2>2, FS_Subset, FS_CardinalityType
<1>3. Ends(Append(s, p)) = IF p.end THEN Ends(s) \cup {Len(s) + 1} ELSE Ends(s)
  BY <1>1 DEF Ends
<1>4. Len(s) + 1 \notin Ends(s)
  BY <1>1 DEF Ends
<1> QED
  BY <1>2, <1>3, <1>4, FS_AddElement

\* What leaves the written packets, the switch of writing and the end's own
\* count alone.
LEMMA EndsUnchanged ==
  ASSUME EndsCounted, UNCHANGED <<written, writtable>>,
         writtable => (spc' = "ending" <=> spc = "ending"),
         writtable /\ spc = "ending" => left'["end"] = left["end"]
  PROVE  EndsCounted'
<1>1. Ends(written)' = Ends(written)
  BY DEF Ends
<1> QED
  BY <1>1 DEF EndsCounted

LEMMA EndsCountedKept == IInv /\ [Next]_vars => EndsCounted'
<1> SUFFICES ASSUME IInv, [Next]_vars PROVE EndsCounted'
  OBVIOUS
<1> USE Constants
<1>0. TypeOK /\ OwnerPlaces /\ QueueEnds /\ SendersInside /\ EndsCounted
  BY DEF IInv
<1>1. CASE Register \/ DeleteQueue
  <2>1. Ends(<<>>) = {}
    BY DEF Ends
  <2>2. written' = <<>> /\ writtable' /\ spc' # "ending"
    BY <1>1 DEF Register, DeleteQueue, Fresh
  <2> QED
    BY <2>1, <2>2, FS_EmptySet DEF EndsCounted
<1>2. CASE Delegate \/ Open \/ StopRecordAsync \/ Recording
  BY <1>0, <1>2, EndsUnchanged DEF Delegate, Open, StopRecordAsync, Recording,
     AcquireRecorder, StartRecord, StartRecordFails, TypeOK, OwnerPlaces
<1>3. CASE Dispose
  <2>1. left'["end"] = EndPackets /\ spc' = "ending" /\ UNCHANGED <<written, writtable>>
    BY <1>0, <1>3 DEF Dispose, TypeOK
  <2>2. Ends(written)' = Ends(written) /\ spc # "ending"
    BY <1>0, <1>3, <2>1 DEF Ends, Dispose, TypeOK
  <2> QED
    BY <1>0, <2>1, <2>2 DEF EndsCounted
<1>4. CASE CloseWrite
  <2>1. spc = "ending" /\ ~writtable' /\ (left["end"] = 0 \/ ~writtable) /\ UNCHANGED written
    BY <1>4 DEF CloseWrite
  <2>2. Ends(written)' = Ends(written)
    BY <2>1 DEF Ends
  <2> QED
    BY <1>0, <2>1, <2>2 DEF EndsCounted
<1>5. CASE Join \/ AsyncClose \/ AsyncCloseDecide \/ AsyncCloseArm \/ Destroy \/ FreeParts
           \/ Unregister \/ Forget
  <2>1. spc # "ending" /\ spc' # "ending" /\ UNCHANGED written /\ UNCHANGED writtable
    BY <1>0, <1>5 DEF Join, AsyncClose, AsyncCloseDecide, AsyncCloseArm, Destroy, FreeParts,
       Unregister, Forget, Shut, Drained, OwnerPlaces, Stopping, Deleting, TypeOK
  <2> QED
    BY <1>0, <2>1, EndsUnchanged
<1>6. ASSUME NEW s \in Senders, ReadSeq(s) \/ StoreSeq(s) PROVE EndsCounted'
  BY <1>0, <1>6, EndsUnchanged DEF ReadSeq, StoreSeq
<1>7. ASSUME NEW s \in Senders, Accept(s) \/ TestReadable(s) PROVE EndsCounted'
  <2>1. /\ UNCHANGED <<written, writtable, spc>>
        /\ s # "end" => left'["end"] = left["end"]
    BY <1>0, <1>7 DEF Accept, TestReadable, TypeOK
  <2>2. s = "end" => writtable /\ readable
    BY <1>0, <1>7 DEF Accept, TestReadable, TypeOK, SendersInside, QueueEnds, OwnerPlaces
  <2>3. s = "end" => left' = left
    BY <1>7, <2>2 DEF Accept, TestReadable
  <2> QED
    BY <1>0, <2>1, <2>3, EndsUnchanged
<1>8. ASSUME NEW s \in Senders, Push(s) PROVE EndsCounted'
  <2> DEFINE pkt == [end |-> s = "end", late |-> lpc = "emptied" \/ ~writtable]
  <2>1. /\ place[s] = "storing" /\ UNCHANGED <<writtable, spc>>
        /\ left' = [left EXCEPT ![s] = @ - 1]
        /\ written' = Append(written, pkt)
    BY <1>8 DEF Push
  <2>2. s # "end" => left'["end"] = left["end"]
    BY <1>0, <2>1 DEF TypeOK
  <2>3. s = "end" => spc = "ending" /\ writtable /\ left'["end"] = left["end"] - 1
    BY <1>0, <2>1 DEF TypeOK, SendersInside
  <2>4. /\ Cardinality(Ends(written)) \in Nat
        /\ Cardinality(Ends(written')) = IF s = "end" THEN Cardinality(Ends(written)) + 1
                                         ELSE Cardinality(Ends(written))
    <3>1. /\ written \in Seq(Packets)
          /\ pkt \in Packets
      BY <1>0 DEF TypeOK, Packets
    <3>2. pkt.end = (s = "end")
      OBVIOUS
    <3> HIDE Constants DEF pkt
    <3> QED
      BY <2>1, <3>1, <3>2, EndsOfAppend
  <2>5. left["end"] \in Nat
    BY <1>0 DEF TypeOK
  <2> QED
    BY <1>0, <2>1, <2>2, <2>3, <2>4, <2>5 DEF EndsCounted
<1>9. CASE PrevEnds \/ LooperWake \/ LooperStep \/ Timer
  <2>1. UNCHANGED <<written, spc, writtable>> /\ left'["end"] = left["end"]
    BY <1>0, <1>9 DEF PrevEnds, LooperWake, LooperStep, LooperWait, LooperPop, LooperTestEmpty,
       LooperTestWrite, LooperReturn, LooperDone, LooperNotify, Timer, CloseTickInc,
       CloseTickShut, CloseTickNotify, Shut, QueueEnds,
       TypeOK
  <2> QED
    BY <1>0, <2>1, EndsUnchanged
<1>10. CASE Look \/ UNCHANGED vars
  <2>1. UNCHANGED <<written, left, spc, writtable>>
    BY <1>10 DEF Look, LookTest, LookFetch, LookAsk
  <2> QED
    BY <1>0, <2>1, EndsUnchanged
<1> QED
  BY <1>1, <1>2, <1>3, <1>4, <1>5, <1>6, <1>7, <1>8, <1>9, <1>10
  DEF Next, Step, Application, Closing, SendStep
-----------------------------------------------------------------------------
(* The sequence numbers *)

\* No sender has sent more than its quota, nor all of it while it holds a
\* number that is not stored.
LEMMA SentBounds ==
  ASSUME TypeOK, SeqCounted
  PROVE  \A s \in Senders :
           /\ left[s] \in Nat /\ Sent(s) \in Nat /\ Sent(s) <= Quota(s)
           /\ place[s] = "taken" => Sent(s) + 1 <= Quota(s)
<1> SUFFICES ASSUME NEW s \in Senders
             PROVE  /\ left[s] \in Nat /\ Sent(s) \in Nat /\ Sent(s) <= Quota(s)
                    /\ place[s] = "taken" => Sent(s) + 1 <= Quota(s)
  OBVIOUS
<1>1. left[s] \in Nat /\ left[s] <= Quota(s) /\ (place[s] # "idle" => left[s] > 0)
  BY Constants DEF TypeOK, SeqCounted
<1>2. Quota(s) \in Nat
  BY Constants
<1> QED
  BY <1>1, <1>2 DEF Sent

LEMMA UsedBounds ==
  ASSUME TypeOK, SeqCounted
  PROVE  /\ PrevUsed \in Nat /\ VoiceUsed \in Nat /\ EndUsed \in Nat
         /\ Used \in Nat /\ Used <= MaxSeq
<1>1. "prev" \in Senders /\ "voice" \in Senders /\ "end" \in Senders
  BY Constants
<1>2. /\ Sent("prev") \in Nat /\ Sent("prev") <= PrevPackets
      /\ Sent("voice") \in Nat /\ Sent("voice") <= MaxVoice
      /\ Sent("end") \in Nat /\ Sent("end") <= EndPackets
  BY <1>1, SentBounds, Constants
<1>3. /\ PrevUsed \in Nat /\ PrevUsed <= PrevPackets
      /\ VoiceUsed \in Nat /\ VoiceUsed <= MaxVoice
      /\ EndUsed \in Nat /\ EndUsed <= EndPackets
  BY <1>2, Constants DEF PrevUsed, VoiceUsed, EndUsed
<1> QED
  BY <1>3, Constants DEF Used

\* Nobody sends: the count only grows, with what the states of the talk and of
\* the queue say of it, or when a sender gives up what it has left.
LEMMA SeqOfOthers ==
  ASSUME TypeOK, SeqCounted, UNCHANGED <<seq, got, place>>,
         \A s \in Senders : left'[s] = left[s] \/ (left'[s] = 0 /\ place[s] = "idle"),
         rec' # 0 => /\ rec # 0
                     /\ srs' = srs \/ srs' \in {"STOPING", "STOPED"}
                     /\ writtable' => writtable /\ (spc' = "ending" <=> spc = "ending")
  PROVE  SeqCounted'
<1>1. \A s \in Senders : left'[s] \in Nat /\ left'[s] <= left[s] /\ left[s] <= Quota(s)
                         /\ left[s] \in Nat /\ Quota(s) \in Nat
  BY Constants, SentBounds DEF SeqCounted
<1>2. \A s \in Senders : Sent(s)' \in Nat /\ Sent(s) <= Sent(s)' /\ Sent(s) \in Nat
  BY <1>1, SentBounds DEF Sent
<1>3. "prev" \in Senders /\ "voice" \in Senders /\ "end" \in Senders
  BY Constants
<1>4. rec' # 0 => Used <= Used' /\ Used' \in Int
  <2> SUFFICES ASSUME rec' # 0 PROVE Used <= Used' /\ Used' \in Int
    OBVIOUS
  <2>1. /\ Sent("prev")' \in Nat /\ Sent("voice")' \in Nat /\ Sent("end")' \in Nat
        /\ Sent("prev") <= Sent("prev")' /\ Sent("voice") <= Sent("voice")'
        /\ Sent("end") <= Sent("end")'
        /\ Sent("prev") \in Nat /\ Sent("voice") \in Nat
        /\ Sent("end") \in Nat /\ Sent("end") <= EndPackets
    BY <1>2, <1>3, SentBounds, Constants
  <2>2. PrevUsed <= PrevUsed' /\ PrevUsed' \in Nat
    BY <2>1 DEF PrevUsed
  <2>3. VoiceUsed <= VoiceUsed' /\ VoiceUsed' \in Nat
    BY <2>1 DEF VoiceUsed
  <2>4. EndUsed <= EndUsed' /\ EndUsed' \in Nat
    BY <2>1, Constants DEF EndUsed
  <2> QED
    BY <2>2, <2>3, <2>4, UsedBounds DEF Used
<1>5. seq \in Nat /\ Used \in Nat /\ \A s \in Senders : got[s] \in Nat
  BY Constants, UsedBounds DEF TypeOK
<1>6. \A s \in Senders : left'[s] <= Quota(s) /\ (place'[s] # "idle" => left'[s] > 0)
  BY <1>1 DEF SeqCounted
<1> QED
  BY <1>4, <1>5, <1>6 DEF SeqCounted

\* A sender's own step: its quota, its place and the number it holds.
LEMMA SeqOfSenders ==
  ASSUME IInv, NEW s \in Senders, ReadSeq(s) \/ SendStep(s)
  PROVE  SeqCounted'
<1>0. TypeOK /\ OwnerPlaces /\ SendersInside /\ SeqCounted
  BY DEF IInv
<1>1. UNCHANGED <<rec, srs, spc, writtable>>
  BY DEF ReadSeq, SendStep, StoreSeq, Accept, TestReadable, Push
<1>2. /\ left[s] \in Nat /\ left[s] > 0 /\ left[s] <= Quota(s) /\ Quota(s) \in Nat
      /\ seq \in Nat /\ \A u \in Senders : got[u] \in Nat
  <2>1. left[s] > 0
    BY <1>0 DEF SeqCounted, MaySend, ReadSeq, SendStep, StoreSeq, Accept, TestReadable, Push
  <2>2. left[s] \in Nat /\ Quota(s) \in Nat /\ left[s] <= Quota(s)
    BY <1>0, Constants DEF TypeOK, SeqCounted
  <2>3. seq \in Nat /\ \A u \in Senders : got[u] \in Nat
    BY <1>0, Constants DEF TypeOK
  <2> QED
    BY <2>1, <2>2, <2>3
<1>3. /\ \A u \in Senders \ {s} : left'[u] = left[u] /\ place'[u] = place[u] /\ got'[u] = got[u]
      /\ \/ /\ ReadSeq(s) /\ place[s] = "idle" /\ place'[s] = "taken" /\ left'[s] = left[s]
            /\ got'[s] = seq /\ seq' = seq
         \/ /\ StoreSeq(s) /\ place[s] = "taken" /\ place'[s] = "stored" /\ left'[s] = left[s]
            /\ got'[s] = 0 /\ seq' = got[s] + 1
         \/ /\ place[s] \in {"stored", "accepted"} /\ place'[s] \in {"accepted", "storing"}
            /\ left'[s] = left[s] /\ got'[s] = got[s] /\ seq' = seq
         \/ /\ place[s] \in {"stored", "accepted", "storing"} /\ place'[s] = "idle" /\ left'[s] = left[s] - 1
            /\ got'[s] = got[s] /\ seq' = seq
  <2> USE DEF TypeOK
  <2>1. CASE ReadSeq(s)
    BY <1>0, <2>1 DEF ReadSeq, MaySend
  <2>2. CASE StoreSeq(s)
    BY <1>0, <2>2 DEF StoreSeq
  <2>3. CASE Accept(s)
    BY <1>0, <2>3 DEF Accept
  <2>4. CASE TestReadable(s)
    BY <1>0, <2>4 DEF TestReadable
  <2>5. CASE Push(s)
    BY <1>0, <2>5 DEF Push
  <2> QED
    BY <2>1, <2>2, <2>3, <2>4, <2>5 DEF SendStep
<1>4. \A u \in Senders : left'[u] <= Quota(u) /\ (place'[u] # "idle" => left'[u] > 0)
  BY <1>0, <1>2, <1>3 DEF SeqCounted
<1>5. \A u \in Senders \ {s} : Sent(u)' = Sent(u)
  BY <1>3 DEF Sent
<1>6. Sent(s)' = IF StoreSeq(s) THEN Sent(s) + 1 ELSE Sent(s)
  BY <1>2, <1>3 DEF Sent, StoreSeq
<1>7. \A u \in Senders : Sent(u) \in Nat
  BY <1>0, SentBounds
<1>8. "prev" \in Senders /\ "voice" \in Senders /\ "end" \in Senders
  BY Constants
<1>9. CASE ~StoreSeq(s)
  <2>1. Used' = Used
    BY <1>1, <1>5, <1>6, <1>8, <1>9 DEF Used, PrevUsed, VoiceUsed, EndUsed
  <2> QED
    BY <1>0, <1>1, <1>3, <1>4, <1>9, <2>1 DEF SeqCounted
<1>10. CASE StoreSeq(s)
  <2>1. place[s] = "taken"
    BY <1>10 DEF StoreSeq
  <2>2. rec # 0 /\ got[s] <= Used
    BY <1>0, <2>1, Constants DEF SeqCounted, SendersInside, OwnerPlaces, TypeOK
  <2>3. Used' = Used + 1
    <3>1. CASE s = "prev"
      <4>1. srs # "INVALID"
        BY <1>0, <2>1, <2>2, <3>1 DEF SendersInside, OwnerPlaces
      <4> QED
        BY <1>0, <1>1, <1>5, <1>6, <1>7, <1>8, <1>10, <3>1, <4>1, UsedBounds
        DEF Used, PrevUsed, VoiceUsed, EndUsed
    <3>2. CASE s = "voice"
      <4>1. srs \notin {"INVALID", "WAITING"}
        BY <1>0, <2>1, <3>2 DEF SendersInside
      <4> QED
        BY <1>0, <1>1, <1>5, <1>6, <1>7, <1>8, <1>10, <3>2, <4>1, UsedBounds
        DEF Used, PrevUsed, VoiceUsed, EndUsed
    <3>3. CASE s = "end"
      <4>1. writtable /\ spc = "ending"
        BY <1>0, <2>1, <3>3 DEF SendersInside
      <4> QED
        BY <1>0, <1>1, <1>5, <1>6, <1>7, <1>8, <1>10, <3>3, <4>1, UsedBounds
        DEF Used, PrevUsed, VoiceUsed, EndUsed
    <3> QED
      BY <3>1, <3>2, <3>3 DEF Senders
  <2>4. seq' = got[s] + 1 /\ Used \in Nat
    BY <1>0, <1>10, UsedBounds DEF StoreSeq
  <2>5. \A u \in Senders : place'[u] = "taken" => place[u] = "taken" /\ got'[u] = got[u]
    BY <1>3, <1>10, <2>1
  <2> QED
    BY <1>0, <1>1, <1>2, <1>4, <2>2, <2>3, <2>4, <2>5 DEF SeqCounted
<1> QED
  BY <1>9, <1>10

\* The steps that give a sender its quota, of which it has sent nothing yet, and
\* the deletion.
LEMMA SeqOfQuotas ==
  ASSUME IInv, Register \/ DeleteQueue \/ Open \/ StartRecord \/ Dispose
  PROVE  SeqCounted'
<1> USE Constants
<1>0. TypeOK /\ OwnerPlaces /\ SendersInside /\ SeqCounted
  BY DEF IInv
<1>1. /\ "prev" \in Senders /\ "voice" \in Senders /\ "end" \in Senders
      /\ Used \in Nat /\ seq \in Nat /\ (\A s \in Senders : got[s] \in Nat)
      /\ PrevUsed \in Nat /\ VoiceUsed \in Nat /\ EndUsed \in Nat
      /\ \A s \in Senders : Sent(s) \in Nat /\ Sent(s) <= Quota(s)
  BY <1>0, SentBounds, UsedBounds DEF TypeOK
<1>2. CASE Register
  <2>1. \A s \in Senders : place[s] = "idle"
    BY <1>0, <1>2 DEF Register, Fresh, OwnerPlaces, SendersInside
  <2>2. /\ srs' = "INVALID" /\ writtable' /\ spc' = "opening" /\ seq' = 0
        /\ left' = Nothing /\ place' = place
    BY <1>2 DEF Register, Fresh
  <2>3. Used' = 0
    BY <2>2 DEF Used, PrevUsed, VoiceUsed, EndUsed
  <2> QED
    BY <2>1, <2>2, <2>3 DEF SeqCounted, Nothing
<1>3. CASE Open
  <2>1. /\ place["prev"] = "idle" /\ srs = "INVALID" /\ srs' = "WAITING" /\ writtable
        /\ spc = "opening" /\ spc' = "idle" /\ rec # 0 /\ rec' = rec
        /\ UNCHANGED <<seq, got, place, writtable>>
        /\ left'["prev"] = PrevPackets /\ \A s \in Senders \ {"prev"} : left'[s] = left[s]
    BY <1>0, <1>3 DEF Open, OwnerPlaces, SendersInside, TypeOK
  <2>2. Sent("prev")' = 0
    BY <2>1 DEF Sent
  <2>3. Used' = Used
    BY <2>1, <2>2 DEF Used, PrevUsed, VoiceUsed, EndUsed
  <2> QED
    BY <1>0, <2>1, <2>3 DEF SeqCounted
<1>4. CASE StartRecord
  <2>1. /\ place["voice"] = "idle" /\ srs = "WAITING" /\ srs' = "RECORING"
        /\ spc = "starting" /\ spc' = "idle" /\ rec # 0 /\ rec' = rec
        /\ UNCHANGED <<seq, got, place, writtable>>
        /\ left'["voice"] = MaxVoice /\ \A s \in Senders \ {"voice"} : left'[s] = left[s]
    BY <1>0, <1>4 DEF StartRecord, OwnerPlaces, SendersInside, TypeOK
  <2>2. Sent("voice")' = 0 /\ Sent("prev")' = Sent("prev")
    BY <1>1, <2>1 DEF Sent
  <2>3. Used' = Used
    BY <1>1, <2>1, <2>2 DEF Used, PrevUsed, VoiceUsed, EndUsed
  <2> QED
    BY <1>0, <2>1, <2>3 DEF SeqCounted
<1>5. CASE Dispose
  <2>1. /\ place["end"] = "idle" /\ srs = "STOPING" /\ srs' = "STOPED"
        /\ spc = "idle" /\ spc' = "ending" /\ rec # 0 /\ rec' = rec
        /\ UNCHANGED <<seq, got, place, writtable>>
        /\ left'["end"] = EndPackets /\ left'["prev"] = left["prev"] /\ left'["voice"] = 0
        /\ place["voice"] = "idle"
    BY <1>0, <1>5 DEF Dispose, OwnerPlaces, SendersInside, TypeOK
  <2>2. /\ Sent("end")' = 0 /\ Sent("prev")' = Sent("prev") /\ Sent("voice")' = MaxVoice
        /\ Sent("voice") <= MaxVoice
    BY <1>1, <2>1 DEF Sent
  <2>3. Used' \in Nat /\ Used <= Used'
    BY <1>1, <2>1, <2>2 DEF Used, PrevUsed, VoiceUsed, EndUsed
  <2>4. \A s \in Senders : left'[s] <= Quota(s) /\ (place'[s] # "idle" => left'[s] > 0)
    BY <1>0, <2>1 DEF SeqCounted
  <2> QED
    BY <1>0, <1>1, <2>1, <2>3, <2>4 DEF SeqCounted
<1>6. CASE DeleteQueue
  <2>1. \A s \in Senders : place[s] = "idle"
    BY <1>0, <1>6 DEF DeleteQueue, OwnerPlaces, SendersInside, Deleting
  <2>2. /\ writtable' /\ spc' = "forgetting" /\ seq' = 0
        /\ left' = Nothing /\ got' = Nothing /\ place' = place
    BY <1>6 DEF DeleteQueue, Fresh
  <2>3. \A s \in Senders : Sent(s)' \in Nat
    BY <2>1, <2>2 DEF Sent, Nothing
  <2>4. Used' \in Nat
    BY <1>1, <2>2, <2>3 DEF Used, PrevUsed, VoiceUsed, EndUsed
  <2> QED
    BY <2>1, <2>2, <2>4 DEF SeqCounted, Nothing
<1> QED
  BY <1>2, <1>3, <1>4, <1>5, <1>6

LEMMA SeqCountedKept == IInv /\ [Next]_vars => SeqCounted'
<1> SUFFICES ASSUME IInv, [Next]_vars PROVE SeqCounted'
  OBVIOUS
<1>0. TypeOK /\ OwnerPlaces /\ QueueEnds /\ SeqCounted
  BY DEF IInv
<1>1. CASE Delegate \/ StopRecordAsync \/ AcquireRecorder \/ StartRecordFails
  <2>1. CASE Delegate
    BY <1>0, <2>1, SeqOfOthers DEF Delegate, TypeOK
  <2>2. CASE StopRecordAsync
    BY <1>0, <2>2, SeqOfOthers DEF StopRecordAsync, TypeOK
  <2>3. CASE AcquireRecorder
    BY <1>0, <2>3, SeqOfOthers DEF AcquireRecorder, TypeOK
  <2>4. CASE StartRecordFails
    BY <1>0, <2>4, SeqOfOthers DEF StartRecordFails, TypeOK
  <2> QED
    BY <1>1, <2>1, <2>2, <2>3, <2>4
<1>2. CASE CloseWrite \/ Join \/ AsyncClose \/ AsyncCloseDecide \/ AsyncCloseArm
  <2>1. CASE CloseWrite
    <3>1. /\ \A s \in Senders : left'[s] = left[s] \/ (left'[s] = 0 /\ place[s] = "idle")
          /\ writtable' = FALSE /\ UNCHANGED <<seq, got, place, rec, srs>>
      BY <1>0, <2>1 DEF CloseWrite, TypeOK
    <3> QED
      BY <1>0, <3>1, SeqOfOthers
  <2>2. CASE Join
    BY <1>0, <2>2, SeqOfOthers DEF Join
  <2>3. CASE AsyncClose
    BY <1>0, <2>3, SeqOfOthers DEF AsyncClose, Shut
  <2>4. CASE AsyncCloseDecide
    BY <1>0, <2>4, SeqOfOthers DEF AsyncCloseDecide, Shut
  <2>5. CASE AsyncCloseArm
    BY <1>0, <2>5, SeqOfOthers DEF AsyncCloseArm
  <2> QED
    BY <1>2, <2>1, <2>2, <2>3, <2>4, <2>5
<1>3. CASE Destroy \/ FreeParts \/ Unregister \/ Forget
  <2>1. CASE Destroy
    BY <1>0, <2>1, SeqOfOthers DEF Destroy, TypeOK
  <2>2. CASE FreeParts
    BY <1>0, <2>2, SeqOfOthers DEF FreeParts, TypeOK
  <2>3. CASE Unregister
    BY <1>0, <2>3, SeqOfOthers DEF Unregister, TypeOK
  <2>4. CASE Forget
    BY <1>0, <2>4, SeqOfOthers DEF Forget, TypeOK
  <2> QED
    BY <1>3, <2>1, <2>2, <2>3, <2>4
<1>4. CASE LooperWake \/ LooperStep \/ Timer \/ Look
  <2>1. UNCHANGED <<seq, got, left, place, rec, srs, spc>> /\ (writtable' => writtable)
    BY <1>0, <1>4 DEF LooperWake, LooperStep, LooperWait, LooperPop, LooperTestEmpty,
       LooperTestWrite, LooperReturn, LooperDone, LooperNotify, Timer, CloseTickInc,
       CloseTickShut, CloseTickNotify, Shut, Look, LookTest, LookFetch, LookAsk
  <2> QED
    BY <1>0, <2>1, SeqOfOthers
<1>5. CASE PrevEnds
  <2>1. /\ \A s \in Senders : left'[s] = left[s] \/ (left'[s] = 0 /\ place[s] = "idle")
        /\ UNCHANGED <<seq, got, place, rec, srs, spc, writtable>>
    BY <1>0, <1>5 DEF PrevEnds, TypeOK
  <2> QED
    BY <1>0, <2>1, SeqOfOthers
<1>6. CASE UNCHANGED vars
  BY <1>0, <1>6, SeqOfOthers
<1> QED
  BY <1>1, <1>2, <1>3, <1>4, <1>5, <1>6, SeqOfSenders, SeqOfQuotas
  DEF Next, Step, Application, Recording, Closing
-----------------------------------------------------------------------------
(* Type correctness *)

\* TypeOK by the parts of the state that change together.
TalkTyped ==
  /\ rec \in 0 .. MaxTalks
  /\ srs \in {"INVALID", "WAITING", "RECORING", "STOPING", "STOPED"}
  /\ hold \in {"none", "sched", "app"}
  /\ spc \in {"idle", "registering", "opening", "starting", "ending", "joining", "closing",
              "deciding", "arming", "freeing", "unregistering", "deleting", "forgetting"}
  /\ hold = "none" <=> spc = "idle"
  /\ talks \in 0 .. MaxTalks /\ stops \in 0 .. MaxStops

QueueTyped ==
  /\ readable \in BOOLEAN /\ writtable \in BOOLEAN
  /\ status \in {"READY", "CLOSING"} \cup Final
  /\ written \in Seq(Packets)
  /\ head \in 0 .. Len(written)

SendersTyped ==
  /\ seq \in 0 .. MaxSeq
  /\ place \in [Senders -> {"idle", "taken", "stored", "accepted", "storing"}]
  /\ got \in [Senders -> 0 .. MaxSeq]
  /\ left \in [Senders -> 0 .. MaxSeq]
  /\ prev \in 0 .. MaxTalks /\ unit \in 0 .. MaxTalks /\ occupied \in BOOLEAN

UsersTyped ==
  /\ sendIOQs \subseteq Talks
  /\ lpc \in {"top", "waiting", "walking", "popped", "emptied", "notifying"}
  /\ lq \in 0 .. MaxTalks /\ tq \in 0 .. MaxTalks
  /\ woken \in BOOLEAN /\ data \in BOOLEAN
  /\ look \in {"idle", "tested", "fetched"}
  /\ seen \in 0 .. MaxTalks
  /\ deletedSince \in BOOLEAN /\ crashed \in BOOLEAN

LEMMA TypeOf == TypeOK => TalkTyped /\ QueueTyped /\ SendersTyped /\ UsersTyped /\ Trigger!TypeOK
  BY DEF TypeOK, TalkTyped, QueueTyped, SendersTyped, UsersTyped

LEMMA TalkTypedKept == IInv /\ [Next]_vars => TalkTyped'
<1> SUFFICES ASSUME IInv, [Next]_vars PROVE TalkTyped'
  OBVIOUS
<1>0. TalkTyped
  BY TypeOf DEF IInv
<1>1. CASE Application
  <2>1. CASE Delegate
    <3>1. talks + 1 \in 0 .. MaxTalks
      BY <1>0, <2>1, Constants DEF Delegate, TalkTyped
    <3> QED
      BY <1>0, <2>1, <3>1 DEF Delegate, TalkTyped
  <2>2. CASE Register
    BY <1>0, <2>2 DEF Register, TalkTyped
  <2>3. CASE Open
    BY <1>0, <2>3 DEF Open, TalkTyped
  <2>4. CASE StopRecordAsync
    <3>1. stops + 1 \in 0 .. MaxStops
      BY <1>0, <2>4, Constants DEF StopRecordAsync, TalkTyped
    <3> QED
      BY <1>0, <2>4, <3>1 DEF StopRecordAsync, TalkTyped
  <2> QED
    BY <1>1, <2>1, <2>2, <2>3, <2>4 DEF Application
<1>2. CASE Recording
  BY <1>0, <1>2 DEF Recording, AcquireRecorder, StartRecord, StartRecordFails, TalkTyped
<1>3. CASE Dispose \/ CloseWrite \/ Join \/ AsyncClose
  BY <1>0, <1>3 DEF Dispose, CloseWrite, Join, AsyncClose, TalkTyped
<1>4. CASE AsyncCloseDecide
  BY <1>0, <1>4 DEF AsyncCloseDecide, TalkTyped
<1>5. CASE AsyncCloseArm \/ Destroy \/ FreeParts \/ Unregister \/ DeleteQueue
  BY <1>0, <1>5 DEF AsyncCloseArm, Destroy, FreeParts, Unregister, DeleteQueue, TalkTyped
<1>6. CASE Forget
  <2>1. 0 \in 0 .. MaxTalks
    BY Constants
  <2> QED
    BY <1>0, <1>6, <2>1 DEF Forget, TalkTyped
<1>7. ASSUME NEW s \in Senders, ReadSeq(s) \/ SendStep(s) PROVE TalkTyped'
  BY <1>0, <1>7 DEF ReadSeq, SendStep, StoreSeq, Accept, TestReadable, Push, TalkTyped
<1>8. CASE PrevEnds \/ LooperWake \/ LooperStep \/ Timer \/ Look \/ UNCHANGED vars
  <2>1. UNCHANGED <<owner, calls>>
    BY <1>8 DEF PrevEnds, LooperWake, LooperStep, LooperWait, LooperPop, LooperTestEmpty,
       LooperTestWrite, LooperReturn, LooperDone, LooperNotify, Timer, CloseTickInc,
       CloseTickShut, CloseTickNotify, Look, LookTest, LookFetch, LookAsk
  <2> QED
    BY <1>0, <2>1 DEF TalkTyped
<1> QED
  BY <1>1, <1>2, <1>3, <1>4, <1>5, <1>6, <1>7, <1>8 DEF Next, Step, Closing

LEMMA QueueTypedKept == IInv /\ [Next]_vars => QueueTyped'
<1> SUFFICES ASSUME IInv, [Next]_vars PROVE QueueTyped'
  OBVIOUS
<1>0. QueueTyped
  BY TypeOf DEF IInv
<1>1. CASE Register \/ DeleteQueue
  <2>1. /\ readable' = FALSE /\ writtable' = TRUE /\ status' = "READY" /\ written' = <<>> /\ head' = 0
    BY <1>1 DEF Register, DeleteQueue, Fresh
  <2>2. <<>> \in Seq(Packets) /\ 0 \in 0 .. Len(<<>>)
    OBVIOUS
  <2> QED
    BY <2>1, <2>2 DEF QueueTyped
<1>2. CASE Open \/ CloseWrite \/ AsyncCloseDecide \/ AsyncCloseArm \/ CloseTickShut \/ LooperTestWrite
  <2>1. UNCHANGED <<written, head>>
    BY <1>2 DEF Open, CloseWrite, AsyncCloseDecide, AsyncCloseArm, CloseTickShut, LooperTestWrite
  <2>2. readable' \in BOOLEAN /\ writtable' \in BOOLEAN /\ status' \in {"READY", "CLOSING"} \cup Final
    BY <1>0, <1>2 DEF Open, CloseWrite, AsyncCloseDecide, AsyncCloseArm, CloseTickShut,
       LooperTestWrite, Shut, QueueTyped, Final
  <2> QED
    BY <1>0, <2>1, <2>2 DEF QueueTyped
<1>3. ASSUME NEW s \in Senders, Push(s) PROVE QueueTyped'
  <2> DEFINE pkt == [end |-> s = "end", late |-> lpc = "emptied" \/ ~writtable]
  <2>1. pkt \in Packets
    BY DEF Packets
  <2>2. written' = Append(written, pkt) /\ UNCHANGED <<head, readable, writtable, status>>
    BY <1>3 DEF Push
  <2>3. written' \in Seq(Packets) /\ Len(written') = Len(written) + 1
    BY <1>0, <2>1, <2>2 DEF QueueTyped
  <2>4. head' \in 0 .. Len(written')
    BY <1>0, <2>2, <2>3 DEF QueueTyped
  <2> QED
    BY <1>0, <2>2, <2>3, <2>4 DEF QueueTyped
<1>4. CASE LooperPop
  <2>1. UNCHANGED <<written, readable, writtable, status>>
    BY <1>4 DEF LooperPop
  <2>2. head' \in 0 .. Len(written)
    BY <1>0, <1>4 DEF LooperPop, QueueTyped
  <2> QED
    BY <1>0, <2>1, <2>2 DEF QueueTyped
<1>5. CASE \/ Delegate \/ StopRecordAsync \/ Recording \/ Dispose \/ Join \/ AsyncClose \/ Destroy
           \/ FreeParts \/ Unregister \/ Forget
  <2>1. UNCHANGED ioq
    BY <1>5 DEF Delegate, StopRecordAsync, Recording, AcquireRecorder, StartRecord,
       StartRecordFails, Dispose, Join, AsyncClose, Destroy, FreeParts, Unregister, Forget
  <2> QED
    BY <1>0, <2>1 DEF QueueTyped
<1>6. ASSUME NEW s \in Senders, ReadSeq(s) \/ StoreSeq(s) \/ Accept(s) \/ TestReadable(s)
      PROVE  QueueTyped'
  BY <1>0, <1>6 DEF ReadSeq, StoreSeq, Accept, TestReadable, QueueTyped
<1>7. CASE \/ PrevEnds \/ LooperWake \/ LooperWait \/ LooperTestEmpty \/ LooperDone \/ LooperNotify
           \/ CloseTickInc \/ CloseTickNotify \/ Look \/ UNCHANGED vars
  <2>1. UNCHANGED ioq
    BY <1>7 DEF PrevEnds, LooperWake, LooperWait, LooperTestEmpty, LooperReturn, LooperDone,
       LooperNotify, CloseTickInc, CloseTickNotify, Look, LookTest, LookFetch, LookAsk
  <2> QED
    BY <1>0, <2>1 DEF QueueTyped
<1> QED
  BY <1>1, <1>2, <1>3, <1>4, <1>5, <1>6, <1>7
  DEF Next, Step, Application, Closing, SendStep, LooperStep, Timer

LEMMA TriggerTypedKept == IInv /\ [Next]_vars => Trigger!TypeOK'
<1> SUFFICES ASSUME IInv, [Next]_vars PROVE Trigger!TypeOK'
  OBVIOUS
<1> USE DEF Trigger!TypeOK
<1>0. Trigger!TypeOK
  BY TypeOf DEF IInv
<1>1. CASE Register \/ DeleteQueue
  BY <1>1, Constants DEF Register, DeleteQueue, Fresh
<1>2. CASE AsyncClose
  BY <1>0, <1>2 DEF AsyncClose, Trigger!Unregister
<1>3. CASE AsyncCloseArm
  <2>1. 0 \in 0 .. CloseTicks
    BY Constants
  <2> QED
    BY <1>0, <1>3, <2>1 DEF AsyncCloseArm, Trigger!Register
<1>4. CASE CloseTickInc
  <2>1. /\ count["close"] \in 0 .. CloseTicks /\ count["close"] < CloseTicks
        /\ count' = [count EXCEPT !["close"] = count["close"] + 1] /\ listed' = listed
    BY <1>0, <1>4 DEF CloseTickInc, Trigger!Tick, Trigger!Counted
  <2>2. count["close"] + 1 \in 0 .. CloseTicks
    BY <2>1, Constants
  <2> QED
    BY <1>0, <2>1, <2>2
<1>5. CASE CloseTickNotify
  BY <1>0, <1>5 DEF CloseTickNotify, Trigger!Tick, Trigger!Counted
<1>6. CASE \/ Delegate \/ Open \/ StopRecordAsync \/ Recording \/ Dispose \/ CloseWrite \/ Join
           \/ AsyncCloseDecide \/ Destroy \/ FreeParts \/ Unregister \/ Forget
  <2>1. UNCHANGED <<listed, count>>
    BY <1>6 DEF Delegate, Open, StopRecordAsync, Recording, AcquireRecorder, StartRecord,
       StartRecordFails, Dispose, CloseWrite, Join, AsyncCloseDecide, Destroy, FreeParts,
       Unregister, Forget
  <2> QED
    BY <1>0, <2>1
<1>7. ASSUME NEW s \in Senders, ReadSeq(s) \/ SendStep(s) PROVE Trigger!TypeOK'
  BY <1>0, <1>7 DEF ReadSeq, SendStep, StoreSeq, Accept, TestReadable, Push
<1>8. CASE PrevEnds \/ LooperWake \/ LooperStep \/ CloseTickShut \/ Look \/ UNCHANGED vars
  <2>1. UNCHANGED <<listed, count>>
    BY <1>8 DEF PrevEnds, LooperWake, LooperStep, LooperWait, LooperPop, LooperTestEmpty,
       LooperTestWrite, LooperReturn, LooperDone, LooperNotify, CloseTickShut, Look, LookTest,
       LookFetch, LookAsk
  <2> QED
    BY <1>0, <2>1
<1> QED
  BY <1>1, <1>2, <1>3, <1>4, <1>5, <1>6, <1>7, <1>8
  DEF Next, Step, Application, Closing, Timer

LEMMA SendersTypedKept == IInv /\ SeqCounted' /\ [Next]_vars => SendersTyped'
<1> SUFFICES ASSUME IInv, SeqCounted', [Next]_vars PROVE SendersTyped'
  OBVIOUS
<1>0. TypeOK /\ OwnerPlaces /\ SendersInside /\ SeqCounted /\ SendersTyped /\ TalkTyped
  BY TypeOf DEF IInv
<1>1. /\ 0 \in 0 .. MaxSeq /\ 0 \in 0 .. MaxTalks
      /\ PrevPackets \in 0 .. MaxSeq /\ MaxVoice \in 0 .. MaxSeq /\ EndPackets \in 0 .. MaxSeq
  BY Constants
<1>2. CASE Register \/ DeleteQueue
  BY <1>0, <1>1, <1>2 DEF Register, DeleteQueue, Fresh, Nothing, SendersTyped
<1>3. CASE Open \/ PrevEnds \/ CloseWrite
  <2>1. CASE Open
    BY <1>0, <1>1, <2>1 DEF Open, SendersTyped, TalkTyped
  <2>2. CASE PrevEnds
    BY <1>0, <1>1, <2>2 DEF PrevEnds, SendersTyped
  <2>3. CASE CloseWrite
    BY <1>0, <1>1, <2>3 DEF CloseWrite, SendersTyped
  <2> QED
    BY <1>3, <2>1, <2>2, <2>3
<1>4. CASE Recording \/ Dispose
  <2>1. CASE Recording
    BY <1>0, <1>1, <2>1 DEF Recording, AcquireRecorder, StartRecord, StartRecordFails,
       SendersTyped, TalkTyped
  <2>2. CASE Dispose
    <3>1. left' \in [Senders -> 0 .. MaxSeq]
      BY <1>0, <1>1, <2>2 DEF Dispose, SendersTyped
    <3> QED
      BY <1>0, <1>1, <2>2, <3>1 DEF Dispose, SendersTyped
  <2> QED
    BY <1>4, <2>1, <2>2
<1>5. ASSUME NEW s \in Senders,
             ReadSeq(s) \/ StoreSeq(s) \/ Accept(s) \/ TestReadable(s) \/ Push(s)
      PROVE  SendersTyped'
  <2>1. /\ place' \in [Senders -> {"idle", "taken", "stored", "accepted", "storing"}]
        /\ got' \in [Senders -> 0 .. MaxSeq]
    BY <1>0, <1>1, <1>5 DEF SendersTyped, ReadSeq, StoreSeq, Accept, TestReadable, Push
  <2>2. left' \in [Senders -> 0 .. MaxSeq]
    <3>1. UNCHANGED left \/ (left[s] > 0 /\ left' = [left EXCEPT ![s] = @ - 1])
      BY <1>0, <1>5 DEF SeqCounted, ReadSeq, StoreSeq, Accept, TestReadable, Push
    <3>2. left[s] > 0 => left[s] - 1 \in 0 .. MaxSeq
      BY <1>0, Constants DEF SendersTyped
    <3> QED
      BY <1>0, <3>1, <3>2 DEF SendersTyped
  <2>3. seq' \in 0 .. MaxSeq
    <3>1. CASE StoreSeq(s)
      <4>1. rec' # 0 /\ seq' = got[s] + 1 /\ got[s] \in Nat
        BY <1>0, <3>1, Constants DEF StoreSeq, SendersInside, OwnerPlaces, TypeOK
      <4>2. seq' <= Used'
        BY <4>1 DEF SeqCounted
      <4>4. Used' \in Nat /\ Used' <= MaxSeq
        <5>1. \A u \in Senders : left'[u] \in Nat /\ left'[u] <= Quota(u)
                                 /\ (place'[u] # "idle" => left'[u] > 0)
          BY <2>2, Constants DEF SeqCounted
        <5>2. \A u \in Senders : Sent(u)' \in Nat /\ Sent(u)' <= Quota(u)
          BY <5>1, Constants DEF Sent
        <5>3. "prev" \in Senders /\ "voice" \in Senders /\ "end" \in Senders
          BY Constants
        <5>4. /\ PrevUsed' \in Nat /\ PrevUsed' <= PrevPackets
              /\ VoiceUsed' \in Nat /\ VoiceUsed' <= MaxVoice
              /\ EndUsed' \in Nat /\ EndUsed' <= EndPackets
          BY <5>2, <5>3, Constants DEF PrevUsed, VoiceUsed, EndUsed
        <5>5. Used' = PrevUsed' + VoiceUsed' + EndUsed'
          BY DEF Used
        <5>6. \A a, b, c \in Nat : a <= PrevPackets /\ b <= MaxVoice /\ c <= EndPackets
                => a + b + c \in Nat /\ a + b + c <= MaxSeq
          BY OutgoingAssumption DEF MaxSeq
        <5> QED
          BY <5>4, <5>5, <5>6
      <4> QED
        BY <4>1, <4>2, <4>4, Constants
    <3>2. CASE ~StoreSeq(s)
      BY <1>0, <1>5, <3>2 DEF SendersTyped, ReadSeq, Accept, TestReadable, Push
    <3> QED
      BY <3>1, <3>2
  <2>4. UNCHANGED <<prev, unit, occupied>>
    BY <1>5 DEF ReadSeq, StoreSeq, Accept, TestReadable, Push
  <2> QED
    BY <1>0, <2>1, <2>2, <2>3, <2>4 DEF SendersTyped
<1>6. CASE \/ Delegate \/ StopRecordAsync \/ Join \/ AsyncClose \/ AsyncCloseDecide \/ AsyncCloseArm
           \/ Destroy \/ FreeParts \/ Unregister \/ Forget
  <2>1. UNCHANGED <<sender, prev, device>>
    BY <1>6 DEF Delegate, StopRecordAsync, Join, AsyncClose, AsyncCloseDecide, AsyncCloseArm,
       Destroy, FreeParts, Unregister, Forget
  <2> QED
    BY <1>0, <2>1 DEF SendersTyped
<1>7. CASE LooperWake \/ LooperStep \/ Timer \/ Look \/ UNCHANGED vars
  <2>1. UNCHANGED <<sender, prev, device>>
    BY <1>7 DEF LooperWake, LooperStep, LooperWait, LooperPop, LooperTestEmpty,
       LooperTestWrite, LooperReturn, LooperDone, LooperNotify, Timer, CloseTickInc,
       CloseTickShut, CloseTickNotify, Look, LookTest, LookFetch, LookAsk
  <2> QED
    BY <1>0, <2>1 DEF SendersTyped
<1> QED
  BY <1>2, <1>3, <1>4, <1>5, <1>6, <1>7 DEF Next, Step, Application, Closing, SendStep

LEMMA UsersTypedKept == IInv /\ [Next]_vars => UsersTyped'
<1> SUFFICES ASSUME IInv, [Next]_vars PROVE UsersTyped'
  OBVIOUS
<1>0. UsersTyped /\ TalkTyped /\ OwnerPlaces
  BY TypeOf DEF IInv
<1>1. 0 \in 0 .. MaxTalks /\ Talks \subseteq 0 .. MaxTalks
  BY Constants DEF Talks
<1>2. CASE Register
  <2>1. talks \in Talks
    BY <1>0, <1>2, Constants DEF Register, OwnerPlaces, TalkTyped, Talks
  <2> QED
    BY <1>0, <1>2, <2>1 DEF Register, UsersTyped
<1>3. CASE Unregister
  BY <1>0, <1>3 DEF Unregister, UsersTyped
<1>4. CASE AsyncCloseDecide
  <2>1. woken' \in BOOLEAN /\ UNCHANGED <<sendIOQs, lpc, lq, tq, data, looker>>
    BY <1>0, <1>4 DEF AsyncCloseDecide, Signal, UsersTyped
  <2> QED
    BY <1>0, <2>1 DEF UsersTyped
<1>5. ASSUME NEW s \in Senders, ReadSeq(s) \/ SendStep(s) PROVE UsersTyped'
  <2>1. woken' \in BOOLEAN /\ UNCHANGED <<sendIOQs, lpc, lq, tq, data, looker>>
    BY <1>0, <1>5 DEF ReadSeq, SendStep, StoreSeq, Accept, TestReadable, Push, Signal, UsersTyped
  <2> QED
    BY <1>0, <2>1 DEF UsersTyped
<1>6. CASE LooperWake \/ LooperStep
  <2>1. lq' \in sendIOQs \cup {0, lq}
    BY <1>6 DEF LooperWake, LooperStep, LooperWait, LooperPop, LooperTestEmpty,
       LooperTestWrite, LooperReturn, LooperDone, LooperNotify
  <2>2. woken' \in BOOLEAN /\ data' \in BOOLEAN
    <3>1. CASE LooperPop
      BY <1>0, <3>1 DEF LooperPop, UsersTyped
    <3>2. CASE LooperTestEmpty
      <4>1. woken' = woken /\ (data' = data \/ data' = FALSE)
        BY <3>2 DEF LooperTestEmpty, LooperReturn
      <4> QED
        BY <1>0, <4>1 DEF UsersTyped
    <3>3. CASE LooperTestWrite
      <4>1. woken' = woken /\ data' = FALSE
        BY <3>3 DEF LooperTestWrite, LooperReturn
      <4> QED
        BY <1>0, <4>1 DEF UsersTyped
    <3>4. CASE LooperWake \/ LooperWait \/ LooperDone \/ LooperNotify
      BY <1>0, <3>4 DEF LooperWake, LooperWait, LooperDone, LooperNotify, UsersTyped
    <3> QED
      BY <1>6, <3>1, <3>2, <3>3, <3>4 DEF LooperStep
  <2>3. lpc' \in {"top", "waiting", "walking", "popped", "emptied", "notifying"}
    BY <1>6 DEF LooperWake, LooperStep, LooperWait, LooperPop, LooperTestEmpty,
       LooperTestWrite, LooperReturn, LooperDone, LooperNotify
  <2>4. UNCHANGED <<sendIOQs, tq, looker>>
    BY <1>6 DEF LooperWake, LooperStep, LooperWait, LooperPop, LooperTestEmpty,
       LooperTestWrite, LooperReturn, LooperDone, LooperNotify
  <2>5. lq' \in 0 .. MaxTalks
    BY <1>0, <1>1, <2>1 DEF UsersTyped
  <2> QED
    BY <1>0, <2>2, <2>3, <2>4, <2>5 DEF UsersTyped
<1>7. CASE Timer
  <2>1. /\ tq' \in {tq, rec, 0} /\ woken' \in BOOLEAN
        /\ UNCHANGED <<sendIOQs, lpc, lq, data, looker>>
    BY <1>0, <1>7 DEF Timer, CloseTickInc, CloseTickShut, CloseTickNotify, Signal, UsersTyped
  <2>2. tq' \in 0 .. MaxTalks
    BY <1>0, <1>1, <2>1 DEF UsersTyped, TalkTyped
  <2> QED
    BY <1>0, <2>1, <2>2 DEF UsersTyped
<1>8. CASE Look \/ DeleteQueue
  <2>1. Pointer \in 0 .. MaxTalks
    BY <1>0, <1>1 DEF Pointer, TalkTyped
  <2>2. UNCHANGED <<sendIOQs, lpc, lq, tq, woken, data>>
    BY <1>8 DEF Look, LookTest, LookFetch, LookAsk, DeleteQueue
  <2>3. CASE LookTest \/ DeleteQueue
    BY <1>0, <2>2, <2>3 DEF LookTest, DeleteQueue, UsersTyped
  <2>4. CASE LookFetch
    BY <1>0, <2>1, <2>2, <2>4 DEF LookFetch, UsersTyped
  <2>5. CASE LookAsk
    <3>1. look' \in {"tested", "idle"} /\ seen' = 0 /\ deletedSince' \in BOOLEAN
      BY <1>0, <2>5 DEF LookAsk, UsersTyped
    <3>2. crashed' \in BOOLEAN
      BY <1>0, <2>5 DEF LookAsk, UsersTyped
    <3> QED
      BY <1>0, <1>1, <2>2, <3>1, <3>2 DEF UsersTyped
  <2> QED
    BY <1>8, <2>3, <2>4, <2>5 DEF Look
<1>9. CASE \/ Delegate \/ Open \/ StopRecordAsync \/ Recording \/ Dispose \/ CloseWrite \/ Join
           \/ AsyncClose \/ AsyncCloseArm \/ Destroy \/ FreeParts \/ Forget \/ PrevEnds
           \/ UNCHANGED vars
  <2>1. UNCHANGED <<sendIOQs, tq, looper, looker>>
    BY <1>9 DEF Delegate, Open, StopRecordAsync, Recording, AcquireRecorder, StartRecord,
       StartRecordFails, Dispose, CloseWrite, Join, AsyncClose, AsyncCloseArm, Destroy, FreeParts,
       Forget, PrevEnds
  <2> QED
    BY <1>0, <2>1 DEF UsersTyped
<1> QED
  BY <1>2, <1>3, <1>4, <1>5, <1>6, <1>7, <1>8, <1>9 DEF Next, Step, Application, Closing

LEMMA NextTypeOK == IInv /\ SeqCounted' /\ [Next]_vars => TypeOK'
<1> SUFFICES ASSUME IInv, SeqCounted', [Next]_vars PROVE TypeOK'
  OBVIOUS
<1>1. TalkTyped' /\ QueueTyped' /\ SendersTyped' /\ UsersTyped' /\ Trigger!TypeOK'
  BY TalkTypedKept, QueueTypedKept, SendersTypedKept, UsersTypedKept, TriggerTypedKept
<1> QED
  BY <1>1 DEF TypeOK, TalkTyped, QueueTyped, SendersTyped, UsersTyped
-----------------------------------------------------------------------------
(* What holds of every talk *)

LEMMA NextIInv == IInv /\ [Next]_vars => IInv'
  BY NextTypeOK, OwnerPlacesKept, QueueEndsKept, StrandedLateKept, SendersInsideKept, QueueUsersKept,
     LookIsLiveKept, EndsCountedKept, SeqCountedKept DEF IInv

\* The invariant of a talk's threads, locks and packets holds always.
THEOREM Inductive == Spec => []IInv
  BY InitIInv, NextIInv, PTL DEF Spec

\* Every variable keeps its type: the queue is never read past its end, and no
\* sequence number passes the number of packets, lost updates included.
THEOREM TypeCorrect == Spec => []TypeOK
<1>1. IInv => TypeOK
  BY DEF IInv
<1> QED
  BY <1>1, Inductive, PTL

\* Nobody who works for a talk outlives it: the preamble thread is joined, the
\* recorder stopped and the queue taken away from the send looper and from the
\* timer before what they use is freed.  The unlocked look at recSource meets a
\* pointer to nothing only if a talk was deleted since it began.
THEOREM UsersOutlivedHolds == Spec => []UsersOutlived
<1>1. IInv => UsersOutlived
  <2> SUFFICES ASSUME IInv PROVE UsersOutlived
    OBVIOUS
  <2>0. TypeOK /\ OwnerPlaces /\ SendersInside /\ QueueUsers /\ LookIsLive
    BY DEF IInv
  <2>1. spc \in {"unregistering", "deleting"} => ~writtable
    BY <2>0 DEF OwnerPlaces, Deleting
  <2>2. prev # 0 => prev = rec /\ ~PartsFreed
    BY <2>0, <2>1 DEF SendersInside, PartsFreed
  <2>3. unit # 0 => unit = rec /\ ~PartsFreed
    BY <2>0, <2>1 DEF SendersInside, PartsFreed
  <2>4. place["end"] # "idle" => ~PartsFreed
    BY <2>0 DEF SendersInside, OwnerPlaces, PartsFreed
  <2>5. \A s \in Senders : place[s] # "idle" => ~PartsFreed
    BY <2>0, <2>2, <2>3, <2>4 DEF SendersInside, Senders
  <2>6. /\ lq # 0 => lq = Alive
        /\ sendIOQs \subseteq {Alive}
        /\ tq # 0 => tq = Alive
    BY <2>0 DEF QueueUsers, Alive
  <2>7. look = "fetched" /\ seen # Alive => deletedSince
    BY <2>0 DEF LookIsLive, Alive
  <2> QED
    BY <2>2, <2>3, <2>5, <2>6, <2>7 DEF UsersOutlived
<1> QED
  BY <1>1, Inductive, PTL

\* The recorder belongs to the talk that records, or to the start of one.
THEOREM RecorderReturnedHolds == Spec => []RecorderReturned
<1>1. IInv => RecorderReturned
  BY DEF IInv, OwnerPlaces, SendersInside, RecorderReturned
<1> QED
  BY <1>1, Inductive, PTL

\* A queue that closed without a timeout was given every end packet, and has sent
\* everything but what was pushed between a read's two tests or after the
\* writing was shut.
THEOREM CleanCloseSentTheEndHolds == Spec => []CleanCloseSentTheEnd
<1>1. IInv => CleanCloseSentTheEnd
  <2> SUFFICES ASSUME IInv, status = "CLOSED"
               PROVE  /\ \A i \in head + 1 .. Len(written) : written[i].late
                      /\ Cardinality({i \in 1 .. Len(written) : written[i].end}) = EndPackets
    BY DEF CleanCloseSentTheEnd
  <2>1. ~writtable /\ \A i \in head + 1 .. Len(written) : written[i].late
    BY DEF IInv, QueueEnds, StrandedLate, Final
  <2>2. Cardinality(Ends(written)) = EndPackets
    BY <2>1 DEF IInv, EndsCounted
  <2> QED
    BY <2>1, <2>2 DEF Ends
<1> QED
  BY <1>1, Inductive, PTL
=============================================================================
