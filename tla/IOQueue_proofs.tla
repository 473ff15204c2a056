--------------------------- MODULE IOQueue_proofs ---------------------------
(***************************************************************************)
(* Safety of IOQueue for every number of writers, every timeout and every  *)
(* bound.                                                                  *)
(***************************************************************************)
EXTENDS IOQueue, TLAPS

\* Before openRead nothing can have closed, armed or read the queue.
UnopenedIsQuiet ==
  ~opened => /\ ~readable
             /\ status = "READY"
             /\ rpc = "idle" /\ opc = "idle" /\ tpc = "idle"
             /\ listed = {}
             /\ writeStatus \notin {"TIMEOUT_WAITING", "TIMEOUT"}

FinalIsShut == status \in Final => ~readable /\ ~writtable

ExpiredIsUnreadable ==
  writeStatus \in {"TIMEOUT_WAITING", "TIMEOUT"} => ~readable

\* A reader that has found the buffer empty can only have been overtaken.
EmptyIsOvertaken == rpc = "empty" => Stored \subseteq raced

IInv ==
  /\ TypeOK
  /\ UnopenedIsQuiet
  /\ FinalIsShut
  /\ ExpiredIsUnreadable
  /\ EmptyIsOvertaken
  /\ StrandedOnlyByRace
  /\ ClosingIsTimed

-----------------------------------------------------------------------------
\* A push adds one identity to the stored ones.
LEMMA StoredAppend ==
  ASSUME NEW q \in Seq(Data), NEW d \in Data
  PROVE  {Append(q, d)[i].id : i \in DOMAIN Append(q, d)}
           \subseteq {q[i].id : i \in DOMAIN q} \cup {d.id}
  <1>1. /\ DOMAIN Append(q, d) = 1 .. Len(q) + 1
        /\ DOMAIN q = 1 .. Len(q)
        /\ Len(q) \in Nat
    OBVIOUS
  <1>2. \A i \in 1 .. Len(q) : Append(q, d)[i] = q[i]
    OBVIOUS
  <1>3. Append(q, d)[Len(q) + 1] = d
    OBVIOUS
  <1>4. ASSUME NEW i \in DOMAIN Append(q, d)
        PROVE  Append(q, d)[i].id \in {q[j].id : j \in DOMAIN q} \cup {d.id}
    <2>1. CASE i = Len(q) + 1
      BY <1>3, <2>1
    <2>2. CASE i # Len(q) + 1
      <3>1. i \in DOMAIN q /\ Append(q, d)[i] = q[i]
        BY <1>1, <1>2, <2>2
      <3> QED
        BY <3>1
    <2> QED
      BY <2>1, <2>2
  <1> QED
    BY <1>4

\* A pop leaves a part of them.
LEMMA StoredTail ==
  ASSUME NEW q \in Seq(Data), q # <<>>
  PROVE  {Tail(q)[i].id : i \in DOMAIN Tail(q)} \subseteq {q[i].id : i \in DOMAIN q}
  <1>1. ASSUME NEW i \in DOMAIN Tail(q)
        PROVE  i + 1 \in DOMAIN q /\ Tail(q)[i] = q[i + 1]
    BY <1>1
  <1> QED
    BY <1>1
-----------------------------------------------------------------------------
(* Type correctness *)

USE DEF vars, switches, timers, writing, owning, history

LEMMA TickBoundType == TickBound \in Nat
  BY IOQueueAssumption DEF TickBound

LEMMA InitTypeOK == Init => TypeOK
  <1> SUFFICES ASSUME Init PROVE TypeOK
    OBVIOUS
  <1>1. Trigger!TypeOK
    BY TickBoundType DEF Init, Trigger!Init, Trigger!TypeOK
  <1>2. 0 \in 0 .. MaxData /\ 0 \in 0 .. MaxCloses
    BY IOQueueAssumption
  <1>3. buffer \in Seq(Data)
    BY DEF Init
  <1>4. /\ readable \in BOOLEAN /\ writtable \in BOOLEAN /\ dirty \in BOOLEAN
        /\ opened \in BOOLEAN /\ forced \in BOOLEAN
    BY Zenon DEF Init
  <1>5. /\ wpc \in [Writers -> {"idle", "accepted", "storing", "stored"}]
        /\ wdata \in [Writers -> Data \cup {NoDatum}]
        /\ \A w \in Writers : wpc[w] # "idle" => wdata[w] \in Data
        /\ raced \subseteq 1 .. MaxData
    BY DEF Init
  <1> QED
    BY <1>1, <1>2, <1>3, <1>4, <1>5 DEF Init, TypeOK, Final

\* What the timer does to its two counters keeps their types.
LEMMA TickTypes ==
  ASSUME Trigger!TypeOK, NEW w \in Counters
  PROVE  /\ Trigger!Register(w) => Trigger!TypeOK'
         /\ Trigger!Unregister(w) => Trigger!TypeOK'
         /\ \A answer \in {"RESET", "INC", "RELASE"} :
              Trigger!Tick(w, answer) => Trigger!TypeOK'
  <1> USE TickBoundType DEF Trigger!TypeOK
  <1>1. Trigger!Register(w) => Trigger!TypeOK'
    BY DEF Trigger!Register
  <1>2. Trigger!Unregister(w) => Trigger!TypeOK'
    BY DEF Trigger!Unregister
  <1>3. ASSUME NEW answer \in {"RESET", "INC", "RELASE"}, Trigger!Tick(w, answer)
        PROVE  Trigger!TypeOK'
    <2>1. Trigger!Counted(count[w], answer) \in 0 .. TickBound
      BY <1>3 DEF Trigger!Tick, Trigger!Counted
    <2> QED
      BY <1>3, <2>1 DEF Trigger!Tick
  <1> QED
    BY <1>1, <1>2, <1>3

\* Type correctness in three parts, for steps that leave most of it alone.
SwitchTypes ==
  /\ readable \in BOOLEAN /\ writtable \in BOOLEAN /\ dirty \in BOOLEAN
  /\ opened \in BOOLEAN /\ forced \in BOOLEAN

StageTypes ==
  /\ status \in {"READY", "CLOSING"} \cup Final
  /\ writeStatus \in {"WRITING", "TIMEOUT_WAITING", "END", "TIMEOUT"}
  /\ writeMax \in {WriteTicks, WriteTicksNext}
  /\ rpc \in {"idle", "popped", "empty"}
  /\ tpc \in {"idle", "expired"}
  /\ Trigger!TypeOK

WritingTypes ==
  /\ buffer \in Seq(Data)
  /\ wpc \in [Writers -> {"idle", "accepted", "storing", "stored"}]
  /\ wdata \in [Writers -> Data \cup {NoDatum}]
  /\ \A w \in Writers : wpc[w] # "idle" => wdata[w] \in Data
  /\ opc \in {"idle", "deciding", "arming"}
  /\ omsec \in {0, 1}
  /\ offered \in 0 .. MaxData /\ closes \in 0 .. MaxCloses
  /\ raced \subseteq 1 .. MaxData

\* The parts together are the type invariant, now and after a step.
LEMMA TypeParts ==
  /\ TypeOK <=> SwitchTypes /\ StageTypes /\ WritingTypes
  /\ TypeOK' <=> SwitchTypes' /\ StageTypes' /\ WritingTypes'
  BY Zenon DEF TypeOK, SwitchTypes, StageTypes, WritingTypes

\* A step that leaves the writing alone keeps its types.
LEMMA WritingKept ==
  ASSUME WritingTypes, UNCHANGED <<buffer, writing, opc, omsec, closes, raced>>
  PROVE  WritingTypes'
  BY DEF WritingTypes

LEMMA NextTypeOK == TypeOK /\ [Next]_vars => TypeOK'
  <1> SUFFICES ASSUME TypeOK PROVE [Next]_vars => TypeOK'
    OBVIOUS
  <1> USE IOQueueAssumption DEF TypeOK, Final
  <1>1. ASSUME NEW w \in Writers, NEW last \in BOOLEAN, WriteAccept(w, last)
        PROVE  TypeOK'
    <2>1. offered + 1 \in 1 .. MaxData /\ offered + 1 \in 0 .. MaxData
      BY <1>1 DEF WriteAccept
    <2>2. [id |-> offered + 1, last |-> last] \in Data
      BY <2>1 DEF Data
    <2> QED
      BY <1>1, <2>1, <2>2 DEF WriteAccept, Trigger!TypeOK
  <1>2. ASSUME NEW w \in Writers, WriteTestReadable(w) PROVE TypeOK'
    BY <1>2 DEF WriteTestReadable, Trigger!TypeOK
  <1>3. ASSUME NEW w \in Writers, WritePush(w) PROVE TypeOK'
    <2>1. wdata[w] \in Data /\ wdata[w].id \in 1 .. MaxData
      BY <1>3 DEF WritePush, Data
    <2>2. Append(buffer, wdata[w]) \in Seq(Data)
      BY <2>1
    <2>3. raced' \subseteq 1 .. MaxData
      BY <1>3, <2>1 DEF WritePush
    <2>4. /\ wpc' \in [Writers -> {"idle", "accepted", "storing", "stored"}]
          /\ \A v \in Writers : wpc'[v] # "idle" => wdata[v] \in Data
      BY <1>3, <2>1 DEF WritePush
    <2>5. buffer' \in Seq(Data)
      BY <1>3, <2>2 DEF WritePush
    <2> QED
      BY <1>3, <2>3, <2>4, <2>5, SMTT(30) DEF WritePush, Trigger!TypeOK
  <1>4. ASSUME NEW w \in Writers, WriteFinish(w) PROVE TypeOK'
    <2>1. wdata[w].last \in BOOLEAN
      BY <1>4 DEF WriteFinish, Data
    <2>2. (writtable /\ ~wdata[w].last) \in BOOLEAN
      OBVIOUS
    <2>3. writtable' \in BOOLEAN
      BY <1>4, <2>2 DEF WriteFinish
    <2> QED
      BY <1>4, <2>3 DEF WriteFinish, Trigger!TypeOK
  <1>5. ASSUME ReadStep PROVE TypeOK'
    <2>1. CASE ReadPop
      <3>1. buffer' \in Seq(Data)
        BY <2>1 DEF ReadPop
      <3> QED
        BY <2>1, <3>1 DEF ReadPop, Trigger!TypeOK
    <2>2. CASE ReadTestEmpty
      BY <2>2 DEF ReadTestEmpty, Trigger!TypeOK
    <2>3. CASE ReadTestWrite
      <3>1. SwitchTypes'
        BY <2>3, Zenon DEF ReadTestWrite, Shut, SwitchTypes
      <3>2. StageTypes'
        BY <2>3 DEF ReadTestWrite, Shut, StageTypes, Trigger!TypeOK
      <3>3. WritingTypes'
        BY <2>3, WritingKept DEF ReadTestWrite, WritingTypes
      <3> HIDE DEF TypeOK
      <3> QED
        BY <3>1, <3>2, <3>3, TypeParts
    <2> QED
      BY <1>5, <2>1, <2>2, <2>3 DEF ReadStep
  <1>6. ASSUME OwnerCall PROVE TypeOK'
    <2>1. CASE OpenRead
      BY <2>1 DEF OpenRead, Trigger!TypeOK
    <2>2. CASE CloseRead
      <3>1. SwitchTypes'
        BY <2>2, Zenon DEF CloseRead, SwitchTypes
      <3>2. StageTypes'
        BY <2>2 DEF CloseRead, StageTypes, Trigger!TypeOK
      <3>3. WritingTypes'
        BY <2>2, WritingKept DEF CloseRead, WritingTypes
      <3> HIDE DEF TypeOK
      <3> QED
        BY <3>1, <3>2, <3>3, TypeParts
    <2>3. CASE CloseWrite
      <3>1. SwitchTypes'
        BY <2>3, Zenon DEF CloseWrite, SwitchTypes
      <3>2. StageTypes'
        BY <2>3 DEF CloseWrite, StageTypes, Trigger!TypeOK
      <3>3. WritingTypes'
        BY <2>3, WritingKept DEF CloseWrite, WritingTypes
      <3> HIDE DEF TypeOK
      <3> QED
        BY <3>1, <3>2, <3>3, TypeParts
    <2>4. CASE SetWriteTimeOut
      <3>1. Trigger!TypeOK'
        BY <2>4, TickTypes DEF SetWriteTimeOut, Counters
      <3> QED
        BY <2>4, <3>1 DEF SetWriteTimeOut
    <2> QED
      BY <1>6, <2>1, <2>2, <2>3, <2>4 DEF OwnerCall
  <1>7. ASSUME NEW msec \in {0, 1}, AsyncClose(msec) PROVE TypeOK'
    <2>1. Trigger!TypeOK'
      BY <1>7, TickTypes DEF AsyncClose, Counters
    <2> QED
      BY <1>7, <2>1 DEF AsyncClose
  <1>8. ASSUME OwnerStep PROVE TypeOK'
    <2>1. CASE AsyncCloseDecide
      <3>1. /\ status' \in {"READY", "CLOSING", "CLOSED", "CLOSE_TO"}
            /\ readable' \in BOOLEAN /\ writtable' \in BOOLEAN
            /\ forced' \in BOOLEAN
            /\ opc' \in {"idle", "deciding", "arming"}
        <4>1. (forced \/ omsec = 0) \in BOOLEAN
          OBVIOUS
        <4>2. forced' = forced \/ forced' = (forced \/ omsec = 0)
          BY <2>1, Zenon DEF AsyncCloseDecide
        <4>3. forced' \in BOOLEAN
          BY <4>1, <4>2
        <4> QED
          BY <2>1, <4>3 DEF AsyncCloseDecide, Shut
      <3> QED
        BY <2>1, <3>1 DEF AsyncCloseDecide, Trigger!TypeOK
    <2>2. CASE AsyncCloseArm
      <3>1. Trigger!TypeOK'
        BY <2>2, TickTypes DEF AsyncCloseArm, Counters
      <3> QED
        BY <2>2, <3>1 DEF AsyncCloseArm
    <2> QED
      BY <1>8, <2>1, <2>2 DEF OwnerStep
  <1>9. ASSUME TimerStep PROVE TypeOK'
    <2>1. CASE CloseTick
      <3>1. Trigger!TypeOK'
        BY <2>1, TickTypes DEF CloseTick, Counters
      <3>2. /\ status' \in {"READY", "CLOSING", "CLOSED", "CLOSE_TO"}
            /\ readable' \in BOOLEAN /\ writtable' \in BOOLEAN
        BY <2>1, Zenon DEF CloseTick, Shut
      <3>3. UNCHANGED <<writeStatus, dirty, writeMax, buffer, writing, rpc, owning,
                        tpc, history>>
        BY <2>1 DEF CloseTick
      <3>4. SwitchTypes'
        BY <3>2, <3>3, Zenon DEF SwitchTypes
      <3>5. StageTypes'
        BY <3>1, <3>2, <3>3 DEF StageTypes
      <3>6. WritingTypes'
        BY <3>3, WritingKept DEF WritingTypes
      <3> HIDE DEF TypeOK
      <3> QED
        BY <3>4, <3>5, <3>6, TypeParts
    <2>2. CASE WriteTick
      <3>1. Trigger!TypeOK'
        <4>1. CASE UNCHANGED timers
          BY <4>1 DEF Trigger!TypeOK
        <4>2. CASE \E answer \in {"RESET", "INC", "RELASE"} :
                     Trigger!Tick("write", answer)
          BY <4>2, TickTypes DEF Counters
        <4> QED
          BY <2>2, <4>1, <4>2 DEF WriteTick
      <3>2. /\ dirty' \in BOOLEAN
            /\ tpc' \in {"idle", "expired"}
        BY <2>2, Zenon DEF WriteTick
      <3>3. UNCHANGED <<switches, writeStatus, writeMax, buffer, writing, rpc,
                        owning, history>>
        BY <2>2 DEF WriteTick
      <3>4. SwitchTypes'
        BY <3>2, <3>3, Zenon DEF SwitchTypes
      <3>5. StageTypes'
        BY <3>1, <3>2, <3>3 DEF StageTypes
      <3>6. WritingTypes'
        BY <3>3, WritingKept DEF WritingTypes
      <3> HIDE DEF TypeOK
      <3> QED
        BY <3>4, <3>5, <3>6, TypeParts
    <2>3. CASE WriteExpire
      <3>1. Trigger!TypeOK'
        BY <2>3, TickTypes DEF WriteExpire, Counters
      <3>2. /\ readable' \in BOOLEAN
            /\ writeStatus' \in {"TIMEOUT_WAITING", "TIMEOUT"}
            /\ writeMax' \in {WriteTicks, WriteTicksNext}
            /\ tpc' = "idle"
        BY <2>3, Zenon DEF WriteExpire
      <3>3. UNCHANGED <<writtable, status, dirty, buffer, writing, rpc, owning,
                        history>>
        BY <2>3 DEF WriteExpire
      <3>4. SwitchTypes'
        BY <3>2, <3>3, Zenon DEF SwitchTypes
      <3>5. StageTypes'
        BY <3>1, <3>2, <3>3 DEF StageTypes
      <3>6. WritingTypes'
        BY <3>3, WritingKept DEF WritingTypes
      <3> HIDE DEF TypeOK
      <3> QED
        BY <3>4, <3>5, <3>6, TypeParts
    <2> QED
      BY <1>9, <2>1, <2>2, <2>3 DEF TimerStep
  <1>10. CASE UNCHANGED vars
    BY <1>10 DEF Trigger!TypeOK
  <1> QED
    BY <1>1, <1>2, <1>3, <1>4, <1>5, <1>6, <1>7, <1>8, <1>9, <1>10
    DEF Next, WriteStep

\* Every variable keeps its type, every counter its bound.
THEOREM TypeCorrect == Spec => []TypeOK
  BY InitTypeOK, NextTypeOK, PTL DEF Spec
-----------------------------------------------------------------------------
(* The inductive invariant *)

LEMMA InitIInv == Init => IInv
  <1> SUFFICES ASSUME Init PROVE IInv
    OBVIOUS
  <1>1. TypeOK
    BY InitTypeOK
  <1>2. UnopenedIsQuiet
    BY DEF Init, UnopenedIsQuiet, Trigger!Init
  <1>3. FinalIsShut /\ ExpiredIsUnreadable /\ EmptyIsOvertaken /\ StrandedOnlyByRace
    BY DEF Init, FinalIsShut, ExpiredIsUnreadable, EmptyIsOvertaken,
           StrandedOnlyByRace, Final
  <1>4. ClosingIsTimed
    BY DEF Init, ClosingIsTimed
  <1> QED
    BY <1>1, <1>2, <1>3, <1>4 DEF IInv

\* The switches: nothing happens before openRead, a final status stays shut and
\* an expired stage stays unreadable.
LEMMA NextSwitches ==
  ASSUME IInv, [Next]_vars
  PROVE  UnopenedIsQuiet' /\ FinalIsShut' /\ ExpiredIsUnreadable'
  <1> DEFINE Goal == UnopenedIsQuiet' /\ FinalIsShut' /\ ExpiredIsUnreadable'
  <1> SUFFICES Goal
    OBVIOUS
  <1> USE DEF IInv, UnopenedIsQuiet, FinalIsShut, ExpiredIsUnreadable, Final
  <1>1. ASSUME NEW w \in Writers, NEW last \in BOOLEAN, WriteAccept(w, last)
        PROVE  Goal
    BY <1>1 DEF WriteAccept
  <1>2. ASSUME NEW w \in Writers, WriteTestReadable(w) PROVE Goal
    BY <1>2 DEF WriteTestReadable
  <1>3. ASSUME NEW w \in Writers, WritePush(w) PROVE Goal
    BY <1>3 DEF WritePush
  <1>4. ASSUME NEW w \in Writers, WriteFinish(w) PROVE Goal
    <2>1. writeStatus' \in {writeStatus, "END"} /\ (writtable' => writtable)
      BY <1>4, Zenon DEF WriteFinish
    <2>2. UNCHANGED <<readable, status, rpc, listed, opc, opened, tpc>>
      BY <1>4 DEF WriteFinish
    <2> QED
      BY <2>1, <2>2
  <1>5. ASSUME ReadStep PROVE Goal
    BY <1>5 DEF ReadStep, ReadPop, ReadTestEmpty, ReadTestWrite, Shut
  <1>6. ASSUME OwnerCall PROVE Goal
    <2>1. CASE OpenRead
      BY <2>1 DEF OpenRead
    <2>2. CASE CloseRead
      BY <2>2 DEF CloseRead
    <2>3. CASE CloseWrite
      BY <2>3 DEF CloseWrite
    <2>4. CASE SetWriteTimeOut
      BY <2>4 DEF SetWriteTimeOut
    <2> QED
      BY <1>6, <2>1, <2>2, <2>3, <2>4 DEF OwnerCall
  <1>7. ASSUME NEW msec \in {0, 1}, AsyncClose(msec) PROVE Goal
    BY <1>7 DEF AsyncClose
  <1>8. ASSUME OwnerStep PROVE Goal
    <2>1. opened
      BY <1>8 DEF OwnerStep, AsyncCloseDecide, AsyncCloseArm
    <2>2. \/ UNCHANGED switches
          \/ ~readable' /\ ~writtable'
          \/ status' = "CLOSING" /\ UNCHANGED <<readable, writtable>>
      BY <1>8, Zenon DEF OwnerStep, AsyncCloseDecide, AsyncCloseArm, Shut
    <2>3. UNCHANGED <<opened, writeStatus>>
      BY <1>8 DEF OwnerStep, AsyncCloseDecide, AsyncCloseArm
    <2> QED
      BY <2>1, <2>2, <2>3
  <1>9. ASSUME TimerStep PROVE Goal
    <2>1. opened /\ UNCHANGED opened
      BY <1>9 DEF TimerStep, CloseTick, WriteTick, WriteExpire, Trigger!Tick
    <2>2. CASE CloseTick
      <3>1. UNCHANGED switches \/ (~readable' /\ ~writtable')
        BY <2>2, Zenon DEF CloseTick, Shut
      <3>2. UNCHANGED writeStatus
        BY <2>2 DEF CloseTick
      <3> QED
        BY <2>1, <3>1, <3>2
    <2>3. CASE WriteTick
      BY <2>1, <2>3 DEF WriteTick
    <2>4. CASE WriteExpire
      BY <2>1, <2>4 DEF WriteExpire
    <2> QED
      BY <1>9, <2>2, <2>3, <2>4 DEF TimerStep
  <1>10. CASE UNCHANGED vars
    BY <1>10
  <1> QED
    BY <1>1, <1>2, <1>3, <1>4, <1>5, <1>6, <1>7, <1>8, <1>9, <1>10
    DEF Next, WriteStep

\* The data: what a queue strands was pushed past its last test.
LEMMA NextData ==
  ASSUME IInv, [Next]_vars
  PROVE  EmptyIsOvertaken' /\ StrandedOnlyByRace'
  <1> DEFINE Goal == EmptyIsOvertaken' /\ StrandedOnlyByRace'
  <1> SUFFICES Goal
    OBVIOUS
  <1> USE DEF IInv, EmptyIsOvertaken, StrandedOnlyByRace
  <1>1. ASSUME UNCHANGED <<buffer, raced, status, forced, rpc>> PROVE Goal
    BY <1>1 DEF Stored
  <1>2. ASSUME NEW w \in Writers, WritePush(w) PROVE Goal
    <2>1. wdata[w] \in Data /\ buffer \in Seq(Data)
      BY <1>2 DEF WritePush, TypeOK
    <2>2. Stored' \subseteq Stored \cup {wdata[w].id}
      BY <1>2, <2>1, StoredAppend DEF WritePush, Stored
    <2>3. raced \subseteq raced'
      BY <1>2 DEF WritePush
    <2>4. ASSUME rpc = "empty" \/ ~writtable PROVE wdata[w].id \in raced'
      BY <1>2, <2>4 DEF WritePush
    <2>5. UNCHANGED <<rpc, status, forced>>
      BY <1>2 DEF WritePush
    <2>6. status = "CLOSED" => ~writtable
      BY DEF FinalIsShut, Final
    <2> QED
      BY <2>2, <2>3, <2>4, <2>5, <2>6
  <1>3. ASSUME ReadPop PROVE Goal
    <2>1. Stored' \subseteq Stored
      BY <1>3, StoredTail DEF ReadPop, Stored, TypeOK
    <2>2. rpc' = "popped" /\ UNCHANGED <<raced, status, forced>>
      BY <1>3 DEF ReadPop
    <2> QED
      BY <2>1, <2>2
  <1>4. ASSUME ReadTestEmpty PROVE Goal
    <2>1. UNCHANGED <<buffer, raced, status, forced>> /\ Stored' = Stored
      BY <1>4 DEF ReadTestEmpty, Stored
    <2>2. rpc' = "empty" => Stored = {}
      BY <1>4 DEF ReadTestEmpty, Stored
    <2> QED
      BY <2>1, <2>2
  <1>5. ASSUME ReadTestWrite PROVE Goal
    <2>1. UNCHANGED <<buffer, raced, forced>> /\ Stored' = Stored /\ rpc' = "idle"
      BY <1>5 DEF ReadTestWrite, Stored
    <2>2. Stored \subseteq raced
      BY <1>5 DEF ReadTestWrite
    <2> QED
      BY <2>1, <2>2
  <1>6. ASSUME AsyncCloseDecide PROVE Goal
    <2>1. UNCHANGED <<buffer, raced, rpc>> /\ Stored' = Stored
      BY <1>6 DEF AsyncCloseDecide, Stored
    <2>2. \/ UNCHANGED <<status, forced>>
          \/ forced' = (forced \/ omsec = 0) /\ (omsec = 0 \/ Drained)
      BY <1>6 DEF AsyncCloseDecide
    <2>3. Drained => Stored = {}
      BY DEF Drained, Stored
    <2> QED
      BY <2>1, <2>2, <2>3
  <1>7. ASSUME AsyncCloseArm PROVE Goal
    <2>1. status' = "CLOSING" /\ UNCHANGED <<buffer, raced, rpc>> /\ Stored' = Stored
      BY <1>7 DEF AsyncCloseArm, Stored
    <2> QED
      BY <2>1
  <1>8. ASSUME CloseTick PROVE Goal
    <2>1. UNCHANGED <<buffer, raced, rpc, forced>> /\ Stored' = Stored
      BY <1>8 DEF CloseTick, Stored
    <2>2. status' = "CLOSED" => status = "CLOSED" \/ Drained
      BY <1>8 DEF CloseTick, Shut
    <2>3. Drained => Stored = {}
      BY DEF Drained, Stored
    <2> QED
      BY <2>1, <2>2, <2>3
  <1>9. ASSUME \/ \E w \in Writers, last \in BOOLEAN : WriteAccept(w, last)
               \/ \E w \in Writers : WriteTestReadable(w) \/ WriteFinish(w)
               \/ OwnerCall \/ \E msec \in {0, 1} : AsyncClose(msec)
               \/ WriteTick \/ WriteExpire \/ UNCHANGED vars
        PROVE  Goal
    BY <1>1, <1>9
    DEF WriteAccept, WriteTestReadable, WriteFinish, OwnerCall, OpenRead, CloseRead,
        CloseWrite, SetWriteTimeOut, AsyncClose, WriteTick, WriteExpire
  <1> QED
    BY <1>2, <1>3, <1>4, <1>5, <1>6, <1>7, <1>8, <1>9
    DEF Next, WriteStep, ReadStep, OwnerStep, TimerStep

\* The close counter is listed whenever the queue waits for it.
LEMMA NextClosing ==
  ASSUME IInv, [Next]_vars
  PROVE  ClosingIsTimed'
  <1> DEFINE Goal == ClosingIsTimed'
  <1> SUFFICES Goal
    OBVIOUS
  <1> USE DEF IInv, ClosingIsTimed
  <1>1. ASSUME UNCHANGED <<status, opc, listed>> PROVE Goal
    BY <1>1
  <1>2. ASSUME ReadTestWrite PROVE Goal
    BY <1>2 DEF ReadTestWrite, Shut
  <1>3. ASSUME SetWriteTimeOut PROVE Goal
    BY <1>3 DEF SetWriteTimeOut, Trigger!Register
  <1>4. ASSUME NEW msec \in {0, 1}, AsyncClose(msec) PROVE Goal
    BY <1>4 DEF AsyncClose
  <1>5. ASSUME AsyncCloseDecide PROVE Goal
    <2>1. opc' = "idle" => status' = "CLOSED"
      BY <1>5 DEF AsyncCloseDecide, Shut
    <2> QED
      BY <2>1
  <1>6. ASSUME AsyncCloseArm PROVE Goal
    BY <1>6 DEF AsyncCloseArm, Trigger!Register
  <1>7. ASSUME CloseTick PROVE Goal
    BY <1>7 DEF CloseTick, Shut, Trigger!Tick
  <1>8. ASSUME WriteTick \/ WriteExpire PROVE Goal
    BY <1>8 DEF WriteTick, WriteExpire, Trigger!Tick
  <1>9. ASSUME \/ \E w \in Writers, last \in BOOLEAN : WriteAccept(w, last)
               \/ \E w \in Writers : WriteStep(w)
               \/ ReadPop \/ ReadTestEmpty \/ OpenRead \/ CloseRead \/ CloseWrite
               \/ UNCHANGED vars
        PROVE  Goal
    BY <1>1, <1>9
    DEF WriteAccept, WriteStep, WriteTestReadable, WritePush, WriteFinish, ReadPop,
        ReadTestEmpty, OpenRead, CloseRead, CloseWrite
  <1> QED
    BY <1>2, <1>3, <1>4, <1>5, <1>6, <1>7, <1>8, <1>9
    DEF Next, ReadStep, OwnerCall, OwnerStep, TimerStep

THEOREM Inductive == Spec => []IInv
  <1>1. IInv /\ [Next]_vars => IInv'
    <2> SUFFICES ASSUME IInv, [Next]_vars PROVE IInv'
      OBVIOUS
    <2>1. TypeOK'
      BY NextTypeOK DEF IInv
    <2> QED
      BY <2>1, NextSwitches, NextData, NextClosing DEF IInv
  <1> QED
    BY InitIInv, <1>1, PTL DEF Spec

\* A queue that closed by itself strands only data that overtook a test.
THEOREM StrandedOnlyByRaceHolds == Spec => []StrandedOnlyByRace
  <1>1. IInv => StrandedOnlyByRace
    BY DEF IInv
  <1> QED
    BY Inductive, <1>1, PTL

\* Something always remains to end the closing of a queue.
THEOREM ClosingIsTimedHolds == Spec => []ClosingIsTimed
  <1>1. IInv => ClosingIsTimed
    BY DEF IInv
  <1> QED
    BY Inductive, <1>1, PTL
-----------------------------------------------------------------------------
(* What a step may never do *)

\* openRead, once, is all that makes a queue readable; nothing makes it
\* writable, brings it back to WRITING or skips the waiting stage.
LEMMA NextMonotone ==
  ASSUME IInv, [Next]_vars
  PROVE  /\ readable' => readable \/ ~opened
         /\ writtable' => writtable
         /\ writeStatus' = "WRITING" => writeStatus = "WRITING"
         /\ writeStatus = "WRITING" => writeStatus' # "TIMEOUT"
  <1> DEFINE Goal == /\ readable' => readable \/ ~opened
                     /\ writtable' => writtable
                     /\ writeStatus' = "WRITING" => writeStatus = "WRITING"
                     /\ writeStatus = "WRITING" => writeStatus' # "TIMEOUT"
  <1> SUFFICES Goal
    OBVIOUS
  <1>1. ASSUME UNCHANGED <<readable, writtable, writeStatus>> PROVE Goal
    BY <1>1
  <1>2. ASSUME NEW w \in Writers, WriteFinish(w) PROVE Goal
    <2>1. writeStatus' \in {writeStatus, "END"} /\ (writtable' => writtable)
      BY <1>2, Zenon DEF WriteFinish
    <2>2. UNCHANGED readable
      BY <1>2 DEF WriteFinish
    <2> QED
      BY <2>1, <2>2
  <1>3. ASSUME ReadTestWrite \/ AsyncCloseDecide \/ CloseTick PROVE Goal
    <2>1. UNCHANGED switches \/ (~readable' /\ ~writtable')
      BY <1>3, Zenon DEF ReadTestWrite, AsyncCloseDecide, CloseTick, Shut
    <2>2. UNCHANGED writeStatus
      BY <1>3 DEF ReadTestWrite, AsyncCloseDecide, CloseTick
    <2> QED
      BY <2>1, <2>2
  <1>4. ASSUME OpenRead PROVE Goal
    BY <1>4 DEF OpenRead
  <1>5. ASSUME CloseRead \/ CloseWrite PROVE Goal
    BY <1>5 DEF CloseRead, CloseWrite
  <1>6. ASSUME WriteExpire PROVE Goal
    BY <1>6 DEF WriteExpire
  <1>7. ASSUME \/ \E w \in Writers, last \in BOOLEAN : WriteAccept(w, last)
               \/ \E w \in Writers : WriteTestReadable(w) \/ WritePush(w)
               \/ ReadPop \/ ReadTestEmpty \/ SetWriteTimeOut
               \/ \E msec \in {0, 1} : AsyncClose(msec)
               \/ AsyncCloseArm \/ WriteTick \/ UNCHANGED vars
        PROVE  Goal
    BY <1>1, <1>7
    DEF WriteAccept, WriteTestReadable, WritePush, ReadPop, ReadTestEmpty,
        SetWriteTimeOut, AsyncClose, AsyncCloseArm, WriteTick
  <1> QED
    BY <1>2, <1>3, <1>4, <1>5, <1>6, <1>7
    DEF Next, WriteStep, ReadStep, OwnerCall, OwnerStep, TimerStep

\* No late packet, end mark, tick or second asyncClose reopens a queue that is
\* closed or timed out.
THEOREM StaysShutHolds == Spec => StaysShut
  <1>1. IInv /\ [Next]_vars
          => [(status \in Final) => ~readable' /\ ~writtable']_vars
    <2> SUFFICES ASSUME IInv, [Next]_vars, status \in Final
                 PROVE  ~readable' /\ ~writtable'
      OBVIOUS
    <2>1. ~readable /\ ~writtable /\ opened
      BY DEF IInv, FinalIsShut, UnopenedIsQuiet, Final
    <2> QED
      BY <2>1, NextMonotone
  <1> QED
    BY Inductive, <1>1, PTL DEF Spec, StaysShut

\* A queue is never timed out straight from WRITING, and is never read from
\* after its first stage.
THEOREM TimeoutHasTwoStagesHolds == Spec => TimeoutHasTwoStages
  <1> DEFINE Stages ==
        /\ writeStatus = "WRITING" => writeStatus' # "TIMEOUT"
        /\ writeStatus \in {"TIMEOUT_WAITING", "TIMEOUT"} =>
             ~readable' /\ writeStatus' # "WRITING"
  <1>1. IInv /\ [Next]_vars => [Stages]_vars
    <2> SUFFICES ASSUME IInv, [Next]_vars PROVE Stages
      OBVIOUS
    <2>1. writeStatus \in {"TIMEOUT_WAITING", "TIMEOUT"} => ~readable /\ opened
      BY DEF IInv, ExpiredIsUnreadable, UnopenedIsQuiet
    <2> QED
      BY <2>1, NextMonotone
  <1> QED
    BY Inductive, <1>1, PTL DEF Spec, TimeoutHasTwoStages
=============================================================================
