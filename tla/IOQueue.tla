------------------------------ MODULE IOQueue ------------------------------
(***************************************************************************)
(* IOQueue: the queue between a thread that writes packets and the thread  *)
(* that reads them, with its two tick counters.  readable, writtable,      *)
(* status, writeStatus and the tests on buffer.size() are accessed without *)
(* any lock (bufLock covers one push or one pop), so every test of one of  *)
(* them and the use that is made of it are steps of their own.             *)
(*                                                                         *)
(* Four parties: the writers (receive looper, recorder, transaction), one  *)
(* reader (decoder or send looper), the owner (the scheduler's thread) and *)
(* the timer thread, inside TimerTrigger::traval and holding its mutex.    *)
(***************************************************************************)
EXTENDS Integers, Sequences

CONSTANTS
  Writers,         \* the threads that call write
  HasEofJudger,    \* setWriteEOFJudger was called: a datum may be the last
  WriteTicks,      \* writeTimeoutMaxCount, first stage
  WriteTicksNext,  \* writeTimeoutMaxCountNext, second stage
  CloseTicks,      \* closeMaxTickCount
  MaxData,         \* bound on the data offered to the queue
  MaxCloses        \* bound on the calls of asyncClose

ASSUME IOQueueAssumption ==
  /\ HasEofJudger \in BOOLEAN
  /\ WriteTicks \in Nat
  /\ WriteTicksNext \in Nat
  /\ CloseTicks \in Nat
  /\ MaxData \in Nat
  /\ MaxCloses \in Nat

VARIABLES
  readable, writtable,   \* the two switches
  status,                \* EIOQ_STATE
  writeStatus,           \* EIOQ_WRITE_STATE
  dirty,                 \* a write happened since the last tick
  writeMax,              \* the count that ends the current stage
  buffer,                \* the data stored, oldest first
  listed, count,         \* the two counters, as TimerTrigger keeps them
  wpc, wdata,            \* each writer's place in write, and its datum
  rpc,                   \* the reader's place in read
  opc, omsec,            \* the owner's place in asyncClose, and its argument
  tpc,                   \* the timer thread's place in WriteTimerCB::matchCond
  opened,                \* the owner has called openRead
  offered, closes,       \* data offered and asyncClose calls so far
  raced, forced          \* history, see StrandedOnlyByRace

switches == <<readable, writtable, status>>
timers   == <<listed, count>>
writing  == <<wpc, wdata, offered>>
owning   == <<opc, omsec, opened, closes>>
history  == <<raced, forced>>
vars == <<switches, writeStatus, dirty, writeMax, buffer, timers, writing, rpc,
          owning, tpc, history>>

Counters == {"write", "close"}
Final == {"CLOSED", "CLOSE_TO"}
Data == [id : 1 .. MaxData, last : BOOLEAN]
NoDatum == [id |-> 0, last |-> FALSE]
TickBound == WriteTicks + WriteTicksNext + CloseTicks

Trigger == INSTANCE TickService WITH Waiters <- Counters, MaxCount <- TickBound

TypeOK ==
  /\ readable \in BOOLEAN /\ writtable \in BOOLEAN /\ dirty \in BOOLEAN
  /\ status \in {"READY", "CLOSING"} \cup Final
  /\ writeStatus \in {"WRITING", "TIMEOUT_WAITING", "END", "TIMEOUT"}
  /\ writeMax \in {WriteTicks, WriteTicksNext}
  /\ buffer \in Seq(Data)
  /\ Trigger!TypeOK
  /\ wpc \in [Writers -> {"idle", "accepted", "storing", "stored"}]
  /\ wdata \in [Writers -> Data \cup {NoDatum}]
  /\ \A w \in Writers : wpc[w] # "idle" => wdata[w] \in Data
  /\ rpc \in {"idle", "popped", "empty"}
  /\ opc \in {"idle", "deciding", "arming"}
  /\ omsec \in {0, 1}
  /\ tpc \in {"idle", "expired"}
  /\ opened \in BOOLEAN /\ forced \in BOOLEAN
  /\ offered \in 0 .. MaxData /\ closes \in 0 .. MaxCloses
  /\ raced \subseteq 1 .. MaxData

\* defaultInitial
Init ==
  /\ readable = FALSE /\ writtable = TRUE
  /\ status = "READY" /\ writeStatus = "WRITING"
  /\ dirty = FALSE
  /\ writeMax = WriteTicks
  /\ buffer = <<>>
  /\ Trigger!Init
  /\ wpc = [w \in Writers |-> "idle"]
  /\ wdata = [w \in Writers |-> NoDatum]
  /\ rpc = "idle" /\ opc = "idle" /\ omsec = 0 /\ tpc = "idle"
  /\ opened = FALSE
  /\ offered = 0 /\ closes = 0
  /\ raced = {} /\ forced = FALSE

\* setStatus with a final status shuts both switches.
Shut(s) ==
  /\ status' = s
  /\ readable' = FALSE
  /\ writtable' = FALSE

Drained == ~writtable /\ buffer = <<>>
-----------------------------------------------------------------------------
(* write *)

\* canAccept: which data the matchers let through is the choice of the datum.
CanAccept == writtable

\* The datum is accepted and goes through the filters.
WriteAccept(w, last) ==
  /\ wpc[w] = "idle"
  /\ CanAccept
  /\ offered < MaxData
  /\ last => HasEofJudger
  /\ offered' = offered + 1
  /\ wpc' = [wpc EXCEPT ![w] = "accepted"]
  /\ wdata' = [wdata EXCEPT ![w] = [id |-> offered + 1, last |-> last]]
  /\ UNCHANGED <<switches, writeStatus, dirty, writeMax, buffer, timers, rpc,
                 owning, tpc, history>>

\* Reading is shut: the datum is dropped and write still succeeds.
WriteTestReadable(w) ==
  /\ wpc[w] = "accepted"
  /\ wpc' = [wpc EXCEPT ![w] = IF readable THEN "storing" ELSE "stored"]
  /\ UNCHANGED <<switches, writeStatus, dirty, writeMax, buffer, timers, wdata,
                 offered, rpc, owning, tpc, history>>

WritePush(w) ==
  /\ wpc[w] = "storing"
  /\ buffer' = Append(buffer, wdata[w])
  /\ raced' = IF rpc = "empty" \/ ~writtable
              THEN raced \cup {wdata[w].id} ELSE raced
  /\ wpc' = [wpc EXCEPT ![w] = "stored"]
  /\ UNCHANGED <<switches, writeStatus, dirty, writeMax, timers, wdata, offered,
                 rpc, owning, tpc, forced>>

\* The last datum ends the writing.
WriteFinish(w) ==
  /\ wpc[w] = "stored"
  /\ dirty' = TRUE
  /\ writeStatus' = IF wdata[w].last THEN "END" ELSE writeStatus
  /\ writtable' = (writtable /\ ~wdata[w].last)
  /\ wpc' = [wpc EXCEPT ![w] = "idle"]
  /\ UNCHANGED <<readable, status, writeMax, buffer, timers, wdata, offered, rpc,
                 owning, tpc, history>>
-----------------------------------------------------------------------------
(* read *)

ReadPop ==
  /\ rpc = "idle"
  /\ readable
  /\ buffer' = IF buffer = <<>> THEN buffer ELSE Tail(buffer)
  /\ rpc' = "popped"
  /\ UNCHANGED <<switches, writeStatus, dirty, writeMax, timers, writing, owning,
                 tpc, history>>

\* Seeded fault: the size of the buffer is not tested.
ReadTestEmptyDropped ==
  /\ rpc = "popped"
  /\ rpc' = "empty"
  /\ UNCHANGED <<switches, writeStatus, dirty, writeMax, buffer, timers, writing,
                 owning, tpc, history>>

\* 0 == buffer.size() is evaluated before VL_FALSE == writtable.
ReadTestEmpty ==
  /\ rpc = "popped"
  /\ rpc' = IF buffer = <<>> THEN "empty" ELSE "idle"
  /\ UNCHANGED <<switches, writeStatus, dirty, writeMax, buffer, timers, writing,
                 owning, tpc, history>>

ReadTestWrite ==
  /\ rpc = "empty"
  /\ rpc' = "idle"
  /\ IF writtable THEN UNCHANGED switches ELSE Shut("CLOSED")
  /\ UNCHANGED <<writeStatus, dirty, writeMax, buffer, timers, writing, owning,
                 tpc, history>>
-----------------------------------------------------------------------------
(* The owner's calls *)

OpenRead ==
  /\ ~opened
  /\ opened' = TRUE
  /\ readable' = TRUE
  /\ UNCHANGED <<writtable, status, writeStatus, dirty, writeMax, buffer, timers,
                 writing, rpc, opc, omsec, closes, tpc, history>>

CloseRead ==
  /\ opened /\ opc = "idle"
  /\ readable' = FALSE
  /\ UNCHANGED <<writtable, status, writeStatus, dirty, writeMax, buffer, timers,
                 writing, rpc, owning, tpc, history>>

CloseWrite ==
  /\ opened /\ opc = "idle"
  /\ writtable' = FALSE
  /\ UNCHANGED <<readable, status, writeStatus, dirty, writeMax, buffer, timers,
                 writing, rpc, owning, tpc, history>>

\* setWriteTimeOut: the limits are set and the counter listed.  Its one caller,
\* startTrack, gets there once in the life of a queue, so that the counter it
\* first unregisters is never listed.
SetWriteTimeOut ==
  /\ opened /\ opc = "idle" /\ tpc = "idle"
  /\ "write" \notin listed
  /\ writeMax' = WriteTicks
  /\ Trigger!Register("write")
  /\ UNCHANGED <<switches, writeStatus, dirty, buffer, writing, rpc, owning, tpc,
                 history>>

\* asyncClose first takes its counter out of the trigger.
AsyncClose(msec) ==
  /\ opened /\ opc = "idle" /\ tpc = "idle"
  /\ closes < MaxCloses
  /\ closes' = closes + 1
  /\ opc' = "deciding" /\ omsec' = msec
  /\ Trigger!Unregister("close")
  /\ UNCHANGED <<switches, writeStatus, dirty, writeMax, buffer, writing, rpc, tpc,
                 opened, history>>

\* Seeded fault: a queue that is closing already is left alone, although its
\* counter has just been taken out.
AsyncCloseDecideOnce ==
  /\ opc = "deciding"
  /\ \/ /\ status \in {"CLOSED", "CLOSING"}
        /\ opc' = "idle" /\ UNCHANGED <<switches, forced>>
     \/ /\ status \notin {"CLOSED", "CLOSING"}
        /\ omsec = 0 \/ Drained
        /\ Shut("CLOSED")
        /\ forced' = (forced \/ omsec = 0)
        /\ opc' = "idle"
     \/ /\ status \notin {"CLOSED", "CLOSING"}
        /\ omsec # 0 /\ ~Drained
        /\ opc' = "arming" /\ UNCHANGED <<switches, forced>>
  /\ UNCHANGED <<writeStatus, dirty, writeMax, buffer, timers, writing, rpc, omsec,
                 opened, closes, tpc, raced>>

\* Already closed; or closed by force; or nothing is left; or it must wait.
AsyncCloseDecide ==
  /\ opc = "deciding"
  /\ \/ /\ status = "CLOSED"
        /\ opc' = "idle" /\ UNCHANGED <<switches, forced>>
     \/ /\ status # "CLOSED"
        /\ omsec = 0 \/ Drained
        /\ Shut("CLOSED")
        /\ forced' = (forced \/ omsec = 0)
        /\ opc' = "idle"
     \/ /\ status # "CLOSED"
        /\ omsec # 0 /\ ~Drained
        /\ opc' = "arming" /\ UNCHANGED <<switches, forced>>
  /\ UNCHANGED <<writeStatus, dirty, writeMax, buffer, timers, writing, rpc, omsec,
                 opened, closes, tpc, raced>>

AsyncCloseArm ==
  /\ opc = "arming" /\ tpc = "idle"
  /\ status' = "CLOSING"
  /\ Trigger!Register("close")
  /\ opc' = "idle"
  /\ UNCHANGED <<readable, writtable, writeStatus, dirty, writeMax, buffer, writing,
                 rpc, omsec, opened, closes, tpc, history>>
-----------------------------------------------------------------------------
(* The timer thread *)

\* Seeded fault: waiting does not advance the counter.
CloseTickStalls ==
  /\ tpc = "idle"
  /\ IF Drained
     THEN Shut("CLOSED") /\ Trigger!Tick("close", "RELASE")
     ELSE IF count["close"] >= CloseTicks
          THEN Shut("CLOSE_TO") /\ Trigger!Tick("close", "RELASE")
          ELSE UNCHANGED switches /\ Trigger!Tick("close", "RESET")
  /\ UNCHANGED <<writeStatus, dirty, writeMax, buffer, writing, rpc, owning, tpc,
                 history>>

\* CloseTimer::matchCond
CloseTick ==
  /\ tpc = "idle"
  /\ IF Drained
     THEN Shut("CLOSED") /\ Trigger!Tick("close", "RELASE")
     ELSE IF count["close"] >= CloseTicks
          THEN Shut("CLOSE_TO") /\ Trigger!Tick("close", "RELASE")
          ELSE UNCHANGED switches /\ Trigger!Tick("close", "INC")
  /\ UNCHANGED <<writeStatus, dirty, writeMax, buffer, writing, rpc, owning, tpc,
                 history>>

\* Seeded fault: the dirty mark is never cleared.
WriteTickStaysDirty ==
  /\ tpc = "idle"
  /\ "write" \in listed
  /\ \/ /\ ~writtable
        /\ Trigger!Tick("write", "RELASE") /\ UNCHANGED tpc
     \/ /\ writtable /\ dirty
        /\ Trigger!Tick("write", "RESET") /\ UNCHANGED tpc
     \/ /\ writtable /\ ~dirty
        /\ count["write"] < writeMax
        /\ Trigger!Tick("write", "INC") /\ UNCHANGED tpc
     \/ /\ writtable /\ ~dirty
        /\ count["write"] >= writeMax
        /\ tpc' = "expired" /\ UNCHANGED timers
  /\ UNCHANGED <<switches, writeStatus, dirty, writeMax, buffer, writing, rpc,
                 owning, history>>

\* WriteTimerCB::matchCond up to its decision that the stage has expired.
WriteTick ==
  /\ tpc = "idle"
  /\ "write" \in listed
  /\ \/ /\ ~writtable
        /\ Trigger!Tick("write", "RELASE") /\ UNCHANGED <<dirty, tpc>>
     \/ /\ writtable /\ dirty
        /\ dirty' = FALSE
        /\ Trigger!Tick("write", "RESET") /\ UNCHANGED tpc
     \/ /\ writtable /\ ~dirty
        /\ count["write"] < writeMax
        /\ Trigger!Tick("write", "INC") /\ UNCHANGED <<dirty, tpc>>
     \/ /\ writtable /\ ~dirty
        /\ count["write"] >= writeMax
        /\ tpc' = "expired" /\ UNCHANGED <<dirty, timers>>
  /\ UNCHANGED <<switches, writeStatus, writeMax, buffer, writing, rpc, owning,
                 history>>

\* Seeded fault: the second limit is added to the first.
WriteExpireAccumulates ==
  /\ tpc = "expired"
  /\ tpc' = "idle"
  /\ readable' = FALSE
  /\ IF writeStatus = "WRITING"
     THEN /\ writeStatus' = "TIMEOUT_WAITING"
          /\ writeMax' = writeMax + WriteTicksNext
          /\ Trigger!Tick("write", "RESET")
     ELSE /\ writeStatus' = "TIMEOUT"
          /\ UNCHANGED writeMax
          /\ Trigger!Tick("write", "RELASE")
  /\ UNCHANGED <<writtable, status, dirty, buffer, writing, rpc, owning, history>>

\* The stage expires: reading is shut whatever the buffer holds.
WriteExpire ==
  /\ tpc = "expired"
  /\ tpc' = "idle"
  /\ readable' = FALSE
  /\ IF writeStatus = "WRITING"
     THEN /\ writeStatus' = "TIMEOUT_WAITING"
          /\ writeMax' = WriteTicksNext
          /\ Trigger!Tick("write", "RESET")
     ELSE /\ writeStatus' = "TIMEOUT"
          /\ UNCHANGED writeMax
          /\ Trigger!Tick("write", "RELASE")
  /\ UNCHANGED <<writtable, status, dirty, buffer, writing, rpc, owning, history>>
-----------------------------------------------------------------------------
WriteStep(w) == WriteTestReadable(w) \/ WritePush(w) \/ WriteFinish(w)
ReadStep == ReadPop \/ ReadTestEmpty \/ ReadTestWrite
OwnerCall == OpenRead \/ CloseRead \/ CloseWrite \/ SetWriteTimeOut
OwnerStep == AsyncCloseDecide \/ AsyncCloseArm
TimerStep == CloseTick \/ WriteTick \/ WriteExpire

Next ==
  \/ \E w \in Writers, last \in BOOLEAN : WriteAccept(w, last)
  \/ \E w \in Writers : WriteStep(w)
  \/ ReadStep
  \/ OwnerCall
  \/ \E msec \in {0, 1} : AsyncClose(msec)
  \/ OwnerStep
  \/ TimerStep

\* A thread inside a call finishes it.  Every traversal of the timer visits all
\* the listed counters, so that none is skipped for ever: strong fairness for a
\* tick, which the other counter's visit disables for a while.  No caller has
\* to call, and the reader need never read.
Fairness ==
  /\ \A w \in Writers : WF_vars(WriteStep(w))
  /\ SF_vars(OwnerStep)
  /\ SF_vars(CloseTick) /\ SF_vars(WriteTick) /\ WF_vars(WriteExpire)

Spec == Init /\ [][Next]_vars
FairSpec == Spec /\ Fairness
-----------------------------------------------------------------------------
(* Properties *)

Stored == {buffer[i].id : i \in DOMAIN buffer}

\* What the unlocked tests do guarantee: a queue that closed by itself strands
\* only data that was pushed between the reader's test of the size and its
\* test of writtable, or pushed by a write that had been accepted before the
\* writing was shut.
StrandedOnlyByRace ==
  status = "CLOSED" /\ ~forced => Stored \subseteq raced

\* A closed or timed-out queue stays shut: no late packet, late end mark, timer
\* or second asyncClose makes it readable or writable again.
StaysShut ==
  [][(status \in Final) => ~readable' /\ ~writtable']_vars

\* A queue that is waiting to close has its close counter listed, whatever the
\* order of the reader's close, the timer and repeated calls of asyncClose:
\* otherwise nothing would ever close it.
ClosingIsTimed ==
  status = "CLOSING" /\ opc = "idle" => "close" \in listed

\* A silent queue is reported in two stages: it is never declared timed out
\* straight from WRITING, and once a stage has expired nothing is read from it,
\* even when data arrives in the waiting stage.
TimeoutHasTwoStages ==
  [][/\ writeStatus = "WRITING" => writeStatus' # "TIMEOUT"
     /\ writeStatus \in {"TIMEOUT_WAITING", "TIMEOUT"} =>
          ~readable' /\ writeStatus' # "WRITING"]_vars

\* asyncClose ends: with nobody reading, the queue still reaches a final status.
ClosingEnds == status = "CLOSING" ~> status \in Final

\* A queue whose write counter is armed and whose writers fall silent, or end,
\* leaves the WRITING status for good: its owner can reclaim it.
SilenceIsReported ==
  "write" \in listed ~> (~writtable \/ writeStatus = "TIMEOUT")
=============================================================================
