------------------------ MODULE StreamPlayScheduler ------------------------
(***************************************************************************)
(* The playing half of StreamPlayScheduler: which of the voice streams and *)
(* local files it was handed has the only player, and when each of them is *)
(* deleted.  The looper's thread does everything under evMutex, which it   *)
(* holds wherever pc is neither "wait" nor "limit"; it elects, starts and  *)
(* stops sources while the network and the timer change what the looper    *)
(* reads, the player's callback reports the end of a source, and the       *)
(* application terminates the source that plays without taking the lock.   *)
(* Who hands a source over looks at the talk without the lock as well: the *)
(* pointer may have been cleared since it was tested, or lead to a talk    *)
(* that the looper or the next talk has deleted.                           *)
(*                                                                         *)
(* The wait is timed, so that the looper comes round without a wakeup.     *)
(* pausePlay, resumePlay and waitingPlay have no caller: EP_PLAY is the    *)
(* only state of pauseState, and the resumption that follows a talk finds  *)
(* nothing that is paused.                                                 *)
(***************************************************************************)
EXTENDS Integers, Sequences, SequencesExt

CONSTANTS
  Streams,     \* IncomingTransactions
  Files,       \* SilkFileStreamSources, which are handed over to preempt
  Nobody,      \* NULL
  Normal,      \* SPS_NORMAL_PERMIT
  PermitOf,    \* permitId of each source: its session's engrossId, or Normal
  RoundLimit,  \* rounds with an active source before it is cut (300)
  MaxCalls     \* bound on what the application does

Sources == Streams \cup Files

ASSUME SchedulerAssumption ==
  /\ Streams \cap Files = {}
  /\ Nobody \notin Sources
  /\ \A f \in Files : PermitOf[f] = Normal
  /\ RoundLimit \in Nat
  /\ MaxCalls \in Nat

VARIABLES
  sourceList, activeSouce, preemptionSource, engrossId,
  number,      \* rounds in a row with an active source
  pc, cursor,  \* the looper's place, and its place in sourceList
  player,      \* the source that has the player
  playState,
  life,        \* what became of each source
  heard,       \* what has come of a stream: nothing, a payload type, enough
  writeStatus, \* of each stream's queue
  timed,       \* the streams whose write timeout is set
  recording,   \* recSource: none, or what the talk it leads to is doing
  tpc, target, \* the application's place in terminatePlay, and its source
  calls,       \* what the application has done so far
  overtaken,   \* history: the sources terminated after they had been stopped
  dead         \* terminatePlay or delegate went through a null or a freed pointer

stream == <<heard, writeStatus>>
choice == <<sourceList, preemptionSource>>
application == <<engrossId, recording, calls>>
terminator == <<tpc, target, overtaken, dead>>
looper == <<number, pc, cursor>>
vars == <<choice, activeSouce, application, looper, player, playState, life, stream,
          timed, terminator>>

Listed == {s \in Sources : life[s] = "listed"}
Over(s) == s \in Files \/ writeStatus[s] \in {"END", "TIMEOUT"}

TypeOK ==
  /\ sourceList \in Seq(Sources)
  /\ {activeSouce, preemptionSource, player, target} \subseteq Sources \cup {Nobody}
  /\ engrossId \in {PermitOf[s] : s \in Sources} \cup {Normal}
  /\ number \in 0 .. RoundLimit + 1
  /\ pc \in {"wait", "forgetting", "ending", "clearing", "electing", "acquired",
            "started", "reclaiming", "limit"}
  /\ cursor \in Nat
  /\ playState \in [Sources -> {"WAITING", "PLAYING", "NO_MORE", "PLAYED"}]
  /\ life \in [Sources -> {"new", "looking", "holding", "astray", "tested", "listed",
                           "deleted"}]
  /\ heard \in [Streams -> {"nothing", "type", "enough"}]
  /\ writeStatus \in [Streams -> {"WRITING", "END", "TIMEOUT_WAITING", "TIMEOUT"}]
  /\ timed \subseteq Streams /\ overtaken \subseteq Sources
  /\ recording \in {"none", "busy", "stopping", "stopped", "freed"}
  /\ tpc \in {"idle", "tested", "loaded"}
  /\ calls \in 0 .. MaxCalls
  /\ dead \in BOOLEAN

Init ==
  /\ sourceList = <<>> /\ activeSouce = Nobody /\ preemptionSource = Nobody
  /\ engrossId = Normal /\ calls = 0 /\ recording = "none"
  /\ number = 0 /\ pc = "wait" /\ cursor = 1
  /\ player = Nobody
  /\ playState = [s \in Sources |-> "WAITING"]
  /\ life = [s \in Sources |-> "new"]
  /\ heard = [s \in Streams |-> "nothing"]
  /\ writeStatus = [s \in Streams |-> "WRITING"]
  /\ timed = {}
  /\ tpc = "idle" /\ target = Nobody /\ overtaken = {} /\ dead = FALSE

\* evMutex is free: the looper waits, and nobody else deletes the talk.
Free == pc \in {"wait", "limit"} /\ recording # "freed"

\* Once the talk is deleted, who holds the pointer holds one that was freed.
Astray == [s \in Sources |-> IF life[s] = "holding" THEN "astray" ELSE life[s]]
-----------------------------------------------------------------------------
(* The callers of delegate *)

\* All this is unlocked: recSource is tested, and a talk that is there is looked
\* at, through the pointer as it is by then.
DelegateTest(s) ==
  /\ life[s] = "new"
  /\ life' = [life EXCEPT ![s] = IF recording = "none" THEN "tested" ELSE "looking"]
  /\ UNCHANGED <<choice, activeSouce, application, looper, player, playState, stream,
                 timed, terminator>>

\* The pointer is read again, and may be null by now.
LookFetch(s) ==
  /\ life[s] = "looking"
  /\ IF recording = "none" THEN dead' = TRUE /\ UNCHANGED life
     ELSE /\ life' = [life EXCEPT ![s] = IF recording = "freed" THEN "astray" ELSE "holding"]
          /\ UNCHANGED dead
  /\ UNCHANGED <<choice, activeSouce, application, looper, player, playState, stream,
                 timed, tpc, target, overtaken>>

\* The talk is asked for its state, once to log it and once to decide: nothing is
\* taken while it records, and the caller deletes what was refused.
LookAsk(s) ==
  /\ life[s] = "holding"
  /\ \E answer \in {"looking", IF recording = "busy" THEN "new" ELSE "tested"} :
       life' = [life EXCEPT ![s] = answer]
  /\ UNCHANGED <<choice, activeSouce, application, looper, player, playState, stream,
                 timed, terminator>>

\* A freed talk ends the process or answers anything.
LookAstray(s) ==
  /\ life[s] = "astray"
  /\ \/ dead' = TRUE /\ UNCHANGED life
     \/ /\ \E answer \in {"looking", "new", "tested"} : life' = [life EXCEPT ![s] = answer]
        /\ UNCHANGED dead
  /\ UNCHANGED <<choice, activeSouce, application, looper, player, playState, stream,
                 timed, tpc, target, overtaken>>

\* Seeded fault: a source that preempts is not put in the list as well.
DelegateInstead(s) ==
  /\ life[s] = "tested"
  /\ Free
  /\ preemptionSource' = IF s \in Files THEN s ELSE preemptionSource
  /\ sourceList' = IF s \in Files THEN sourceList ELSE Append(sourceList, s)
  /\ life' = [life EXCEPT ![s] = "listed"]
  /\ UNCHANGED <<activeSouce, application, looper, player, playState, stream, timed,
                 terminator>>

Delegate(s) ==
  /\ life[s] = "tested"
  /\ Free
  /\ preemptionSource' = IF s \in Files THEN s ELSE preemptionSource
  /\ sourceList' = Append(sourceList, s)
  /\ life' = [life EXCEPT ![s] = "listed"]
  /\ UNCHANGED <<activeSouce, application, looper, player, playState, stream, timed,
                 terminator>>
-----------------------------------------------------------------------------
(* The application *)

\* enableEngross, or clearEngross with Normal.
Engross(permit) ==
  /\ Free
  /\ calls < MaxCalls
  /\ engrossId' = permit
  /\ calls' = calls + 1
  /\ UNCHANGED <<recording, choice, activeSouce, looper, player, playState, life,
                 stream, timed, terminator>>

StartTalk ==
  /\ recording = "none"
  /\ Free
  /\ calls < MaxCalls
  /\ recording' = "busy" /\ calls' = calls + 1
  /\ UNCHANGED <<engrossId, choice, activeSouce, looper, player, playState, life,
                 stream, timed, terminator>>

StopTalk ==
  /\ recording = "busy"
  /\ Free
  /\ recording' = "stopping"
  /\ UNCHANGED <<engrossId, calls, choice, activeSouce, looper, player, playState,
                 life, stream, timed, terminator>>

\* The next talk's delegate deletes the one before, which is stopped and ready,
\* under evMutex, and clears the pointer before it takes the new one.
DeleteTalk ==
  /\ recording = "stopped"
  /\ Free
  /\ calls < MaxCalls
  /\ recording' = "freed" /\ calls' = calls + 1
  /\ life' = Astray
  /\ UNCHANGED <<engrossId, choice, activeSouce, looper, player, playState, stream,
                 timed, terminator>>

ClearTalk ==
  /\ recording = "freed" /\ pc \in {"wait", "limit"}
  /\ recording' = "none"
  /\ UNCHANGED <<engrossId, calls, choice, activeSouce, looper, player, playState,
                 life, stream, timed, terminator>>

\* terminatePlay: the pointer is tested, read again for the call, and the state
\* set, all without evMutex.
TerminateTest ==
  /\ tpc = "idle"
  /\ activeSouce # Nobody
  /\ calls < MaxCalls
  /\ tpc' = "tested"
  /\ calls' = calls + 1
  /\ UNCHANGED <<choice, activeSouce, engrossId, recording, looper, player, playState,
                 life, stream, timed, target, overtaken, dead>>

TerminateLoad ==
  /\ tpc = "tested"
  /\ target' = activeSouce
  /\ dead' = (activeSouce = Nobody)
  /\ tpc' = "loaded"
  /\ UNCHANGED <<choice, activeSouce, application, looper, player, playState, life,
                 stream, timed, overtaken>>

\* A call through a freed source ends the process, or changes nothing that is
\* still looked at.
TerminateSet ==
  /\ tpc = "loaded"
  /\ tpc' = "idle" /\ target' = Nobody
  /\ IF life[target] = "deleted"
     THEN dead' \in BOOLEAN /\ UNCHANGED <<playState, overtaken>>
     ELSE /\ playState' = [playState EXCEPT ![target] = "NO_MORE"]
          /\ overtaken' = IF playState[target] = "PLAYED"
                          THEN overtaken \cup {target} ELSE overtaken
          /\ UNCHANGED dead
  /\ UNCHANGED <<choice, activeSouce, application, looper, player, life, stream, timed>>
-----------------------------------------------------------------------------
(* The network, the timer and the player's callback *)

\* Packets come: the payload type is known, and then the stream is predicted to
\* last.
Hear(s) ==
  /\ life[s] = "listed"
  /\ heard[s] # "enough"
  /\ heard' = [heard EXCEPT ![s] = IF @ = "nothing" THEN "type" ELSE "enough"]
  /\ UNCHANGED <<writeStatus, choice, activeSouce, application, looper, player,
                 playState, life, timed, terminator>>

\* The packet with the marker.
HearEnd(s) ==
  /\ life[s] = "listed"
  /\ writeStatus[s] # "END"
  /\ writeStatus' = [writeStatus EXCEPT ![s] = "END"]
  /\ UNCHANGED <<heard, choice, activeSouce, application, looper, player, playState,
                 life, timed, terminator>>

\* WriteTimerCB: nothing has come for one stage, and then for another.
WriteTimeout(s) ==
  /\ life[s] = "listed"
  /\ s \in timed
  /\ writeStatus[s] \in {"WRITING", "TIMEOUT_WAITING"}
  /\ writeStatus' = [writeStatus EXCEPT ![s] = IF @ = "WRITING" THEN "TIMEOUT_WAITING"
                                               ELSE "TIMEOUT"]
  /\ UNCHANGED <<heard, choice, activeSouce, application, looper, player, playState,
                 life, timed, terminator>>

\* feedPcm: a stream that can be read no more, or a file at its end, is played
\* out.  It is called as long as the player runs.
FeedLast(s) ==
  /\ player = s /\ pc # "acquired"
  /\ s \in Streams => writeStatus[s] # "WRITING"
  /\ playState[s] # "NO_MORE"
  /\ playState' = [playState EXCEPT ![s] = "NO_MORE"]
  /\ UNCHANGED <<choice, activeSouce, application, looper, player, life, stream, timed,
                 terminator>>
-----------------------------------------------------------------------------
(* The looper *)

\* A round begins with schedualRecord.  Disposing of a talk stops the recorder,
\* which terminates the source that plays, if there was a recording to stop.
Wake ==
  /\ pc = "wait" /\ recording # "freed"
  /\ pc' = "ending"
  /\ recording' = IF recording = "stopping" THEN "stopped" ELSE recording
  /\ \/ UNCHANGED playState
     \/ /\ recording = "stopping" /\ activeSouce # Nobody
        /\ playState' = [playState EXCEPT ![activeSouce] = "NO_MORE"]
  /\ UNCHANGED <<engrossId, calls, number, cursor, choice, activeSouce,
                 player, life, stream, timed, terminator>>

\* Or it begins with a stopped talk whose transaction is closed: it is deleted.
WakeDeletes ==
  /\ pc = "wait" /\ recording = "stopped"
  /\ pc' = "forgetting"
  /\ recording' = "freed"
  /\ life' = Astray
  /\ UNCHANGED <<engrossId, calls, number, cursor, choice, activeSouce,
                 player, playState, stream, timed, terminator>>

TalkForgotten ==
  /\ pc = "forgetting"
  /\ pc' = "ending"
  /\ recording' = "none"
  /\ UNCHANGED <<engrossId, calls, number, cursor, choice, activeSouce,
                 player, playState, life, stream, timed, terminator>>

\* processSourceEnd: the active source is over, preempted or excluded.
MustStop ==
  \/ playState[activeSouce] = "NO_MORE"
  \/ preemptionSource # Nobody
  \/ engrossId # Normal /\ engrossId # PermitOf[activeSouce]

SourceStays ==
  /\ pc = "ending"
  /\ activeSouce # Nobody => ~MustStop
  /\ pc' = "electing"
  /\ UNCHANGED <<choice, activeSouce, application, number, cursor, player,
                 playState, life, stream, timed, terminator>>

\* stopTrack: the player stops, which waits for its callback, and is released.
SourceStops ==
  /\ pc = "ending"
  /\ activeSouce # Nobody /\ MustStop
  /\ IF player = activeSouce
     THEN /\ player' = Nobody
          /\ playState' = [playState EXCEPT ![activeSouce] = "PLAYED"]
     ELSE UNCHANGED <<player, playState>>
  /\ pc' = "clearing"
  /\ UNCHANGED <<choice, activeSouce, application, number, cursor, life,
                 stream, timed, terminator>>

SourceCleared ==
  /\ pc = "clearing"
  /\ activeSouce' = Nobody
  /\ pc' = "electing"
  /\ UNCHANGED <<choice, application, number, cursor, player, playState, life,
                 stream, timed, terminator>>

\* The source that is being started: the preemption, or else the one elected.
Candidate == IF preemptionSource # Nobody THEN preemptionSource ELSE sourceList[cursor]

\* processNormal and processEngross: waiting, predicted to last, and permitted.
Electable(s) ==
  /\ playState[s] = "WAITING"
  /\ s \in Streams => heard[s] = "enough"
  /\ engrossId = PermitOf[s]

\* The election goes on behind the cursor.
Electables == {i \in cursor .. Len(sourceList) : Electable(sourceList[i])}

\* What is to be started next, and its place in the list if it is elected.
ToStart(i) ==
  /\ pc = "electing" /\ activeSouce = Nobody
  /\ IF preemptionSource # Nobody THEN i = 1
     ELSE i \in Electables /\ \A j \in Electables : i <= j

\* startTrack, up to the player's acquisition.
Acquire(i) ==
  /\ ToStart(i)
  /\ player = Nobody
  /\ cursor' = i
  /\ pc' = "acquired"
  /\ player' = IF preemptionSource # Nobody THEN preemptionSource ELSE sourceList[i]
  /\ playState[player'] = "WAITING"
  /\ UNCHANGED <<choice, activeSouce, application, number, playState, life,
                 stream, timed, terminator>>

\* After a failed start the election begins, or goes on.
GoOn(i) ==
  /\ pc' = "electing"
  /\ cursor' = IF preemptionSource # Nobody THEN 1 ELSE i + 1
  /\ preemptionSource' = Nobody

\* It does not wait any more, there is no decoder, or no player to be had.
NotAcquired(i) ==
  /\ ToStart(i)
  /\ GoOn(i)
  /\ UNCHANGED <<sourceList, activeSouce, application, number, player,
                 playState, life, stream, timed, terminator>>

StartPlay ==
  /\ pc = "acquired"
  /\ pc' = "started"
  /\ UNCHANGED <<choice, activeSouce, application, number, cursor, player,
                 playState, life, stream, timed, terminator>>

\* Seeded fault: the error path does not release the player.
NotStartedKeeps ==
  /\ pc = "acquired"
  /\ GoOn(cursor)
  /\ UNCHANGED <<sourceList, activeSouce, application, number, player,
                 playState, life, stream, timed, terminator>>

\* startPlay fails, and the player is released.
NotStarted ==
  /\ pc = "acquired"
  /\ player' = Nobody
  /\ GoOn(cursor)
  /\ UNCHANGED <<sourceList, activeSouce, application, number, playState, life,
                 stream, timed, terminator>>

\* The rest of startTrack, which overwrites what the callback may have set, and
\* the new active source.
Playing ==
  /\ pc = "started"
  /\ playState' = [playState EXCEPT ![Candidate] = "PLAYING"]
  /\ timed' = timed \cup ({Candidate} \cap Streams)
  /\ activeSouce' = Candidate
  /\ preemptionSource' = Nobody
  /\ pc' = "electing"
  /\ UNCHANGED <<sourceList, application, number, cursor, player, life, stream,
                 terminator>>

\* Seeded fault: the wait for the next round is not counted.
RoundsUncounted == 0

\* The looper counts the rounds in which it finds an active source.
Rounds == IF activeSouce # Nobody THEN number + 1 ELSE 0

\* spsReadyForDestroy marks a stream that ended without a payload type played.
Marked(s) == s \in Streams /\ heard[s] = "nothing" /\ Over(s)

\* Seeded fault: a stream whose end came is not ready, only one that timed out.
ReadyForDestroyIfTimedOut(s) ==
  /\ playState[s] = "PLAYED" \/ Marked(s)
  /\ s \in Streams => writeStatus[s] = "TIMEOUT"

\* Seeded fault: a source that is to be stopped counts as stopped.
ReadyForDestroyEarly(s) ==
  /\ playState[s] \in {"PLAYED", "NO_MORE"} \/ Marked(s)
  /\ Over(s)

ReadyForDestroy(s) ==
  /\ playState[s] = "PLAYED" \/ Marked(s)
  /\ Over(s)

\* The election is over; the list is walked again, to reclaim.
Elected ==
  /\ pc = "electing"
  /\ activeSouce # Nobody \/ (preemptionSource = Nobody /\ Electables = {})
  /\ pc' = "reclaiming"
  /\ cursor' = 1
  /\ UNCHANGED <<choice, activeSouce, application, number, player, playState, life,
                 stream, timed, terminator>>

\* The walk does not come back to what it has found not ready.
Reclaimables == {i \in cursor .. Len(sourceList) : ReadyForDestroy(sourceList[i])}

\* What is played and received is disposed of, erased and deleted.
Reclaim(i) ==
  /\ pc = "reclaiming"
  /\ i \in Reclaimables /\ \A j \in Reclaimables : i <= j
  /\ LET s == sourceList[i]
     IN /\ life' = [life EXCEPT ![s] = "deleted"]
        /\ playState' = [playState EXCEPT ![s] = "PLAYED"]
  /\ sourceList' = RemoveAt(sourceList, i)
  /\ cursor' = i
  /\ UNCHANGED <<preemptionSource, activeSouce, application, number, pc, player, stream,
                 timed, terminator>>

RoundEnds ==
  /\ pc = "reclaiming"
  /\ Reclaimables = {}
  /\ number' = Rounds
  /\ pc' = IF number' > RoundLimit THEN "limit" ELSE "wait"
  /\ cursor' = 1
  /\ UNCHANGED <<choice, activeSouce, application, player, playState, life, stream, timed,
                 terminator>>

\* Seeded fault: the count goes on after the limit.
LimitKeepsCount ==
  /\ pc = "limit"
  /\ playState' = [playState EXCEPT ![activeSouce] = "NO_MORE"]
  /\ pc' = "wait"
  /\ UNCHANGED <<choice, activeSouce, application, number, cursor, player, life,
                 stream, timed, terminator>>

\* After too many rounds the active source is cut, evMutex released.
Limit ==
  /\ pc = "limit"
  /\ playState' = [playState EXCEPT ![activeSouce] = "NO_MORE"]
  /\ number' = 0
  /\ pc' = "wait"
  /\ UNCHANGED <<choice, activeSouce, application, cursor, player, life,
                 stream, timed, terminator>>
-----------------------------------------------------------------------------
Places == 1 .. Len(sourceList) + 1

Start == StartPlay \/ Playing \/ \E i \in Places : Acquire(i)

LooperStep ==
  \/ Wake \/ WakeDeletes \/ TalkForgotten \/ SourceStays \/ SourceStops \/ SourceCleared
  \/ Start \/ NotStarted \/ (\E i \in Places : NotAcquired(i))
  \/ Elected \/ (\E i \in Places : Reclaim(i)) \/ RoundEnds \/ Limit

Next ==
  /\ ~dead
  /\ \/ LooperStep
     \/ \E s \in Sources : DelegateTest(s) \/ LookFetch(s) \/ LookAsk(s) \/ LookAstray(s)
                            \/ Delegate(s) \/ FeedLast(s)
     \/ \E s \in Streams : Hear(s) \/ HearEnd(s) \/ WriteTimeout(s)
     \/ \E permit \in {PermitOf[s] : s \in Sources} \cup {Normal} : Engross(permit)
     \/ StartTalk \/ StopTalk \/ DeleteTalk \/ ClearTalk
     \/ TerminateTest \/ TerminateLoad \/ TerminateSet

Spec == Init /\ [][Next]_vars

\* The looper comes round and whoever deletes a talk gives evMutex back, the
\* player calls back, and the player that is tried again and again is had at
\* last.  Nothing is assumed of the senders, of the timer or of the application.
Fairness ==
  /\ WF_vars(~dead /\ (LooperStep \/ ClearTalk))
  /\ WF_vars(~dead /\ \E s \in Sources : FeedLast(s))
  /\ SF_vars(~dead /\ \E i \in Places : Acquire(i))
  /\ SF_vars(~dead /\ StartPlay)

FairSpec == Spec /\ Fairness
-----------------------------------------------------------------------------
(* Properties *)

\* What the looper and the player's callback hold is in the list and has not
\* been deleted, through preemptions that overwrite each other, failed starts
\* and streams that end before they are played.
ReferencesLive ==
  /\ {activeSouce, preemptionSource, player} \subseteq ToSet(sourceList) \cup {Nobody}
  /\ ToSet(sourceList) = Listed

\* The only player is never lost: outside a start it is the active source that
\* has it, and when nothing is active it is free.
PlayerHeldByActive ==
  pc \notin {"acquired", "started", "clearing"} => player = activeSouce

\* No source keeps the scheduler for ever, not even one whose sender never stops
\* and never falls silent.
NobodyPlaysForEver == activeSouce # Nobody ~> (activeSouce = Nobody \/ dead)

\* A stream that plays and is received to its end is deleted, whatever cuts it;
\* only a terminatePlay that comes after it was stopped can leave it behind.
EndedIsReleased ==
  \A s \in Streams :
    (activeSouce = s /\ Over(s)) ~> (life[s] = "deleted" \/ s \in overtaken \/ dead)

\* A file that was taken is played and deleted once no session is exclusive,
\* though another file may take over its preemption and its start may fail.
Released(f) ==
  life[f] = "listed" ~>
    (life[f] = "deleted" \/ f \in overtaken \/ engrossId # Normal \/ dead)
=============================================================================
