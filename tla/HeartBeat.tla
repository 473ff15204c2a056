------------------------------ MODULE HeartBeat ------------------------------
(***************************************************************************)
(* The heartbeats of an endpoint.  A session starts one to its remote, and *)
(* takes its reference back when it is released; sessions to one remote    *)
(* share a counter.  The application's minute tick sends the heartbeats,   *)
(* the receive looper notes the answers, and the one-second timer looks    *)
(* for those that stay out and retries them a few times.                   *)
(*                                                                         *)
(* addHeartBeat, removeHeartBeat, rtcKeepAlive and the receive looper hold *)
(* hbMutex; the timer does not, and reads and writes the counters under    *)
(* its own `lock`.  The grain is that of TimerTrigger.  The application    *)
(* calls from one thread.  Each second the timer's walk and, once a        *)
(* minute, the minute tick end before the next second; what happens within *)
(* a second comes in any order.  That the source runs while a counter is   *)
(* listed is TimerTrigger's matter.                                        *)
(***************************************************************************)
EXTENDS Integers, Sequences, SequencesExt, FiniteSets

CONSTANTS
  Sessions, Remotes,
  RemoteOf,     \* the remote address of each session
  Counters,     \* the HBTimeOutRetryCounters, in the order they are made
  None,         \* NULL, or end()
  Interval,     \* hbInterCount: half a second in ticks of one second, 1
  Retries,      \* hbTimeOutRetryCnt: 5
  Minute,       \* seconds from one onMiniteTick to the next: 60
  Quiet,        \* the silence after which fireHeartBeat forgives: 80
  MaxStarts     \* bound on the startHeartBeat of a session

ASSUME HeartBeatAssumption ==
  /\ IsFiniteSet(Sessions)
  /\ RemoteOf \in [Sessions -> Remotes]
  /\ None \notin Counters /\ None \notin Remotes
  /\ Counters \in SUBSET Nat /\ Retries \in Nat /\ MaxStarts \in Nat
  /\ Interval \in Nat \ {0} /\ Minute \in Nat \ {0} /\ Quiet \in Nat

VARIABLES
  heartBeatExecs,       \* list<HBIntervalCounter*>
  life, remote, refCount,   \* each counter: new, live or freed; its address
  count,                \* TickCounter::count
  hbRetryTimeoutCount, curHbTimeOutRetryCnt,
  sinceFire, sinceRsp,  \* whole seconds since lastFireSec and lastHBRsp
  unanswered,           \* lastHBRsp < lastFireSec
  waitList,             \* the timer's list
  tpc, cursor, lstreStart,  \* the timer's thread
  apc, hand,            \* the application's thread; the counter it removes
  session, starts,      \* what became of each session, and its startHeartBeats
  second, minuteDue, timerDue,  \* the clock
  silent,               \* the remotes will never answer again
  robbed,               \* history: remotes that lost a reference nobody took
  overtaken,            \* history: counters deleted while the timer had them
  crashed               \* the timer went through a freed pointer

timing == <<count, hbRetryTimeoutCount, curHbTimeOutRetryCnt, sinceFire, sinceRsp, unanswered>>
owners == <<heartBeatExecs, life, remote, refCount>>
timer == <<waitList, tpc, cursor, lstreStart>>
application == <<apc, hand, session, starts, robbed, overtaken>>
clock == <<second, minuteDue, timerDue>>
vars == <<owners, timing, timer, application, clock, silent, crashed>>

\* Times are compared with Quiet only: what is longer is as long.
Ages == 0 .. Quiet + 1
Older(age) == IF age > Quiet THEN age ELSE age + 1

TypeOK ==
  /\ heartBeatExecs \in Seq(Counters) /\ waitList \in Seq(Counters)
  /\ lstreStart \in Seq(Counters)
  /\ life \in [Counters -> {"new", "live", "freed"}]
  /\ remote \in [Counters -> Remotes \cup {None}]
  /\ refCount \in [Counters -> Nat]
  /\ count \in [Counters -> 0 .. Interval + Retries]
  /\ hbRetryTimeoutCount \in [Counters -> 0 .. Interval + Retries]
  /\ curHbTimeOutRetryCnt \in [Counters -> 0 .. Retries]
  /\ sinceFire \in [Counters -> Ages] /\ sinceRsp \in [Counters -> Ages]
  /\ unanswered \in [Counters -> BOOLEAN]
  /\ tpc \in {"idle", "begun", "walk", "retry", "giveUp", "rejoin"}
  /\ cursor \in Counters \cup {None}
  /\ apc \in {"idle", "keeping", "unregister", "erase", "delete"}
  /\ hand \in Counters \cup {None}
  /\ session \in [Sessions -> {"open", "released"}]
  /\ starts \in [Sessions -> 0 .. MaxStarts]
  /\ second \in 0 .. Minute - 1
  /\ minuteDue \in BOOLEAN /\ timerDue \in BOOLEAN
  /\ silent \in BOOLEAN /\ crashed \in BOOLEAN
  /\ robbed \subseteq Remotes /\ overtaken \subseteq Counters

Init ==
  /\ heartBeatExecs = <<>> /\ waitList = <<>> /\ lstreStart = <<>>
  /\ life = [c \in Counters |-> "new"]
  /\ remote = [c \in Counters |-> None]
  /\ refCount = [c \in Counters |-> 0]
  /\ count = [c \in Counters |-> 0]
  /\ hbRetryTimeoutCount = [c \in Counters |-> 0]
  /\ curHbTimeOutRetryCnt = [c \in Counters |-> 0]
  /\ sinceFire = [c \in Counters |-> 0] /\ sinceRsp = [c \in Counters |-> 0]
  /\ unanswered = [c \in Counters |-> FALSE]
  /\ tpc = "idle" /\ cursor = None /\ apc = "idle" /\ hand = None
  /\ session = [s \in Sessions |-> "open"] /\ starts = [s \in Sessions |-> 0]
  /\ second = 0 /\ minuteDue = FALSE /\ timerDue = FALSE
  /\ silent = FALSE /\ crashed = FALSE /\ robbed = {} /\ overtaken = {}

Beating(c) == c \in ToSet(heartBeatExecs)
LockFree == tpc \in {"idle", "begun", "rejoin"}    \* the timer's lock
HbMutexFree == apc = "idle"
Matching(r) == {c \in ToSet(heartBeatExecs) : remote[c] = r}
-----------------------------------------------------------------------------
(* The application: startHeartBeat, onMiniteTick, releaseSession *)

\* Seeded fault: the shared counter does not count its second user.
AddHeartBeatUncounted(s) ==
  /\ apc = "idle"
  /\ session[s] = "open" /\ starts[s] < MaxStarts
  /\ Matching(RemoteOf[s]) # {}
  /\ starts' = [starts EXCEPT ![s] = @ + 1]
  /\ UNCHANGED <<owners, timing, timer, apc, hand, session, robbed, overtaken, clock,
                 silent, crashed>>

\* The remote has a counter already.
AddHeartBeat(s) ==
  /\ apc = "idle"
  /\ session[s] = "open" /\ starts[s] < MaxStarts
  /\ \E c \in Matching(RemoteOf[s]) : refCount' = [refCount EXCEPT ![c] = @ + 1]
  /\ starts' = [starts EXCEPT ![s] = @ + 1]
  /\ UNCHANGED <<heartBeatExecs, life, remote, timing, timer, apc, hand, session, robbed,
                 overtaken, clock, silent, crashed>>

\* A counter is made, two heartbeats are sent, and the timer gets it.
AddFirstHeartBeat(s, c) ==
  /\ apc = "idle"
  /\ session[s] = "open" /\ starts[s] < MaxStarts
  /\ Matching(RemoteOf[s]) = {}
  /\ life[c] = "new" /\ \A d \in Counters : d < c => life[d] # "new"
  /\ LockFree
  /\ life' = [life EXCEPT ![c] = "live"]
  /\ remote' = [remote EXCEPT ![c] = RemoteOf[s]]
  /\ refCount' = [refCount EXCEPT ![c] = 1]
  /\ hbRetryTimeoutCount' = [hbRetryTimeoutCount EXCEPT ![c] = Interval]
  /\ waitList' = Append(waitList, c)
  /\ heartBeatExecs' = Append(heartBeatExecs, c)
  /\ starts' = [starts EXCEPT ![s] = @ + 1]
  /\ UNCHANGED <<count, curHbTimeOutRetryCnt, sinceFire, sinceRsp, unanswered, tpc, cursor,
                 lstreStart, apc, hand, session, robbed, overtaken, clock, silent, crashed>>

\* The minute tick takes hbMutex.
KeepAliveBegin ==
  /\ apc = "idle" /\ minuteDue
  /\ apc' = IF heartBeatExecs = <<>> THEN "idle" ELSE "keeping"
  /\ hand' = IF heartBeatExecs = <<>> THEN None ELSE Head(heartBeatExecs)
  /\ minuteDue' = (heartBeatExecs # <<>>)
  /\ UNCHANGED <<owners, timing, timer, session, starts, robbed, overtaken, second, timerDue,
                 silent, crashed>>

\* The heartbeat sent a minute ago, or its answer, is so old that the phone
\* must have slept: it counts as answered.
Forgiven(c) == sinceFire[c] > Quiet \/ sinceRsp[c] > Quiet

\* fireHeartBeat.  An answer to the last heartbeat that came in this very
\* second counts for this one too.
FireHeartBeat(c) ==
  /\ sinceFire' = [sinceFire EXCEPT ![c] = 0]
  /\ sinceRsp' = [sinceRsp EXCEPT ![c] = IF Forgiven(c) THEN 0 ELSE @]
  /\ unanswered' = [unanswered EXCEPT ![c] = sinceRsp'[c] > 0]

NextInList(c) ==
  LET i == CHOOSE i \in DOMAIN heartBeatExecs : heartBeatExecs[i] = c
  IN IF i = Len(heartBeatExecs) THEN None ELSE heartBeatExecs[i + 1]

\* Seeded fault: a counter that gave up is not put to work again.
RtcKeepAliveGivenUp ==
  /\ apc = "keeping"
  /\ FireHeartBeat(hand)
  /\ count' = [count EXCEPT ![hand] = 0]
  /\ curHbTimeOutRetryCnt' = [curHbTimeOutRetryCnt EXCEPT ![hand] = 0]
  /\ hbRetryTimeoutCount' = [hbRetryTimeoutCount EXCEPT ![hand] = IF @ = 0 THEN 0 ELSE Interval]
  /\ hand' = NextInList(hand)
  /\ apc' = IF hand' = None THEN "idle" ELSE "keeping"
  /\ minuteDue' = (hand' # None)
  /\ UNCHANGED <<owners, timer, session, starts, robbed, overtaken, second, timerDue, silent,
                 crashed>>

\* rtcKeepAlive of the next counter, without the timer's lock.
RtcKeepAlive ==
  /\ apc = "keeping"
  /\ FireHeartBeat(hand)
  /\ count' = [count EXCEPT ![hand] = 0]
  /\ curHbTimeOutRetryCnt' = [curHbTimeOutRetryCnt EXCEPT ![hand] = 0]
  /\ hbRetryTimeoutCount' = [hbRetryTimeoutCount EXCEPT ![hand] = Interval]
  /\ hand' = NextInList(hand)
  /\ apc' = IF hand' = None THEN "idle" ELSE "keeping"
  /\ minuteDue' = (hand' # None)
  /\ UNCHANGED <<owners, timer, session, starts, robbed, overtaken, second, timerDue, silent,
                 crashed>>

\* Seeded fault: the counter is deleted without being unregistered.
ReleaseSessionAtOnce(s) ==
  LET found == Matching(RemoteOf[s])
      last == {c \in found : refCount[c] <= 1}
  IN /\ apc = "idle"
     /\ session[s] = "open"
     /\ session' = [session EXCEPT ![s] = "released"]
     /\ refCount' = [c \in Counters |-> IF c \in found THEN refCount[c] - 1 ELSE refCount[c]]
     /\ hand' = IF last = {} THEN None ELSE CHOOSE c \in last : TRUE
     /\ heartBeatExecs' = RemoveFirst(heartBeatExecs, hand')
     /\ apc' = IF last = {} THEN "idle" ELSE "delete"
     /\ robbed' = IF found # {} /\ starts[s] = 0 THEN robbed \cup {RemoteOf[s]} ELSE robbed
     /\ UNCHANGED <<life, remote, timing, timer, starts, overtaken, clock, silent, crashed>>

\* disconnect: the reference is given back, whether the session took one or
\* not; with the last one the counter leaves the list.  The walk finds one counter
\* at the most, as addHeartBeat makes one only for a remote that has none.
ReleaseSession(s) ==
  LET found == Matching(RemoteOf[s])
      last == {c \in found : refCount[c] <= 1}
  IN /\ apc = "idle"
     /\ session[s] = "open"
     /\ session' = [session EXCEPT ![s] = "released"]
     /\ refCount' = [c \in Counters |-> IF c \in found THEN refCount[c] - 1 ELSE refCount[c]]
     /\ hand' = IF last = {} THEN None ELSE CHOOSE c \in last : TRUE
     /\ heartBeatExecs' = RemoveFirst(heartBeatExecs, hand')
     /\ apc' = IF last = {} THEN "idle" ELSE "unregister"
     /\ robbed' = IF found # {} /\ starts[s] = 0 THEN robbed \cup {RemoteOf[s]} ELSE robbed
     /\ UNCHANGED <<life, remote, timing, timer, starts, overtaken, clock, silent, crashed>>

\* What the timer's thread has in its hands, wherever the list stands.
TimersHands == ToSet(lstreStart) \cup {cursor}

\* History: the removal came while the timer had the counter.
NoteOvertaking ==
  overtaken' = IF hand \in TimersHands THEN overtaken \cup {hand} ELSE overtaken

\* unregisterWaiter tests the size of the list without the lock.  The timers of
\* queues, which are in the same list, may keep it from being empty.
UnregisterTest ==
  /\ apc = "unregister"
  /\ apc' \in IF waitList = <<>> THEN {"erase", "delete"} ELSE {"erase"}
  /\ NoteOvertaking
  /\ UNCHANGED <<owners, timing, timer, hand, session, starts, robbed, clock, silent, crashed>>

UnregisterErase ==
  /\ apc = "erase" /\ LockFree
  /\ waitList' = RemoveFirst(waitList, hand)
  /\ apc' = "delete"
  /\ NoteOvertaking
  /\ UNCHANGED <<owners, timing, tpc, cursor, lstreStart, hand, session, starts, robbed, clock,
                 silent, crashed>>

\* What a freed counter held is of no use any more.
DeleteCounter ==
  /\ apc = "delete"
  /\ life' = [life EXCEPT ![hand] = "freed"]
  /\ count' = [count EXCEPT ![hand] = 0]
  /\ hbRetryTimeoutCount' = [hbRetryTimeoutCount EXCEPT ![hand] = 0]
  /\ curHbTimeOutRetryCnt' = [curHbTimeOutRetryCnt EXCEPT ![hand] = 0]
  /\ sinceFire' = [sinceFire EXCEPT ![hand] = 0]
  /\ sinceRsp' = [sinceRsp EXCEPT ![hand] = 0]
  /\ unanswered' = [unanswered EXCEPT ![hand] = FALSE]
  /\ apc' = "idle" /\ hand' = None
  /\ NoteOvertaking
  /\ UNCHANGED <<heartBeatExecs, remote, refCount, timer, session, starts, robbed, clock,
                 silent, crashed>>
-----------------------------------------------------------------------------
(* The receive looper *)

\* A heartbeat's answer names no remote: the first counter gets it, whoever sent
\* it, at any time.
Response ==
  /\ HbMutexFree /\ ~silent
  /\ heartBeatExecs # <<>>
  /\ sinceRsp' = [sinceRsp EXCEPT ![Head(heartBeatExecs)] = 0]
  /\ unanswered' = [unanswered EXCEPT ![Head(heartBeatExecs)] = FALSE]
  /\ UNCHANGED <<owners, count, hbRetryTimeoutCount, curHbTimeOutRetryCnt, sinceFire, timer,
                 application, clock, silent, crashed>>
-----------------------------------------------------------------------------
(* The timer: traval, and HBTimeOutRetryCounter::matchCond *)

\* begin() is taken before the lock.
TravalBegin ==
  /\ tpc = "idle" /\ timerDue
  /\ timerDue' = FALSE
  /\ cursor' = IF waitList = <<>> THEN None ELSE Head(waitList)
  /\ tpc' = IF waitList = <<>> THEN "idle" ELSE "begun"
  /\ UNCHANGED <<owners, timing, waitList, lstreStart, application, second, minuteDue, silent,
                 crashed>>

TravalEnter ==
  /\ tpc = "begun"
  /\ tpc' = "walk"
  /\ UNCHANGED <<owners, timing, waitList, cursor, lstreStart, application, clock, silent,
                 crashed>>

AfterInWaitList(c) ==
  LET i == CHOOSE i \in DOMAIN waitList : waitList[i] = c
  IN IF i = Len(waitList) THEN None ELSE waitList[i + 1]

InHand(c) == tpc = "walk" /\ cursor = c /\ c \in ToSet(waitList) /\ life[c] = "live"
Due(c) == hbRetryTimeoutCount[c] > 0 /\ count[c] >= hbRetryTimeoutCount[c]

\* Not due yet: the counter counts the second.
MatchInc(c) ==
  /\ InHand(c)
  /\ count[c] < hbRetryTimeoutCount[c]
  /\ count' = [count EXCEPT ![c] = @ + 1]
  /\ cursor' = AfterInWaitList(c)
  /\ UNCHANGED <<owners, hbRetryTimeoutCount, curHbTimeOutRetryCnt, sinceFire, sinceRsp,
                 unanswered, waitList, tpc, lstreStart, application, clock, silent, crashed>>

\* It has given up, or the last heartbeat is answered.
MatchReset(c) ==
  /\ InHand(c)
  /\ \/ hbRetryTimeoutCount[c] = 0
     \/ Due(c) /\ ~unanswered[c] /\ curHbTimeOutRetryCnt[c] < Retries
  /\ count' = [count EXCEPT ![c] = 0]
  /\ cursor' = AfterInWaitList(c)
  /\ UNCHANGED <<owners, hbRetryTimeoutCount, curHbTimeOutRetryCnt, sinceFire, sinceRsp,
                 unanswered, waitList, tpc, lstreStart, application, clock, silent, crashed>>

\* Seeded fault: one retry too many.
MatchOverdueLate(c) ==
  /\ InHand(c) /\ Due(c)
  /\ \/ unanswered[c] /\ curHbTimeOutRetryCnt[c] <= Retries /\ tpc' = "retry"
     \/ curHbTimeOutRetryCnt[c] > Retries /\ tpc' = "giveUp"
  /\ UNCHANGED <<owners, timing, waitList, cursor, lstreStart, application, clock, silent,
                 crashed>>

\* The answer stays out, and the counter is to be retried or given up.  After
\* the last retry it is given up even if the answer has come.
MatchOverdue(c) ==
  /\ InHand(c) /\ Due(c)
  /\ \/ unanswered[c] /\ curHbTimeOutRetryCnt[c] < Retries /\ tpc' = "retry"
     \/ curHbTimeOutRetryCnt[c] >= Retries /\ tpc' = "giveUp"
  /\ UNCHANGED <<owners, timing, waitList, cursor, lstreStart, application, clock, silent,
                 crashed>>

\* RESTART: the counter leaves the list, to be registered again after the walk.
Restart ==
  /\ waitList' = RemoveFirst(waitList, cursor)
  /\ lstreStart' = Append(lstreStart, cursor)
  /\ count' = [count EXCEPT ![cursor] = 0]
  /\ cursor' = AfterInWaitList(cursor)
  /\ tpc' = "walk"

\* Nothing is sent.  A minute tick may have come since matchCond looked.
Retry ==
  /\ tpc = "retry"
  /\ Restart
  /\ curHbTimeOutRetryCnt' = [curHbTimeOutRetryCnt EXCEPT ![cursor] = @ + 1]
  /\ hbRetryTimeoutCount' = [hbRetryTimeoutCount EXCEPT ![cursor] = @ + 1]
  /\ UNCHANGED <<owners, sinceFire, sinceRsp, unanswered, application, clock, silent, crashed>>

GiveUp ==
  /\ tpc = "giveUp"
  /\ Restart
  /\ curHbTimeOutRetryCnt' = [curHbTimeOutRetryCnt EXCEPT ![cursor] = 0]
  /\ hbRetryTimeoutCount' = [hbRetryTimeoutCount EXCEPT ![cursor] = 0]
  /\ UNCHANGED <<owners, sinceFire, sinceRsp, unanswered, application, clock, silent, crashed>>

\* The node or the counter under the iterator is freed.  Its content may
\* survive, and the walk goes on from any node; or the process dies.
TravalDangling ==
  /\ tpc = "walk" /\ cursor # None
  /\ cursor \notin ToSet(waitList) \/ life[cursor] = "freed"
  /\ \/ crashed' = TRUE /\ UNCHANGED cursor
     \/ cursor' \in (ToSet(waitList) \cup {None}) \ {cursor} /\ UNCHANGED crashed
  /\ UNCHANGED <<owners, timing, waitList, tpc, lstreStart, application, clock, silent>>

TravalLeave ==
  /\ tpc = "walk" /\ cursor = None
  /\ tpc' = IF lstreStart = <<>> THEN "idle" ELSE "rejoin"
  /\ UNCHANGED <<owners, timing, waitList, cursor, lstreStart, application, clock, silent,
                 crashed>>

\* registerWaiter of the next RESTART counter, which may have been deleted.
TravalRejoin ==
  /\ tpc = "rejoin"
  /\ waitList' = Append(waitList, Head(lstreStart))
  /\ lstreStart' = Tail(lstreStart)
  /\ tpc' = IF Len(lstreStart) = 1 THEN "idle" ELSE "rejoin"
  /\ UNCHANGED <<owners, timing, cursor, application, clock, silent, crashed>>
-----------------------------------------------------------------------------
(* Time, and the network *)

Second ==
  /\ tpc = "idle" /\ ~timerDue /\ ~minuteDue
  /\ second' = (second + 1) % Minute
  /\ minuteDue' = (second' = 0) /\ timerDue' = TRUE
  /\ sinceFire' = [c \in Counters |-> IF life[c] = "live" THEN Older(sinceFire[c]) ELSE sinceFire[c]]
  /\ sinceRsp' = [c \in Counters |-> IF life[c] = "live" THEN Older(sinceRsp[c]) ELSE sinceRsp[c]]
  /\ UNCHANGED <<owners, count, hbRetryTimeoutCount, curHbTimeOutRetryCnt, unanswered, timer,
                 application, silent, crashed>>

FallSilent ==
  /\ ~silent
  /\ silent' = TRUE
  /\ UNCHANGED <<owners, timing, timer, application, clock, crashed>>
-----------------------------------------------------------------------------
Traval ==
  \/ TravalBegin \/ TravalEnter \/ TravalDangling \/ TravalLeave \/ TravalRejoin
  \/ Retry \/ GiveUp
  \/ \E c \in Counters : MatchInc(c) \/ MatchReset(c) \/ MatchOverdue(c)

\* What the application's thread has begun, or owes the minute tick.
Ongoing ==
  KeepAliveBegin \/ RtcKeepAlive \/ UnregisterTest \/ UnregisterErase \/ DeleteCounter

Next ==
  /\ ~crashed
  /\ \/ Traval \/ Ongoing \/ Response \/ Second \/ FallSilent
     \/ \E s \in Sessions : AddHeartBeat(s) \/ ReleaseSession(s)
     \/ \E s \in Sessions, c \in Counters : AddFirstHeartBeat(s, c)

Spec == Init /\ [][Next]_vars

\* Time goes on, the timer's thread runs, and the application's thread ends
\* what it has begun.  Nothing is assumed of the remotes.
Fairness ==
  /\ WF_vars(~crashed /\ Second)
  /\ WF_vars(~crashed /\ Traval)
  /\ WF_vars(~crashed /\ Ongoing)

FairSpec == Spec /\ Fairness
-----------------------------------------------------------------------------
(* Properties *)

\* The timer holds a deleted counter only if the deletion overtook it: it came
\* while the counter was under the walk's iterator or waited to be registered
\* again.  Any other removeHeartBeat leaves no pointer behind, although the
\* counter is deleted by one thread and ticked by another.
FreedOnlyUnderTheWalk ==
  \A c \in ToSet(waitList) \cup TimersHands :
    c # None /\ life[c] = "freed" => c \in overtaken

\* A session that started its heartbeat keeps it until it is released, though
\* sessions to the same remote come and go: only the release of one that never
\* started any can take it away.
BeatsWhileWanted ==
  \A s \in Sessions :
    session[s] = "open" /\ starts[s] > 0 =>
      Matching(RemoteOf[s]) # {} \/ RemoteOf[s] \in robbed

\* Once no remote answers, every counter is noticed: it is retried, although
\* counters give up, are forgiven for old silences, and race the minute tick.
\* Only a walk that stumbles over a freed counter each second may pass it over.
SilenceIsNoticed ==
  \A c \in Counters :
    (silent /\ Beating(c)) ~>
      (c \in ToSet(lstreStart) \/ ~Beating(c) \/ overtaken # {})
=============================================================================
