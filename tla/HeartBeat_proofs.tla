-------------------------- MODULE HeartBeat_proofs --------------------------
(***************************************************************************)
(* A counter beats while a session wants it, and the timer keeps a freed   *)
(* one only when the removal came under its walk: for any sessions,        *)
(* remotes and counters, and any intervals and retries.                    *)
(***************************************************************************)
EXTENDS HeartBeat, FiniteSetTheorems, SequenceTheorems, WellFoundedInduction, TLAPS

\* No list has a counter twice, and one that waits to be registered again is
\* not registered.
ListedOnce ==
  /\ IsInjective(heartBeatExecs)
  /\ IsInjective(waitList) /\ IsInjective(lstreStart)
  /\ ToSet(waitList) \cap ToSet(lstreStart) = {}

\* Nobody has a counter before it is made, and the endpoint none that is freed.
MadeBeforeUse ==
  /\ \A c \in Counters : life[c] = "new" => c \notin ToSet(waitList) \cup TimersHands
  /\ \A c \in ToSet(heartBeatExecs) : life[c] = "live"

\* The timer's decision is about a listed counter, which has retries left.
WalkPlaces ==
  /\ tpc \in {"retry", "giveUp"} => cursor \in ToSet(waitList)
  /\ tpc = "retry" => curHbTimeOutRetryCnt[cursor] < Retries
  /\ tpc = "rejoin" => lstreStart # <<>>

\* The counter the application has in its hand.
HandPlaces ==
  /\ apc = "keeping" => hand \in ToSet(heartBeatExecs)
  /\ apc \in {"unregister", "erase", "delete"} => hand \in Counters \ ToSet(heartBeatExecs)
  /\ apc = "delete" => hand \in overtaken \/ hand \notin ToSet(waitList) \cup TimersHands

\* Each retry is a second later than the one before.
RetriesApart == \A c \in Counters : hbRetryTimeoutCount[c] <= Interval + curHbTimeOutRetryCnt[c]

\* The open sessions that started their heartbeat to r.
Wanting(r) == {s \in Sessions : RemoteOf[s] = r /\ session[s] = "open" /\ starts[s] > 0}

\* A counter of each remote, which counts them.
WantingCounted ==
  /\ \A c, d \in ToSet(heartBeatExecs) : remote[c] = remote[d] => c = d
  /\ \A c \in ToSet(heartBeatExecs) :
       /\ refCount[c] >= 1
       /\ remote[c] \in robbed \/ Cardinality(Wanting(remote[c])) <= refCount[c]

IInv ==
  /\ TypeOK
  /\ ListedOnce
  /\ MadeBeforeUse
  /\ WalkPlaces
  /\ HandPlaces
  /\ RetriesApart
  /\ WantingCounted
  /\ BeatsWhileWanted
  /\ FreedOnlyUnderTheWalk

USE DEF vars, timing, owners, timer, application, clock
-----------------------------------------------------------------------------
(* Lists without duplicates *)

LEMMA LeastNumber ==
  ASSUME NEW T \in SUBSET Nat, T # {}
  PROVE  \E x \in T : \A y \in T : x <= y
<1>1. \E x \in T : \A y \in T : ~(<<y, x>> \in OpToRel(<, Nat))
  BY NatLessThanWellFounded, WFMin, Zenon
<1>2. \A x, y \in Nat : <<y, x>> \in OpToRel(<, Nat) <=> y < x
  BY DEF OpToRel
<1>3. \A x, y \in Nat : ~(y < x) => x <= y
  OBVIOUS
<1> QED
  BY <1>1, <1>2, <1>3

\* RemoveFirst takes out one occurrence, if there is any.
LEMMA RemoveFirstAt ==
  ASSUME NEW S, NEW s \in Seq(S), NEW e, e \in ToSet(s)
  PROVE  \E i \in 1 .. Len(s) : s[i] = e /\ RemoveFirst(s, e) = RemoveAt(s, i)
<1> DEFINE I == {i \in 1 .. Len(s) : s[i] = e}
<1>1. I # {} /\ I \in SUBSET Nat
  BY DEF ToSet
<1>2. Min(I) \in I
  BY <1>1, LeastNumber DEF Min
<1>3. RemoveFirst(s, e) = RemoveAt(s, Min(I))
  BY <1>1 DEF RemoveFirst, SelectInSeq
<1> QED
  BY <1>2, <1>3

LEMMA RemoveAtIndices ==
  ASSUME NEW S, NEW s \in Seq(S), NEW i \in 1 .. Len(s)
  PROVE  /\ RemoveAt(s, i) \in Seq(S)
         /\ Len(RemoveAt(s, i)) = Len(s) - 1
         /\ \A j \in 1 .. Len(s) - 1 :
              RemoveAt(s, i)[j] = IF j < i THEN s[j] ELSE s[j + 1]
<1> DEFINE a == SubSeq(s, 1, i - 1)
           b == SubSeq(s, i + 1, Len(s))
<1>1. Len(s) \in Nat /\ i \in Int
  OBVIOUS
<1>2. /\ a \in Seq(S) /\ Len(a) = i - 1
      /\ \A j \in 1 .. i - 1 : a[j] = s[j]
  OBVIOUS
<1>3. /\ b \in Seq(S) /\ Len(b) = Len(s) - i
      /\ \A j \in 1 .. Len(s) - i : b[j] = s[j + i]
  OBVIOUS
<1> HIDE DEF a, b
<1>4. /\ a \o b \in Seq(S) /\ Len(a \o b) = Len(s) - 1
      /\ \A j \in 1 .. Len(s) - 1 :
           (a \o b)[j] = IF j <= i - 1 THEN a[j] ELSE b[j - (i - 1)]
  <2>1. Len(a) + Len(b) = Len(s) - 1
    BY <1>1, <1>2, <1>3
  <2>2. /\ a \o b \in Seq(S) /\ Len(a \o b) = Len(a) + Len(b)
        /\ \A j \in 1 .. Len(a) + Len(b) :
             (a \o b)[j] = IF j <= Len(a) THEN a[j] ELSE b[j - Len(a)]
    BY <1>2, <1>3, ConcatProperties
  <2> QED
    BY <1>2, <2>1, <2>2
<1>5. ASSUME NEW j \in 1 .. Len(s) - 1
      PROVE  (a \o b)[j] = IF j < i THEN s[j] ELSE s[j + 1]
  <2>1. CASE j < i
    BY <1>1, <1>2, <1>4, <2>1
  <2>2. CASE ~(j < i)
    <3>1. j - (i - 1) \in 1 .. Len(s) - i /\ (j - (i - 1)) + i = j + 1
      BY <1>1, <2>2
    <3> QED
      BY <1>1, <1>3, <1>4, <2>2, <3>1
  <2> QED
    BY <2>1, <2>2
<1> QED
  BY <1>4, <1>5 DEF RemoveAt, a, b

LEMMA RemoveFromInjective ==
  ASSUME NEW S, NEW s \in Seq(S), NEW e, IsInjective(s)
  PROVE  /\ RemoveFirst(s, e) \in Seq(S)
         /\ IsInjective(RemoveFirst(s, e))
         /\ ToSet(RemoveFirst(s, e)) = ToSet(s) \ {e}
<1>1. CASE e \notin ToSet(s)
  <2>1. RemoveFirst(s, e) = s
    BY <1>1 DEF RemoveFirst, SelectInSeq, ToSet
  <2> QED
    BY <1>1, <2>1
<1>2. CASE e \in ToSet(s)
  <2>1. PICK i \in 1 .. Len(s) : s[i] = e /\ RemoveFirst(s, e) = RemoveAt(s, i)
    BY <1>2, RemoveFirstAt
  <2> DEFINE r == RemoveAt(s, i)
  <2>2. /\ r \in Seq(S) /\ Len(r) = Len(s) - 1 /\ Len(s) \in Nat
        /\ \A j \in 1 .. Len(s) - 1 : r[j] = IF j < i THEN s[j] ELSE s[j + 1]
    BY RemoveAtIndices
  <2>3. DOMAIN r = 1 .. Len(s) - 1 /\ DOMAIN s = 1 .. Len(s)
    BY <2>2
  <2> HIDE DEF r
  <2>4. IsInjective(r)
    <3> SUFFICES ASSUME NEW j \in 1 .. Len(s) - 1, NEW k \in 1 .. Len(s) - 1, r[j] = r[k]
                 PROVE  j = k
      BY <2>3 DEF IsInjective
    <3>1. \A x, y \in 1 .. Len(s) : s[x] = s[y] => x = y
      BY <2>3 DEF IsInjective
    <3>2. /\ j \in 1 .. Len(s) /\ j + 1 \in 1 .. Len(s)
          /\ k \in 1 .. Len(s) /\ k + 1 \in 1 .. Len(s)
      BY <2>2
    <3> QED
      BY <2>2, <3>1, <3>2
  <2>5. ToSet(r) \subseteq ToSet(s) \ {e}
    BY <2>1, <2>2, <2>3 DEF ToSet, IsInjective
  <2>6. ASSUME NEW j \in 1 .. Len(s), s[j] # e PROVE s[j] \in ToSet(r)
    <3>1. CASE j < i
      BY <2>2, <2>3, <3>1 DEF ToSet
    <3>2. CASE j > i
      <4>1. j - 1 \in 1 .. Len(s) - 1 /\ ~(j - 1 < i) /\ (j - 1) + 1 = j
        BY <2>2, <3>2
      <4> QED
        BY <2>2, <2>3, <4>1 DEF ToSet
    <3> QED
      BY <2>1, <2>6, <3>1, <3>2
  <2>7. ToSet(r) = ToSet(s) \ {e}
    BY <2>3, <2>5, <2>6 DEF ToSet
  <2> QED
    BY <2>1, <2>2, <2>4, <2>7 DEF r
<1> QED
  BY <1>1, <1>2

LEMMA AppendToInjective ==
  ASSUME NEW S, NEW s \in Seq(S), NEW e \in S
  PROVE  /\ Append(s, e) \in Seq(S)
         /\ ToSet(Append(s, e)) = ToSet(s) \cup {e}
         /\ IsInjective(s) /\ e \notin ToSet(s) => IsInjective(Append(s, e))
<1>1. /\ DOMAIN Append(s, e) = 1 .. Len(s) + 1 /\ DOMAIN s = 1 .. Len(s)
      /\ Len(s) \in Nat /\ Append(s, e)[Len(s) + 1] = e
      /\ \A i \in 1 .. Len(s) : Append(s, e)[i] = s[i]
      /\ Append(s, e) \in Seq(S)
  OBVIOUS
<1>2. ToSet(Append(s, e)) = ToSet(s) \cup {e}
  BY <1>1 DEF ToSet
<1>3. IsInjective(s) /\ e \notin ToSet(s) => IsInjective(Append(s, e))
  BY <1>1 DEF ToSet, IsInjective
<1> QED
  BY <1>1, <1>2, <1>3

LEMMA TailOfInjective ==
  ASSUME NEW S, NEW s \in Seq(S), s # <<>>
  PROVE  /\ Tail(s) \in Seq(S) /\ Head(s) \in ToSet(s) /\ Head(s) \in S
         /\ ToSet(Tail(s)) \subseteq ToSet(s)
         /\ IsInjective(s) => IsInjective(Tail(s)) /\ Head(s) \notin ToSet(Tail(s))
<1>1. /\ DOMAIN Tail(s) = 1 .. Len(s) - 1 /\ DOMAIN s = 1 .. Len(s)
      /\ Len(s) \in Nat /\ Len(s) # 0 /\ Head(s) = s[1]
      /\ \A i \in 1 .. Len(s) - 1 : Tail(s)[i] = s[i + 1]
      /\ Tail(s) \in Seq(S) /\ Head(s) \in S
  OBVIOUS
<1>2. Head(s) \in ToSet(s) /\ ToSet(Tail(s)) \subseteq ToSet(s)
  BY <1>1 DEF ToSet
<1>3. IsInjective(s) => IsInjective(Tail(s)) /\ Head(s) \notin ToSet(Tail(s))
  BY <1>1 DEF ToSet, IsInjective
<1> QED
  BY <1>1, <1>2, <1>3

\* What follows a place of a list, or n at its end.
LEMMA Following ==
  ASSUME NEW S, NEW s \in Seq(S), NEW n, NEW i \in DOMAIN s
  PROVE  (IF i = Len(s) THEN n ELSE s[i + 1]) \in ToSet(s) \cup {n}
<1>1. DOMAIN s = 1 .. Len(s) /\ Len(s) \in Nat
  OBVIOUS
<1>2. i # Len(s) => i + 1 \in DOMAIN s
  BY <1>1
<1> QED
  BY <1>2 DEF ToSet

LEMMA Places ==
  ASSUME TypeOK
  PROVE  /\ ToSet(heartBeatExecs) \subseteq Counters /\ ToSet(waitList) \subseteq Counters
         /\ ToSet(lstreStart) \subseteq Counters /\ TimersHands \subseteq Counters \cup {None}
         /\ None \notin Counters
         /\ \A c \in ToSet(waitList) : AfterInWaitList(c) \in ToSet(waitList) \cup {None}
         /\ \A c \in ToSet(heartBeatExecs) : NextInList(c) \in ToSet(heartBeatExecs) \cup {None}
<1>1. /\ ToSet(heartBeatExecs) \subseteq Counters /\ ToSet(waitList) \subseteq Counters
      /\ ToSet(lstreStart) \subseteq Counters
  BY DEF TypeOK, ToSet
<1>2. TimersHands \subseteq Counters \cup {None}
  BY <1>1 DEF TypeOK, TimersHands
<1>3. \A c \in ToSet(waitList) : AfterInWaitList(c) \in ToSet(waitList) \cup {None}
  <2> SUFFICES ASSUME NEW c \in ToSet(waitList) PROVE AfterInWaitList(c) \in ToSet(waitList) \cup {None}
    OBVIOUS
  <2> DEFINE i == CHOOSE i \in DOMAIN waitList : waitList[i] = c
  <2>1. waitList \in Seq(Counters)
    BY DEF TypeOK
  <2>2. i \in DOMAIN waitList
    BY DEF ToSet
  <2>3. AfterInWaitList(c) = IF i = Len(waitList) THEN None ELSE waitList[i + 1]
    BY DEF AfterInWaitList
  <2> HIDE DEF i
  <2> QED
    BY <2>1, <2>2, <2>3, Following
<1>4. \A c \in ToSet(heartBeatExecs) : NextInList(c) \in ToSet(heartBeatExecs) \cup {None}
  <2> SUFFICES ASSUME NEW c \in ToSet(heartBeatExecs) PROVE NextInList(c) \in ToSet(heartBeatExecs) \cup {None}
    OBVIOUS
  <2> DEFINE i == CHOOSE i \in DOMAIN heartBeatExecs : heartBeatExecs[i] = c
  <2>1. heartBeatExecs \in Seq(Counters)
    BY DEF TypeOK
  <2>2. i \in DOMAIN heartBeatExecs
    BY DEF ToSet
  <2>3. NextInList(c) = IF i = Len(heartBeatExecs) THEN None ELSE heartBeatExecs[i + 1]
    BY DEF NextInList
  <2> HIDE DEF i
  <2> QED
    BY <2>1, <2>2, <2>3, Following
<1> QED
  BY <1>1, <1>2, <1>3, <1>4, HeartBeatAssumption
-----------------------------------------------------------------------------
(* The first state *)

LEMMA InitIInv == Init => IInv
<1> SUFFICES ASSUME Init PROVE IInv
  OBVIOUS
<1>1. TypeOK
  <2>1. 0 \in Ages /\ 0 \in 0 .. Interval + Retries /\ 0 \in 0 .. Retries /\ 0 \in 0 .. MaxStarts /\ 0 \in 0 .. Minute - 1
    BY HeartBeatAssumption DEF Ages
  <2>2. <<>> \in Seq(Counters)
    OBVIOUS
  <2>3. /\ sinceFire \in [Counters -> Ages] /\ sinceRsp \in [Counters -> Ages]
        /\ count \in [Counters -> 0 .. Interval + Retries]
        /\ hbRetryTimeoutCount \in [Counters -> 0 .. Interval + Retries]
        /\ curHbTimeOutRetryCnt \in [Counters -> 0 .. Retries] /\ starts \in [Sessions -> 0 .. MaxStarts]
    BY <2>1 DEF Init
  <2> QED
    BY <2>1, <2>2, <2>3 DEF Init, TypeOK
<1>2. ListedOnce /\ MadeBeforeUse /\ WalkPlaces /\ HandPlaces
  BY HeartBeatAssumption DEF Init, ListedOnce, MadeBeforeUse, WalkPlaces, HandPlaces, IsInjective, ToSet, TimersHands
<1>3. RetriesApart /\ BeatsWhileWanted
  BY HeartBeatAssumption DEF Init, RetriesApart, BeatsWhileWanted
<1>4. WantingCounted /\ FreedOnlyUnderTheWalk
  BY DEF Init, WantingCounted, FreedOnlyUnderTheWalk, ToSet, TimersHands
<1> QED
  BY <1>1, <1>2, <1>3, <1>4 DEF IInv
-----------------------------------------------------------------------------
(* Where the lists change *)

LEMMA ListedOnceKept == IInv /\ [Next]_vars => ListedOnce'
<1> SUFFICES ASSUME IInv, [Next]_vars PROVE ListedOnce'
  OBVIOUS
<1>0. TypeOK /\ ListedOnce /\ MadeBeforeUse /\ WalkPlaces
  BY DEF IInv
<1>1. ASSUME NEW s \in Sessions, NEW c \in Counters, AddFirstHeartBeat(s, c) PROVE ListedOnce'
  <2>1. c \notin ToSet(waitList) /\ c \notin ToSet(lstreStart) /\ c \notin ToSet(heartBeatExecs)
    BY <1>0, <1>1 DEF AddFirstHeartBeat, MadeBeforeUse, TimersHands
  <2>2. waitList' = Append(waitList, c) /\ heartBeatExecs' = Append(heartBeatExecs, c) /\ UNCHANGED lstreStart
    BY <1>1 DEF AddFirstHeartBeat
  <2>3. IsInjective(waitList') /\ ToSet(waitList') = ToSet(waitList) \cup {c} /\ IsInjective(heartBeatExecs')
    BY <1>0, <2>1, <2>2, AppendToInjective DEF TypeOK, ListedOnce
  <2> QED
    BY <1>0, <2>1, <2>2, <2>3 DEF ListedOnce
<1>2. ASSUME NEW s \in Sessions, ReleaseSession(s) PROVE ListedOnce'
  <2>1. IsInjective(heartBeatExecs') /\ UNCHANGED <<waitList, lstreStart>>
    BY <1>0, <1>2, RemoveFromInjective DEF TypeOK, ListedOnce, ReleaseSession
  <2> QED
    BY <1>0, <2>1 DEF ListedOnce
<1>3. CASE UnregisterErase
  <2>1. IsInjective(waitList') /\ ToSet(waitList') \subseteq ToSet(waitList)
    BY <1>0, <1>3, RemoveFromInjective DEF TypeOK, ListedOnce, UnregisterErase
  <2> QED
    BY <1>0, <1>3, <2>1 DEF ListedOnce, UnregisterErase
<1>4. CASE Retry \/ GiveUp
  <2>1. cursor \in ToSet(waitList) /\ cursor \in Counters
    BY <1>0, <1>4, Places DEF WalkPlaces, Retry, GiveUp
  <2>2. waitList' = RemoveFirst(waitList, cursor) /\ lstreStart' = Append(lstreStart, cursor) /\ UNCHANGED heartBeatExecs
    BY <1>4 DEF Retry, GiveUp, Restart
  <2>3. IsInjective(waitList') /\ ToSet(waitList') = ToSet(waitList) \ {cursor}
    BY <1>0, <2>2, RemoveFromInjective DEF TypeOK, ListedOnce
  <2>4. IsInjective(lstreStart') /\ ToSet(lstreStart') = ToSet(lstreStart) \cup {cursor}
    BY <1>0, <2>1, <2>2, AppendToInjective DEF TypeOK, ListedOnce
  <2> QED
    BY <1>0, <2>2, <2>3, <2>4 DEF ListedOnce
<1>5. CASE TravalRejoin
  <2> DEFINE h == Head(lstreStart)
             rest == Tail(lstreStart)
  <2>1. lstreStart # <<>> /\ lstreStart \in Seq(Counters) /\ IsInjective(lstreStart)
    BY <1>0, <1>5 DEF TravalRejoin, WalkPlaces, TypeOK, ListedOnce
  <2>2. /\ h \in ToSet(lstreStart) /\ h \in Counters
        /\ IsInjective(rest) /\ h \notin ToSet(rest) /\ ToSet(rest) \subseteq ToSet(lstreStart)
    BY <2>1, TailOfInjective
  <2>3. waitList' = Append(waitList, h) /\ lstreStart' = rest /\ UNCHANGED heartBeatExecs
    BY <1>5 DEF TravalRejoin
  <2> HIDE DEF h, rest
  <2>4. IsInjective(waitList') /\ ToSet(waitList') = ToSet(waitList) \cup {h}
    BY <1>0, <2>2, <2>3, AppendToInjective DEF TypeOK, ListedOnce
  <2> QED
    BY <1>0, <2>2, <2>3, <2>4 DEF ListedOnce
<1>6. CASE UNCHANGED <<heartBeatExecs, waitList, lstreStart>>
  BY <1>0, <1>6 DEF ListedOnce
<1>7. ASSUME \/ TravalBegin \/ TravalEnter \/ TravalDangling \/ TravalLeave \/ Response \/ Second \/ FallSilent
             \/ (\E c \in Counters : MatchInc(c) \/ MatchReset(c) \/ MatchOverdue(c))
             \/ KeepAliveBegin \/ RtcKeepAlive \/ UnregisterTest \/ DeleteCounter
             \/ (\E s \in Sessions : AddHeartBeat(s))
      PROVE  UNCHANGED <<heartBeatExecs, waitList, lstreStart>>
  BY <1>7 DEF TravalBegin, TravalEnter, TravalDangling, TravalLeave, Response, Second, FallSilent, MatchInc,
    MatchReset, MatchOverdue, KeepAliveBegin, RtcKeepAlive, UnregisterTest, DeleteCounter, AddHeartBeat
<1> QED
  BY <1>1, <1>2, <1>3, <1>4, <1>5, <1>6, <1>7 DEF Next, Traval, Ongoing

\* The timer gets its counters from its own list.
LEMMA TimerTakesListed ==
  ASSUME IInv, Traval
  PROVE  /\ ToSet(waitList') \cup TimersHands' \subseteq ToSet(waitList) \cup TimersHands \cup {None}
         /\ UNCHANGED <<heartBeatExecs, life, apc, hand, overtaken>>
<1>0. TypeOK /\ ListedOnce /\ WalkPlaces
  BY DEF IInv
<1>1. CASE Retry \/ GiveUp
  <2>1. cursor \in ToSet(waitList) /\ cursor \in Counters
    BY <1>0, <1>1, Places DEF WalkPlaces, Retry, GiveUp
  <2>2. /\ waitList' = RemoveFirst(waitList, cursor) /\ lstreStart' = Append(lstreStart, cursor)
        /\ cursor' \in ToSet(waitList) \cup {None}
    BY <1>0, <1>1, <2>1, Places DEF Retry, GiveUp, Restart
  <2>3. ToSet(waitList') = ToSet(waitList) \ {cursor}
    BY <1>0, <2>2, RemoveFromInjective DEF TypeOK, ListedOnce
  <2>4. ToSet(lstreStart') = ToSet(lstreStart) \cup {cursor}
    BY <1>0, <2>1, <2>2, AppendToInjective DEF TypeOK
  <2> QED
    BY <1>1, <2>2, <2>3, <2>4 DEF TimersHands, Retry, GiveUp
<1>2. CASE TravalRejoin
  <2> DEFINE h == Head(lstreStart)
             rest == Tail(lstreStart)
  <2>1. lstreStart # <<>> /\ lstreStart \in Seq(Counters)
    BY <1>0, <1>2 DEF TravalRejoin, WalkPlaces, TypeOK
  <2>2. h \in ToSet(lstreStart) /\ h \in Counters /\ ToSet(rest) \subseteq ToSet(lstreStart)
    BY <2>1, TailOfInjective
  <2>3. waitList' = Append(waitList, h) /\ lstreStart' = rest
    BY <1>2 DEF TravalRejoin
  <2> HIDE DEF h, rest
  <2>4. ToSet(waitList') = ToSet(waitList) \cup {h}
    BY <1>0, <2>2, <2>3, AppendToInjective DEF TypeOK
  <2> QED
    BY <1>2, <2>2, <2>3, <2>4 DEF TimersHands, TravalRejoin
<1>3. CASE TravalBegin
  <2>1. waitList # <<>> => Head(waitList) \in ToSet(waitList)
    BY <1>0, TailOfInjective DEF TypeOK
  <2> QED
    BY <1>3, <2>1 DEF TravalBegin, TimersHands
<1>4. ASSUME NEW c \in Counters, MatchInc(c) \/ MatchReset(c) PROVE cursor' \in ToSet(waitList) \cup {None}
  BY <1>0, <1>4, Places DEF MatchInc, MatchReset, InHand
<1>5. CASE UNCHANGED <<waitList, lstreStart>> /\ cursor' \in ToSet(waitList) \cup {None, cursor}
           /\ UNCHANGED <<heartBeatExecs, life, apc, hand, overtaken>>
  BY <1>5 DEF TimersHands
<1>6. ASSUME TravalEnter \/ TravalDangling \/ TravalLeave
             \/ (\E c \in Counters : MatchInc(c) \/ MatchReset(c) \/ MatchOverdue(c))
      PROVE  UNCHANGED <<waitList, lstreStart>> /\ cursor' \in ToSet(waitList) \cup {None, cursor}
             /\ UNCHANGED <<heartBeatExecs, life, apc, hand, overtaken>>
  BY <1>4, <1>6 DEF TravalEnter, TravalDangling, TravalLeave, MatchInc, MatchReset, MatchOverdue
<1> QED
  BY <1>1, <1>2, <1>3, <1>5, <1>6 DEF Traval

LEMMA MadeBeforeUseKept == IInv /\ [Next]_vars => MadeBeforeUse'
<1> SUFFICES ASSUME IInv, [Next]_vars PROVE MadeBeforeUse'
  OBVIOUS
<1>0. TypeOK /\ ListedOnce /\ MadeBeforeUse /\ HandPlaces
  BY DEF IInv
<1>1. CASE Traval
  BY <1>0, <1>1, TimerTakesListed, HeartBeatAssumption DEF MadeBeforeUse
<1>2. ASSUME NEW s \in Sessions, NEW c \in Counters, AddFirstHeartBeat(s, c) PROVE MadeBeforeUse'
  <2>1. /\ waitList' = Append(waitList, c) /\ heartBeatExecs' = Append(heartBeatExecs, c)
        /\ life' = [life EXCEPT ![c] = "live"] /\ UNCHANGED <<lstreStart, cursor>>
    BY <1>2 DEF AddFirstHeartBeat
  <2>2. ToSet(waitList') = ToSet(waitList) \cup {c} /\ ToSet(heartBeatExecs') = ToSet(heartBeatExecs) \cup {c}
    <3>1. heartBeatExecs \in Seq(Counters) /\ waitList \in Seq(Counters)
      BY <1>0 DEF TypeOK
    <3>2. \A t \in Seq(Counters) : ToSet(Append(t, c)) = ToSet(t) \cup {c}
      BY AppendToInjective
    <3> QED
      BY <2>1, <3>1, <3>2
  <2>3. \A d \in Counters : life'[d] = IF d = c THEN "live" ELSE life[d]
    BY <1>0, <2>1 DEF TypeOK
  <2>4. ToSet(heartBeatExecs) \subseteq Counters /\ TimersHands' = TimersHands
    BY <1>0, <2>1, Places DEF TimersHands
  <2> QED
    BY <1>0, <2>2, <2>3, <2>4 DEF MadeBeforeUse
<1>3. ASSUME NEW s \in Sessions, ReleaseSession(s) PROVE MadeBeforeUse'
  <2>1. ToSet(heartBeatExecs') \subseteq ToSet(heartBeatExecs) /\ UNCHANGED <<life, waitList, lstreStart, cursor>>
    BY <1>0, <1>3, RemoveFromInjective DEF TypeOK, ListedOnce, ReleaseSession
  <2> QED
    BY <1>0, <2>1 DEF MadeBeforeUse, TimersHands
<1>4. CASE UnregisterErase
  <2>1. ToSet(waitList') \subseteq ToSet(waitList)
    BY <1>0, <1>4, RemoveFromInjective DEF TypeOK, ListedOnce, UnregisterErase
  <2> QED
    BY <1>0, <1>4, <2>1 DEF MadeBeforeUse, TimersHands, UnregisterErase
<1>5. CASE DeleteCounter
  <2>1. hand \in Counters \ ToSet(heartBeatExecs)
    BY <1>0, <1>5 DEF DeleteCounter, HandPlaces
  <2>2. \A d \in Counters : life'[d] = IF d = hand THEN "freed" ELSE life[d]
    BY <1>0, <1>5 DEF DeleteCounter, TypeOK
  <2> QED
    BY <1>0, <1>5, <2>1, <2>2, Places DEF MadeBeforeUse, TimersHands, DeleteCounter
<1>6. CASE UNCHANGED <<heartBeatExecs, life, waitList, lstreStart, cursor>>
  BY <1>0, <1>6 DEF MadeBeforeUse, TimersHands
<1>7. ASSUME \/ Response \/ Second \/ FallSilent \/ KeepAliveBegin \/ RtcKeepAlive \/ UnregisterTest
             \/ (\E s \in Sessions : AddHeartBeat(s))
      PROVE  UNCHANGED <<heartBeatExecs, life, waitList, lstreStart, cursor>>
  BY <1>7 DEF Response, Second, FallSilent, KeepAliveBegin, RtcKeepAlive, UnregisterTest, AddHeartBeat
<1> QED
  BY <1>1, <1>2, <1>3, <1>4, <1>5, <1>6, <1>7 DEF Next, Ongoing
-----------------------------------------------------------------------------
(* Where the threads are *)

LEMMA WalkPlacesKept == IInv /\ [Next]_vars => WalkPlaces'
<1> SUFFICES ASSUME IInv, [Next]_vars PROVE WalkPlaces'
  OBVIOUS
<1>0. TypeOK /\ ListedOnce /\ WalkPlaces /\ HandPlaces
  BY DEF IInv
<1>1. ASSUME NEW c \in Counters, MatchOverdue(c) PROVE WalkPlaces'
  BY <1>0, <1>1 DEF MatchOverdue, InHand, WalkPlaces
<1>2. CASE TravalBegin \/ TravalEnter \/ TravalLeave
  BY <1>0, <1>2 DEF TravalBegin, TravalEnter, TravalLeave, WalkPlaces
<1>3. CASE Retry \/ GiveUp
  BY <1>3 DEF Retry, GiveUp, Restart, WalkPlaces
<1>4. CASE TravalRejoin
  <2>1. Len(lstreStart) # 1 => Tail(lstreStart) # <<>>
    <3>1. lstreStart \in Seq(Counters) /\ lstreStart # <<>>
      BY <1>0, <1>4 DEF TypeOK, WalkPlaces, TravalRejoin
    <3>2. \A t : t = <<>> => Len(t) = 0
      OBVIOUS
    <3>3. Len(Tail(lstreStart)) = Len(lstreStart) - 1 /\ Len(lstreStart) \in Nat
      BY <3>1
    <3>4. Len(lstreStart) # 1 => Len(Tail(lstreStart)) # 0
      BY <3>3
    <3> QED
      BY <3>2, <3>4, Zenon
  <2> QED
    BY <1>4, <2>1 DEF TravalRejoin, WalkPlaces
<1>5. ASSUME tpc \in {"walk"}, UNCHANGED tpc PROVE WalkPlaces'
  BY <1>5 DEF WalkPlaces
<1>6. ASSUME UNCHANGED <<tpc, cursor, lstreStart>>,
             tpc \in {"retry", "giveUp"} => ToSet(waitList) \subseteq ToSet(waitList'),
             tpc = "retry" => curHbTimeOutRetryCnt'[cursor] < Retries
      PROVE  WalkPlaces'
  BY <1>0, <1>6 DEF WalkPlaces
<1>7. ASSUME NEW s \in Sessions, NEW c \in Counters, AddFirstHeartBeat(s, c) PROVE WalkPlaces'
  BY <1>0, <1>7 DEF AddFirstHeartBeat, LockFree, WalkPlaces
<1>8. CASE UnregisterErase
  BY <1>0, <1>8 DEF UnregisterErase, LockFree, WalkPlaces
<1>9. CASE RtcKeepAlive \/ DeleteCounter
  <2>1. /\ curHbTimeOutRetryCnt' = [curHbTimeOutRetryCnt EXCEPT ![hand] = 0]
        /\ UNCHANGED <<tpc, cursor, lstreStart, waitList>>
    BY <1>9 DEF RtcKeepAlive, DeleteCounter
  <2>2. tpc = "retry" => 0 < Retries /\ cursor \in Counters
    <3> SUFFICES ASSUME tpc = "retry" PROVE 0 < Retries /\ cursor \in Counters
      OBVIOUS
    <3>1. cursor \in Counters /\ curHbTimeOutRetryCnt[cursor] < Retries
      BY <1>0, Places DEF WalkPlaces
    <3>2. curHbTimeOutRetryCnt[cursor] \in 0 .. Retries
      BY <1>0, <3>1 DEF TypeOK
    <3> QED
      BY <3>1, <3>2, HeartBeatAssumption
  <2>3. tpc = "retry" => curHbTimeOutRetryCnt'[cursor] < Retries
    BY <1>0, <2>1, <2>2 DEF TypeOK, WalkPlaces
  <2> QED
    BY <1>6, <2>1, <2>3
<1>10. CASE UNCHANGED <<tpc, cursor, lstreStart, waitList, curHbTimeOutRetryCnt>>
  BY <1>0, <1>10 DEF WalkPlaces
<1>11. ASSUME \/ Response \/ Second \/ FallSilent \/ KeepAliveBegin \/ UnregisterTest
              \/ (\E s \in Sessions : AddHeartBeat(s) \/ ReleaseSession(s))
       PROVE  UNCHANGED <<tpc, cursor, lstreStart, waitList, curHbTimeOutRetryCnt>>
  BY <1>11 DEF Response, Second, FallSilent, KeepAliveBegin, UnregisterTest, AddHeartBeat, ReleaseSession
<1>12. ASSUME TravalDangling \/ (\E c \in Counters : MatchInc(c) \/ MatchReset(c))
       PROVE  tpc \in {"walk"} /\ UNCHANGED tpc
  BY <1>12 DEF TravalDangling, MatchInc, MatchReset, InHand
<1> QED
  BY <1>1, <1>2, <1>3, <1>4, <1>5, <1>7, <1>8, <1>9, <1>10, <1>11, <1>12 DEF Next, Traval, Ongoing

LEMMA HandPlacesKept == IInv /\ [Next]_vars => HandPlaces'
<1> SUFFICES ASSUME IInv, [Next]_vars PROVE HandPlaces'
  OBVIOUS
<1>0. TypeOK /\ ListedOnce /\ HandPlaces
  BY DEF IInv
<1>1. CASE Traval
  <2>1. hand \in Counters => hand # None
    BY HeartBeatAssumption
  <2> QED
    BY <1>0, <1>1, <2>1, TimerTakesListed DEF HandPlaces
<1>2. CASE KeepAliveBegin
  BY <1>0, <1>2, TailOfInjective DEF KeepAliveBegin, HandPlaces, TypeOK
<1>3. CASE RtcKeepAlive
  <2>1. hand' \in ToSet(heartBeatExecs) \cup {None} /\ UNCHANGED heartBeatExecs
    BY <1>0, <1>3, Places DEF RtcKeepAlive, HandPlaces
  <2> QED
    BY <1>3, <2>1 DEF RtcKeepAlive, HandPlaces
<1>4. ASSUME NEW s \in Sessions, ReleaseSession(s) PROVE HandPlaces'
  <2> DEFINE last == {c \in Matching(RemoteOf[s]) : refCount[c] <= 1}
  <2>1. /\ hand' = IF last = {} THEN None ELSE CHOOSE c \in last : TRUE
        /\ heartBeatExecs' = RemoveFirst(heartBeatExecs, hand')
        /\ apc' = IF last = {} THEN "idle" ELSE "unregister"
    BY <1>4 DEF ReleaseSession
  <2>2. last \subseteq Counters
    BY <1>0, Places DEF Matching
  <2> HIDE DEF last
  <2>3. last # {} => hand' \in Counters
    BY <2>1, <2>2
  <2>4. heartBeatExecs \in Seq(Counters) /\ IsInjective(heartBeatExecs)
    BY <1>0 DEF TypeOK, ListedOnce
  <2>5. \A e : ToSet(RemoveFirst(heartBeatExecs, e)) = ToSet(heartBeatExecs) \ {e}
    BY <2>4, RemoveFromInjective
  <2>6. ToSet(heartBeatExecs') = ToSet(heartBeatExecs) \ {hand'}
    BY <2>1, <2>5
  <2> QED
    BY <2>1, <2>3, <2>6 DEF HandPlaces
<1>5. CASE UnregisterTest
  <2>1. /\ hand \in Counters \ ToSet(heartBeatExecs) /\ UNCHANGED <<hand, heartBeatExecs, waitList>>
        /\ apc' = "erase" \/ (apc' = "delete" /\ waitList = <<>>)
        /\ TimersHands' = TimersHands /\ (hand \in TimersHands => hand \in overtaken')
    BY <1>0, <1>5 DEF UnregisterTest, HandPlaces, NoteOvertaking, TimersHands
  <2>2. waitList = <<>> => ToSet(waitList) = {}
    BY DEF ToSet
  <2> QED
    BY <2>1, <2>2 DEF HandPlaces
<1>6. CASE UnregisterErase
  <2>1. /\ hand \in Counters \ ToSet(heartBeatExecs) /\ UNCHANGED <<hand, heartBeatExecs>> /\ apc' = "delete"
        /\ TimersHands' = TimersHands /\ (hand \in TimersHands => hand \in overtaken')
        /\ waitList' = RemoveFirst(waitList, hand)
    BY <1>0, <1>6 DEF UnregisterErase, HandPlaces, NoteOvertaking, TimersHands
  <2>2. hand \notin ToSet(waitList')
    BY <1>0, <2>1, RemoveFromInjective DEF TypeOK, ListedOnce
  <2> QED
    BY <2>1, <2>2 DEF HandPlaces
<1>7. ASSUME apc' = "idle" PROVE HandPlaces'
  BY <1>7 DEF HandPlaces
<1>8. ASSUME DeleteCounter \/ (\E s \in Sessions : AddHeartBeat(s))
             \/ (\E s \in Sessions, c \in Counters : AddFirstHeartBeat(s, c))
      PROVE  apc' = "idle"
  BY <1>8 DEF DeleteCounter, AddHeartBeat, AddFirstHeartBeat
<1>9. CASE UNCHANGED <<apc, hand, heartBeatExecs, waitList, lstreStart, cursor, overtaken>>
  BY <1>0, <1>9 DEF HandPlaces, TimersHands
<1>10. ASSUME Response \/ Second \/ FallSilent
       PROVE  UNCHANGED <<apc, hand, heartBeatExecs, waitList, lstreStart, cursor, overtaken>>
  BY <1>10 DEF Response, Second, FallSilent
<1> QED
  BY <1>1, <1>2, <1>3, <1>4, <1>5, <1>6, <1>7, <1>8, <1>9, <1>10 DEF Next, Ongoing

LEMMA RetriesApartKept == IInv /\ [Next]_vars => RetriesApart'
<1> SUFFICES ASSUME IInv, [Next]_vars PROVE RetriesApart'
  OBVIOUS
<1>0. TypeOK /\ WalkPlaces /\ HandPlaces /\ RetriesApart
  BY DEF IInv
<1>1. /\ \A c \in Counters : /\ hbRetryTimeoutCount[c] \in Int /\ curHbTimeOutRetryCnt[c] \in Nat
                             /\ hbRetryTimeoutCount[c] <= Interval + curHbTimeOutRetryCnt[c]
      /\ Interval \in Nat
  BY <1>0, HeartBeatAssumption DEF TypeOK, RetriesApart
<1>2. ASSUME NEW s \in Sessions, NEW c \in Counters, AddFirstHeartBeat(s, c) PROVE RetriesApart'
  <2>1. \A d \in Counters : hbRetryTimeoutCount'[d] = IF d = c THEN Interval ELSE hbRetryTimeoutCount[d]
    BY <1>0, <1>2 DEF AddFirstHeartBeat, TypeOK
  <2>2. UNCHANGED curHbTimeOutRetryCnt
    BY <1>2 DEF AddFirstHeartBeat
  <2> QED
    BY <1>1, <2>1, <2>2 DEF RetriesApart
<1>3. CASE RtcKeepAlive
  <2>1. \A d \in Counters : /\ hbRetryTimeoutCount'[d] = IF d = hand THEN Interval ELSE hbRetryTimeoutCount[d]
                            /\ curHbTimeOutRetryCnt'[d] = IF d = hand THEN 0 ELSE curHbTimeOutRetryCnt[d]
    BY <1>0, <1>3 DEF RtcKeepAlive, TypeOK
  <2> QED
    BY <1>1, <2>1 DEF RetriesApart
<1>4. CASE DeleteCounter
  <2>1. \A d \in Counters : /\ hbRetryTimeoutCount'[d] = IF d = hand THEN 0 ELSE hbRetryTimeoutCount[d]
                            /\ curHbTimeOutRetryCnt'[d] = IF d = hand THEN 0 ELSE curHbTimeOutRetryCnt[d]
    BY <1>0, <1>4 DEF DeleteCounter, TypeOK
  <2> QED
    BY <1>1, <2>1 DEF RetriesApart
<1>5. CASE Retry
  <2>1. \A d \in Counters :
          /\ hbRetryTimeoutCount'[d] = hbRetryTimeoutCount[d] + (IF d = cursor THEN 1 ELSE 0)
          /\ curHbTimeOutRetryCnt'[d] = curHbTimeOutRetryCnt[d] + (IF d = cursor THEN 1 ELSE 0)
    <3>1. /\ hbRetryTimeoutCount' = [hbRetryTimeoutCount EXCEPT ![cursor] = @ + 1]
          /\ curHbTimeOutRetryCnt' = [curHbTimeOutRetryCnt EXCEPT ![cursor] = @ + 1]
      BY <1>5 DEF Retry
    <3> QED
      BY <1>0, <1>1, <3>1 DEF TypeOK
  <2> QED
    BY <1>1, <2>1 DEF RetriesApart
<1>6. CASE GiveUp
  <2>1. \A d \in Counters : /\ hbRetryTimeoutCount'[d] = IF d = cursor THEN 0 ELSE hbRetryTimeoutCount[d]
                            /\ curHbTimeOutRetryCnt'[d] = IF d = cursor THEN 0 ELSE curHbTimeOutRetryCnt[d]
    BY <1>0, <1>6 DEF GiveUp, TypeOK
  <2> QED
    BY <1>1, <2>1 DEF RetriesApart
<1>7. CASE UNCHANGED <<hbRetryTimeoutCount, curHbTimeOutRetryCnt>>
  BY <1>0, <1>7 DEF RetriesApart
<1>8. ASSUME \/ TravalBegin \/ TravalEnter \/ TravalDangling \/ TravalLeave \/ TravalRejoin
             \/ (\E c \in Counters : MatchInc(c) \/ MatchReset(c) \/ MatchOverdue(c))
             \/ Response \/ Second \/ FallSilent \/ KeepAliveBegin \/ UnregisterTest \/ UnregisterErase
             \/ (\E s \in Sessions : AddHeartBeat(s) \/ ReleaseSession(s))
      PROVE  UNCHANGED <<hbRetryTimeoutCount, curHbTimeOutRetryCnt>>
  BY <1>8 DEF TravalBegin, TravalEnter, TravalDangling, TravalLeave, TravalRejoin, MatchInc, MatchReset,
    MatchOverdue, Response, Second, FallSilent, KeepAliveBegin, UnregisterTest, UnregisterErase,
    AddHeartBeat, ReleaseSession
<1> QED
  BY <1>2, <1>3, <1>4, <1>5, <1>6, <1>7, <1>8 DEF Next, Traval, Ongoing

LEMMA FreedOnlyUnderTheWalkKept == IInv /\ [Next]_vars => FreedOnlyUnderTheWalk'
<1> SUFFICES ASSUME IInv, [Next]_vars PROVE FreedOnlyUnderTheWalk'
  OBVIOUS
<1>0. TypeOK /\ ListedOnce /\ HandPlaces /\ FreedOnlyUnderTheWalk
  BY DEF IInv
<1>1. CASE Traval
  BY <1>0, <1>1, TimerTakesListed DEF FreedOnlyUnderTheWalk
<1>2. ASSUME NEW s \in Sessions, NEW c \in Counters, AddFirstHeartBeat(s, c) PROVE FreedOnlyUnderTheWalk'
  <2>1. /\ waitList' = Append(waitList, c) /\ life' = [life EXCEPT ![c] = "live"]
        /\ UNCHANGED <<lstreStart, cursor, overtaken>>
    BY <1>2 DEF AddFirstHeartBeat
  <2>2. ToSet(waitList') = ToSet(waitList) \cup {c} /\ TimersHands' = TimersHands
    BY <1>0, <2>1, AppendToInjective DEF TypeOK, TimersHands
  <2>3. \A d \in Counters : life'[d] = IF d = c THEN "live" ELSE life[d]
    BY <1>0, <2>1 DEF TypeOK
  <2> QED
    BY <1>0, <2>1, <2>2, <2>3, Places DEF FreedOnlyUnderTheWalk
<1>3. CASE UnregisterErase
  <2>1. ToSet(waitList') \subseteq ToSet(waitList)
    BY <1>0, <1>3, RemoveFromInjective DEF TypeOK, ListedOnce, UnregisterErase
  <2>2. overtaken \subseteq overtaken' /\ UNCHANGED life /\ TimersHands' = TimersHands
    BY <1>3 DEF UnregisterErase, NoteOvertaking, TimersHands
  <2> QED
    BY <1>0, <2>1, <2>2 DEF FreedOnlyUnderTheWalk
<1>4. CASE DeleteCounter
  <2>1. hand \in overtaken \/ hand \notin ToSet(waitList) \cup TimersHands
    BY <1>0, <1>4 DEF DeleteCounter, HandPlaces
  <2>2. \A d \in Counters : life'[d] = IF d = hand THEN "freed" ELSE life[d]
    BY <1>0, <1>4 DEF DeleteCounter, TypeOK
  <2>3. overtaken \subseteq overtaken' /\ UNCHANGED waitList /\ TimersHands' = TimersHands
    BY <1>4 DEF DeleteCounter, NoteOvertaking, TimersHands
  <2> QED
    BY <1>0, <2>1, <2>2, <2>3, Places DEF FreedOnlyUnderTheWalk
<1>5. ASSUME UNCHANGED <<life, waitList, lstreStart, cursor>>, overtaken \subseteq overtaken'
      PROVE  FreedOnlyUnderTheWalk'
  BY <1>0, <1>5 DEF FreedOnlyUnderTheWalk, TimersHands
<1>6. ASSUME \/ Response \/ Second \/ FallSilent \/ KeepAliveBegin \/ RtcKeepAlive \/ UnregisterTest
             \/ (\E s \in Sessions : AddHeartBeat(s) \/ ReleaseSession(s))
             \/ UNCHANGED vars
      PROVE  UNCHANGED <<life, waitList, lstreStart, cursor>> /\ overtaken \subseteq overtaken'
  BY <1>6 DEF Response, Second, FallSilent, KeepAliveBegin, RtcKeepAlive, UnregisterTest, NoteOvertaking,
    AddHeartBeat, ReleaseSession
<1> QED
  BY <1>1, <1>2, <1>3, <1>4, <1>5, <1>6 DEF Next, Ongoing
-----------------------------------------------------------------------------
(* Who wants a counter *)

LEMMA OneMore ==
  ASSUME NEW S, IsFiniteSet(S), NEW x
  PROVE  /\ Cardinality(S \cup {x}) <= Cardinality(S) + 1
         /\ x \notin S => Cardinality(S \cup {x}) = Cardinality(S) + 1
<1>1. Cardinality(S \cup {x}) = IF x \in S THEN Cardinality(S) ELSE Cardinality(S) + 1
  BY FS_AddElement, Zenon
<1>2. Cardinality(S) \in Nat
  BY FS_CardinalityType
<1> QED
  BY <1>1, <1>2

LEMMA WantingFinite ==
  \A r : /\ IsFiniteSet(Wanting(r)) /\ Cardinality(Wanting(r)) \in Nat
         /\ IsFiniteSet(Wanting(r)') /\ Cardinality(Wanting(r)') \in Nat
<1> SUFFICES ASSUME NEW r PROVE /\ IsFiniteSet(Wanting(r)) /\ Cardinality(Wanting(r)) \in Nat
                                /\ IsFiniteSet(Wanting(r)') /\ Cardinality(Wanting(r)') \in Nat
  OBVIOUS
<1>1. Wanting(r) \subseteq Sessions /\ Wanting(r)' \subseteq Sessions
  BY DEF Wanting
<1> QED
  BY <1>1, HeartBeatAssumption, FS_Subset, FS_CardinalityType

\* A session that starts its heartbeat.
LEMMA WantingStarted ==
  ASSUME TypeOK, NEW s \in Sessions, session[s] = "open",
         starts' = [starts EXCEPT ![s] = @ + 1], UNCHANGED session
  PROVE  \A r : Wanting(r)' = IF r = RemoteOf[s] THEN Wanting(r) \cup {s} ELSE Wanting(r)
<1>1. \A t \in Sessions : /\ starts[t] \in Nat
                          /\ starts'[t] = IF t = s THEN starts[t] + 1 ELSE starts[t]
  BY DEF TypeOK
<1>2. \A t \in Sessions : starts'[t] > 0 <=> starts[t] > 0 \/ t = s
  BY <1>1

<1>3. \A r : \A t \in Sessions : t \in Wanting(r)' <=> t \in Wanting(r) \/ (r = RemoteOf[s] /\ t = s)
  BY <1>2 DEF Wanting
<1>4. \A r : Wanting(r) \subseteq Sessions /\ Wanting(r)' \subseteq Sessions
  BY DEF Wanting
<1> QED
  BY <1>3, <1>4

\* A session that is released.
LEMMA WantingReleased ==
  ASSUME TypeOK, NEW s \in Sessions, session[s] = "open",
         session' = [session EXCEPT ![s] = "released"], UNCHANGED starts
  PROVE  /\ \A r : Wanting(r)' = Wanting(r) \ {s}
         /\ starts[s] # 0 => s \in Wanting(RemoteOf[s])
<1>1. \A t \in Sessions : session'[t] = IF t = s THEN "released" ELSE session[t]
  BY DEF TypeOK
<1>2. starts[s] # 0 => starts[s] > 0
  BY DEF TypeOK
<1>3. \A r : \A t \in Sessions : t \in Wanting(r)' <=> t \in Wanting(r) /\ t # s
  BY <1>1 DEF Wanting
<1>4. \A r : Wanting(r) \subseteq Sessions /\ Wanting(r)' \subseteq Sessions
  BY DEF Wanting
<1> QED
  BY <1>2, <1>3, <1>4 DEF Wanting

LEMMA WantingCountedKept == IInv /\ [Next]_vars => WantingCounted'
<1> SUFFICES ASSUME IInv, [Next]_vars PROVE WantingCounted'
  OBVIOUS
<1>0. TypeOK /\ ListedOnce /\ MadeBeforeUse /\ WantingCounted /\ BeatsWhileWanted
  BY DEF IInv
<1>1. ToSet(heartBeatExecs) \subseteq Counters
  BY <1>0, Places
<1>2. \A c \in Counters : refCount[c] \in Nat
  BY <1>0 DEF TypeOK
<1>3. ASSUME NEW s \in Sessions, AddHeartBeat(s) PROVE WantingCounted'
  <2>1. PICK c \in Matching(RemoteOf[s]) : refCount' = [refCount EXCEPT ![c] = @ + 1]
    BY <1>3 DEF AddHeartBeat
  <2>2. c \in ToSet(heartBeatExecs) /\ c \in Counters /\ remote[c] = RemoteOf[s]
    BY <1>1, <2>1 DEF Matching
  <2>3. \A d \in Counters : refCount'[d] = IF d = c THEN refCount[d] + 1 ELSE refCount[d]
    BY <1>0, <2>1 DEF TypeOK
  <2>4. UNCHANGED <<heartBeatExecs, remote, robbed>>
    BY <1>3 DEF AddHeartBeat
  <2>5. \A r : Wanting(r)' = IF r = RemoteOf[s] THEN Wanting(r) \cup {s} ELSE Wanting(r)
    BY <1>0, <1>3, WantingStarted DEF AddHeartBeat
  <2>6. Cardinality(Wanting(RemoteOf[s])') <= Cardinality(Wanting(RemoteOf[s])) + 1
    <3>1. Cardinality(Wanting(RemoteOf[s]) \cup {s}) <= Cardinality(Wanting(RemoteOf[s])) + 1
      BY WantingFinite, OneMore, Zenon
    <3>2. Wanting(RemoteOf[s])' = Wanting(RemoteOf[s]) \cup {s}
      BY <2>5
    <3> QED
      BY <3>1, <3>2
  <2>7. ASSUME NEW d \in ToSet(heartBeatExecs)
        PROVE  /\ refCount'[d] >= 1
               /\ remote[d] \in robbed \/ Cardinality(Wanting(remote[d])') <= refCount'[d]
    <3>1. /\ refCount[d] >= 1 /\ refCount[d] \in Nat /\ d \in Counters
          /\ remote[d] \in robbed \/ Cardinality(Wanting(remote[d])) <= refCount[d]
      BY <1>0, <1>1, <1>2 DEF WantingCounted
    <3>2. CASE d = c
      <4>1. refCount'[d] = refCount[d] + 1 /\ remote'[d] = RemoteOf[s] /\ remote[d] = RemoteOf[s]
        BY <2>2, <2>3, <2>4, <3>2
      <4>2. Cardinality(Wanting(remote[d])') <= Cardinality(Wanting(remote[d])) + 1
        BY <2>6, <4>1
      <4> QED
        BY <3>1, <4>1, <4>2, WantingFinite
    <3>3. CASE d # c
      <4>1. remote[d] # RemoteOf[s]
        BY <1>0, <2>2, <3>3 DEF WantingCounted
      <4> QED
        BY <2>3, <2>4, <2>5, <3>1, <3>3, <4>1
    <3> QED
      BY <3>2, <3>3
  <2> QED
    BY <1>0, <2>4, <2>7 DEF WantingCounted
<1>4. ASSUME NEW s \in Sessions, NEW c \in Counters, AddFirstHeartBeat(s, c) PROVE WantingCounted'
  <2>1. c \notin ToSet(heartBeatExecs) /\ Matching(RemoteOf[s]) = {}
    BY <1>0, <1>4 DEF AddFirstHeartBeat, MadeBeforeUse
  <2>2. \A d \in Counters : /\ refCount'[d] = IF d = c THEN 1 ELSE refCount[d]
                            /\ remote'[d] = IF d = c THEN RemoteOf[s] ELSE remote[d]
    BY <1>0, <1>4 DEF AddFirstHeartBeat, TypeOK
  <2>3. ToSet(heartBeatExecs') = ToSet(heartBeatExecs) \cup {c} /\ UNCHANGED robbed
    BY <1>0, <1>4, AppendToInjective DEF AddFirstHeartBeat, TypeOK
  <2>4. \A d \in ToSet(heartBeatExecs) : remote[d] # RemoteOf[s]
    BY <2>1 DEF Matching
  <2>5. \A r : Wanting(r)' = IF r = RemoteOf[s] THEN Wanting(r) \cup {s} ELSE Wanting(r)
    BY <1>0, <1>4, WantingStarted DEF AddFirstHeartBeat
  <2>6. RemoteOf[s] \in robbed \/ Cardinality(Wanting(RemoteOf[s])') <= 1
    <3>1. RemoteOf[s] \in robbed \/ Wanting(RemoteOf[s]) = {}
      BY <1>0, <2>1 DEF BeatsWhileWanted, Wanting
    <3>2. Wanting(RemoteOf[s]) = {} => Wanting(RemoteOf[s])' = {s}
      BY <2>5
    <3> QED
      BY <3>1, <3>2, FS_Singleton
  <2>7. ASSUME NEW d \in ToSet(heartBeatExecs) \cup {c}
        PROVE  /\ refCount'[d] >= 1
               /\ (remote[d] \in robbed \/ Cardinality(Wanting(remote[d])) <= refCount[d])'
    <3>1. CASE d = c
      <4>1. refCount'[d] = 1 /\ remote'[d] = RemoteOf[s]
        BY <2>2, <3>1
      <4> QED
        BY <2>3, <2>6, <4>1
    <3>2. CASE d # c
      <4>1. refCount'[d] = refCount[d] /\ remote'[d] = remote[d] /\ remote[d] # RemoteOf[s]
        BY <1>1, <2>2, <2>4, <3>2
      <4>2. /\ refCount[d] >= 1
            /\ remote[d] \in robbed \/ Cardinality(Wanting(remote[d])) <= refCount[d]
        BY <1>0, <3>2 DEF WantingCounted
      <4> QED
        BY <2>3, <2>5, <4>1, <4>2
    <3> QED
      BY <3>1, <3>2
  <2>8. \A d, e \in ToSet(heartBeatExecs) \cup {c} : remote'[d] = remote'[e] => d = e
    BY <1>0, <1>1, <2>2, <2>4 DEF WantingCounted
  <2> QED
    BY <2>3, <2>7, <2>8 DEF WantingCounted
<1>5. ASSUME NEW s \in Sessions, ReleaseSession(s) PROVE WantingCounted'
  <2> DEFINE r == RemoteOf[s]
             found == Matching(RemoteOf[s])
             last == {c \in found : refCount[c] <= 1}
  <2>1. /\ hand' = IF last = {} THEN None ELSE CHOOSE c \in last : TRUE
        /\ heartBeatExecs' = RemoveFirst(heartBeatExecs, hand')
        /\ refCount' = [c \in Counters |-> IF c \in found THEN refCount[c] - 1 ELSE refCount[c]]
        /\ robbed' = IF found # {} /\ starts[s] = 0 THEN robbed \cup {r} ELSE robbed
        /\ UNCHANGED remote
    BY <1>5 DEF ReleaseSession
  <2>2. /\ \A t : Wanting(t)' = Wanting(t) \ {s}
        /\ starts[s] # 0 => s \in Wanting(r)
    BY <1>0, <1>5, WantingReleased DEF ReleaseSession
  <2>3. \A c \in ToSet(heartBeatExecs) : c \in found <=> remote[c] = r
    BY DEF Matching
  <2>4. found \subseteq ToSet(heartBeatExecs)
    BY DEF Matching
  <2>5. last # {} => hand' \in last
    BY <2>1
  <2>6. \A c \in last : c \in found /\ refCount[c] <= 1
    OBVIOUS
  <2>7. \A c \in found : refCount[c] <= 1 => c \in last
    OBVIOUS
  <2> HIDE DEF r, found, last
  <2>8. heartBeatExecs \in Seq(Counters) /\ IsInjective(heartBeatExecs)
    BY <1>0 DEF TypeOK, ListedOnce
  <2>9. \A e : ToSet(RemoveFirst(heartBeatExecs, e)) = ToSet(heartBeatExecs) \ {e}
    BY <2>8, RemoveFromInjective
  <2>10. ToSet(heartBeatExecs') = ToSet(heartBeatExecs) \ {hand'}
    BY <2>1, <2>9
  <2>11. \A t : Cardinality(Wanting(t)') <= Cardinality(Wanting(t))
    BY <2>2, WantingFinite, FS_RemoveElement
  <2>12. starts[s] # 0 => Cardinality(Wanting(r)') = Cardinality(Wanting(r)) - 1
    BY <2>2, WantingFinite, FS_RemoveElement
  <2>13. ASSUME NEW d \in ToSet(heartBeatExecs), d # hand'
         PROVE  /\ refCount'[d] >= 1
                /\ remote[d] \in robbed' \/ Cardinality(Wanting(remote[d])') <= refCount'[d]
    <3>1. /\ refCount[d] >= 1 /\ refCount[d] \in Nat /\ d \in Counters
          /\ remote[d] \in robbed \/ Cardinality(Wanting(remote[d])) <= refCount[d]
      BY <1>0, <1>1, <1>2 DEF WantingCounted
    <3>2. refCount'[d] = IF d \in found THEN refCount[d] - 1 ELSE refCount[d]
      BY <2>1, <3>1
    <3>3. CASE d \in found
      <4>1. remote[d] = r
        BY <2>3, <3>3
      <4>2. refCount[d] > 1
        <5> SUFFICES ASSUME refCount[d] <= 1 PROVE FALSE
          BY <3>1
        <5>1. hand' \in found /\ remote[hand'] = r /\ hand' \in ToSet(heartBeatExecs)
          BY <2>3, <2>4, <2>5, <2>6, <2>7, <3>3
        <5> QED
          BY <1>0, <2>13, <4>1, <5>1 DEF WantingCounted
      <4>3. CASE starts[s] = 0
        BY <2>1, <3>1, <3>2, <3>3, <4>1, <4>2, <4>3
      <4>4. CASE starts[s] # 0
        <5>1. Cardinality(Wanting(remote[d])') = Cardinality(Wanting(remote[d])) - 1 /\ robbed \subseteq robbed'
          BY <2>1, <2>12, <4>1, <4>4
        <5> QED
          BY <3>1, <3>2, <3>3, <4>2, <5>1, WantingFinite
      <4> QED
        BY <4>3, <4>4
    <3>4. CASE d \notin found
      <4>1. robbed \subseteq robbed' /\ Cardinality(Wanting(remote[d])') <= Cardinality(Wanting(remote[d]))
        BY <2>1, <2>11
      <4> QED
        BY <3>1, <3>2, <3>4, <4>1, WantingFinite
    <3> QED
      BY <3>3, <3>4
  <2>14. \A c, d \in ToSet(heartBeatExecs) : remote[c] = remote[d] => c = d
    BY <1>0 DEF WantingCounted
  <2> QED
    BY <2>1, <2>10, <2>13, <2>14 DEF WantingCounted
<1>6. CASE UNCHANGED <<heartBeatExecs, remote, refCount, session, starts, robbed>>
  BY <1>0, <1>6 DEF WantingCounted, Wanting
<1>7. ASSUME Traval \/ Ongoing \/ Response \/ Second \/ FallSilent
      PROVE  UNCHANGED <<heartBeatExecs, remote, refCount, session, starts, robbed>>
  BY <1>7 DEF Traval, TravalBegin, TravalEnter, TravalDangling, TravalLeave, TravalRejoin, Retry, GiveUp,
    MatchInc, MatchReset, MatchOverdue, Ongoing, KeepAliveBegin, RtcKeepAlive, UnregisterTest,
    UnregisterErase, DeleteCounter, Response, Second, FallSilent
<1> QED
  BY <1>3, <1>4, <1>5, <1>6, <1>7 DEF Next

LEMMA BeatsWhileWantedKept == IInv /\ [Next]_vars => BeatsWhileWanted'
<1> SUFFICES ASSUME IInv, [Next]_vars PROVE BeatsWhileWanted'
  OBVIOUS
<1>0. TypeOK /\ ListedOnce /\ MadeBeforeUse /\ WantingCounted /\ BeatsWhileWanted
  BY DEF IInv
<1>1. ToSet(heartBeatExecs) \subseteq Counters
  BY <1>0, Places
<1>2. ASSUME NEW s \in Sessions, AddHeartBeat(s) PROVE BeatsWhileWanted'
  <2>1. Matching(RemoteOf[s]) # {} /\ UNCHANGED <<heartBeatExecs, remote, robbed, session>>
    BY <1>2 DEF AddHeartBeat
  <2>2. \A t \in Sessions : t # s => starts'[t] = starts[t]
    BY <1>0, <1>2 DEF AddHeartBeat, TypeOK
  <2> QED
    BY <1>0, <2>1, <2>2 DEF BeatsWhileWanted, Matching
<1>3. ASSUME NEW s \in Sessions, NEW c \in Counters, AddFirstHeartBeat(s, c) PROVE BeatsWhileWanted'
  <2>1. c \notin ToSet(heartBeatExecs)
    BY <1>0, <1>3 DEF AddFirstHeartBeat, MadeBeforeUse
  <2>2. \A d \in Counters : remote'[d] = IF d = c THEN RemoteOf[s] ELSE remote[d]
    BY <1>0, <1>3 DEF AddFirstHeartBeat, TypeOK
  <2>3. ToSet(heartBeatExecs') = ToSet(heartBeatExecs) \cup {c} /\ UNCHANGED <<robbed, session>>
    BY <1>0, <1>3, AppendToInjective DEF AddFirstHeartBeat, TypeOK
  <2>4. \A t \in Sessions : t # s => starts'[t] = starts[t]
    BY <1>0, <1>3 DEF AddFirstHeartBeat, TypeOK
  <2>5. c \in Matching(RemoteOf[s])' /\ \A r : Matching(r) \subseteq Matching(r)'
    BY <1>1, <2>1, <2>2, <2>3 DEF Matching
  <2> QED
    BY <1>0, <2>3, <2>4, <2>5 DEF BeatsWhileWanted
<1>4. ASSUME NEW s \in Sessions, ReleaseSession(s) PROVE BeatsWhileWanted'
  <2> DEFINE r == RemoteOf[s]
             found == Matching(RemoteOf[s])
             last == {c \in found : refCount[c] <= 1}
  <2>1. /\ hand' = IF last = {} THEN None ELSE CHOOSE c \in last : TRUE
        /\ heartBeatExecs' = RemoveFirst(heartBeatExecs, hand')
        /\ robbed' = IF found # {} /\ starts[s] = 0 THEN robbed \cup {r} ELSE robbed
        /\ UNCHANGED <<remote, starts>>
    BY <1>4 DEF ReleaseSession
  <2>2. \A t \in Sessions : session'[t] = IF t = s THEN "released" ELSE session[t]
    BY <1>0, <1>4 DEF ReleaseSession, TypeOK
  <2>3. session[s] = "open"
    BY <1>4 DEF ReleaseSession
  <2>4. \A c \in ToSet(heartBeatExecs) : c \in found <=> remote[c] = r
    BY DEF Matching
  <2>5. last # {} => hand' \in last
    BY <2>1
  <2>6. \A c \in last : c \in found /\ c \in ToSet(heartBeatExecs) /\ refCount[c] <= 1
    BY DEF Matching
  <2> HIDE DEF found, last
  <2>7. heartBeatExecs \in Seq(Counters) /\ IsInjective(heartBeatExecs)
    BY <1>0 DEF TypeOK, ListedOnce
  <2>8. \A e : ToSet(RemoveFirst(heartBeatExecs, e)) = ToSet(heartBeatExecs) \ {e}
    BY <2>7, RemoveFromInjective
  <2>9. ToSet(heartBeatExecs') = ToSet(heartBeatExecs) \ {hand'}
    BY <2>1, <2>8
  <2> SUFFICES ASSUME NEW t \in Sessions, session'[t] = "open", starts[t] > 0
               PROVE  Matching(RemoteOf[t])' # {} \/ RemoteOf[t] \in robbed'
    BY <2>1 DEF BeatsWhileWanted
  <2>10. t # s /\ session[t] = "open" /\ robbed \subseteq robbed'
    BY <2>1, <2>2
  <2>11. CASE RemoteOf[t] \in robbed
    BY <2>10, <2>11
  <2>12. CASE RemoteOf[t] \notin robbed
    <3>1. PICK c \in ToSet(heartBeatExecs) : remote[c] = RemoteOf[t]
      BY <1>0, <2>10, <2>12 DEF BeatsWhileWanted, Matching
    <3>2. CASE c # hand'
      BY <2>1, <2>9, <3>1, <3>2 DEF Matching
    <3>3. CASE c = hand'
      <4>1. c \in Counters /\ None \notin Counters
        BY <1>1, <3>1, HeartBeatAssumption
      <4>2. c \in found /\ refCount[c] <= 1 /\ remote[c] = r
        BY <2>1, <2>4, <2>5, <2>6, <3>3, <4>1
      <4>3. Cardinality(Wanting(r)) <= 1
        <5>1. Cardinality(Wanting(r)) <= refCount[c] /\ refCount[c] \in Nat
          BY <1>0, <2>12, <3>1, <4>1, <4>2 DEF WantingCounted, TypeOK
        <5> QED
          BY <4>2, <5>1, WantingFinite
      <4>4. t \in Wanting(r)
        BY <2>10, <3>1, <4>2 DEF Wanting
      <4>5. s \notin Wanting(r)
        <5> SUFFICES ASSUME s \in Wanting(r) PROVE FALSE
          OBVIOUS
        <5>1. Cardinality({t} \cup {s}) = 2
          <6>1. IsFiniteSet({t}) /\ Cardinality({t}) = 1 /\ s \notin {t}
            BY <2>10, FS_Singleton
          <6>2. Cardinality({t} \cup {s}) = 1 + 1
            BY <6>1, OneMore, Zenon
          <6> QED
            BY <6>2
        <5>2. {t} \cup {s} \subseteq Wanting(r)
          BY <4>4
        <5>3. Cardinality({t} \cup {s}) <= Cardinality(Wanting(r))
          BY <5>2, WantingFinite, FS_Subset
        <5> QED
          BY <4>3, <5>1, <5>3, WantingFinite
      <4>6. starts[s] = 0
        BY <1>0, <2>3, <4>5 DEF Wanting, TypeOK
      <4> QED
        BY <2>1, <3>1, <4>2, <4>6
    <3> QED
      BY <3>2, <3>3
  <2> QED
    BY <2>11, <2>12
<1>5. CASE UNCHANGED <<heartBeatExecs, remote, session, starts, robbed>>
  BY <1>0, <1>5 DEF BeatsWhileWanted, Matching
<1>6. ASSUME Traval \/ Ongoing \/ Response \/ Second \/ FallSilent
      PROVE  UNCHANGED <<heartBeatExecs, remote, session, starts, robbed>>
  BY <1>6 DEF Traval, TravalBegin, TravalEnter, TravalDangling, TravalLeave, TravalRejoin, Retry, GiveUp,
    MatchInc, MatchReset, MatchOverdue, Ongoing, KeepAliveBegin, RtcKeepAlive, UnregisterTest,
    UnregisterErase, DeleteCounter, Response, Second, FallSilent
<1> QED
  BY <1>2, <1>3, <1>4, <1>5, <1>6 DEF Next
-----------------------------------------------------------------------------
(* Types *)

LEMMA TypeOKKept == IInv /\ [Next]_vars => TypeOK'
<1> SUFFICES ASSUME IInv, [Next]_vars PROVE TypeOK'
  OBVIOUS
<1>0. TypeOK /\ ListedOnce /\ WalkPlaces /\ HandPlaces /\ RetriesApart /\ WantingCounted
  BY DEF IInv
<1>1. /\ 0 \in Ages /\ 0 \in 0 .. Interval + Retries /\ 0 \in 0 .. Retries
      /\ Interval \in 0 .. Interval + Retries
      /\ \A n \in 0 .. MaxStarts : n < MaxStarts => n + 1 \in 0 .. MaxStarts
      /\ \A age \in Ages : Older(age) \in Ages
  BY HeartBeatAssumption DEF Ages, Older
<1>2. /\ ToSet(heartBeatExecs) \subseteq Counters /\ ToSet(waitList) \subseteq Counters
      /\ \A c \in ToSet(waitList) : AfterInWaitList(c) \in Counters \cup {None}
      /\ \A c \in ToSet(heartBeatExecs) : NextInList(c) \in Counters \cup {None}
  BY <1>0, Places
<1>3. /\ \A e : RemoveFirst(heartBeatExecs, e) \in Seq(Counters)
      /\ \A e : RemoveFirst(waitList, e) \in Seq(Counters)
  BY <1>0, RemoveFromInjective DEF TypeOK, ListedOnce
<1>4. CASE UNCHANGED vars
  <2>1. TypeOK
    BY <1>0
  <2> QED
    BY <1>4, <2>1 DEF TypeOK
<1>5. ASSUME NEW s \in Sessions, AddHeartBeat(s) PROVE TypeOK'
  <2>1. PICK c \in Matching(RemoteOf[s]) : refCount' = [refCount EXCEPT ![c] = @ + 1]
    BY <1>5 DEF AddHeartBeat
  <2>2. refCount' \in [Counters -> Nat]
    <3>1. \A d \in Counters : refCount[d] + 1 \in Nat
      BY <1>0 DEF TypeOK
    <3>2. refCount' = [refCount EXCEPT ![c] = refCount[c] + 1] /\ c \in Counters
      BY <1>2, <2>1 DEF Matching
    <3> QED
      BY <1>0, <3>1, <3>2 DEF TypeOK
  <2>3. starts' \in [Sessions -> 0 .. MaxStarts]
    BY <1>0, <1>1, <1>5 DEF AddHeartBeat, TypeOK
  <2> QED
    BY <1>0, <1>5, <2>2, <2>3 DEF AddHeartBeat, TypeOK
<1>6. ASSUME NEW s \in Sessions, NEW c \in Counters, AddFirstHeartBeat(s, c) PROVE TypeOK'
  <2>1. /\ refCount' \in [Counters -> Nat] /\ life' \in [Counters -> {"new", "live", "freed"}]
        /\ remote' \in [Counters -> Remotes \cup {None}]
        /\ hbRetryTimeoutCount' \in [Counters -> 0 .. Interval + Retries]
    BY <1>0, <1>1, <1>6, HeartBeatAssumption DEF AddFirstHeartBeat, TypeOK
  <2>2. starts' \in [Sessions -> 0 .. MaxStarts]
    BY <1>0, <1>1, <1>6 DEF AddFirstHeartBeat, TypeOK
  <2>3. heartBeatExecs' \in Seq(Counters) /\ waitList' \in Seq(Counters)
    BY <1>0, <1>6 DEF AddFirstHeartBeat, TypeOK
  <2> QED
    BY <1>0, <1>6, <2>1, <2>2, <2>3 DEF AddFirstHeartBeat, TypeOK
<1>7. CASE KeepAliveBegin
  <2>1. hand' \in Counters \cup {None}
    BY <1>0, <1>7 DEF KeepAliveBegin, TypeOK
  <2>2. apc' \in {"idle", "keeping"} /\ minuteDue' \in BOOLEAN
    BY <1>7 DEF KeepAliveBegin
  <2> QED
    BY <1>0, <1>7, <2>1, <2>2 DEF KeepAliveBegin, TypeOK
<1>8. CASE RtcKeepAlive
  <2>1. hand \in Counters /\ hand' \in Counters \cup {None}
    BY <1>0, <1>2, <1>8 DEF RtcKeepAlive, HandPlaces
  <2>2. /\ count' \in [Counters -> 0 .. Interval + Retries]
        /\ hbRetryTimeoutCount' \in [Counters -> 0 .. Interval + Retries]
        /\ curHbTimeOutRetryCnt' \in [Counters -> 0 .. Retries]
    BY <1>0, <1>1, <1>8 DEF RtcKeepAlive, TypeOK
  <2>3. sinceFire' \in [Counters -> Ages] /\ sinceRsp' \in [Counters -> Ages]
    BY <1>0, <1>1, <1>8, <2>1 DEF RtcKeepAlive, FireHeartBeat, TypeOK
  <2>4. unanswered' \in [Counters -> BOOLEAN]
    <3>1. unanswered' = [unanswered EXCEPT ![hand] = sinceRsp'[hand] > 0]
      BY <1>8 DEF RtcKeepAlive, FireHeartBeat
    <3>2. (sinceRsp'[hand] > 0) \in BOOLEAN
      OBVIOUS
    <3> QED
      BY <1>0, <3>1, <3>2 DEF TypeOK
  <2>5. apc' \in {"idle", "keeping"} /\ minuteDue' \in BOOLEAN
    BY <1>8 DEF RtcKeepAlive
  <2> QED
    BY <1>0, <1>8, <2>1, <2>2, <2>3, <2>4, <2>5 DEF RtcKeepAlive, TypeOK
<1>9. ASSUME NEW s \in Sessions, ReleaseSession(s) PROVE TypeOK'
  <2> DEFINE found == Matching(RemoteOf[s])
             last == {c \in found : refCount[c] <= 1}
  <2>1. /\ refCount' = [c \in Counters |-> IF c \in found THEN refCount[c] - 1 ELSE refCount[c]]
        /\ hand' = IF last = {} THEN None ELSE CHOOSE c \in last : TRUE
        /\ heartBeatExecs' = RemoveFirst(heartBeatExecs, hand')
        /\ apc' \in {"idle", "unregister"}
        /\ session' = [session EXCEPT ![s] = "released"]
        /\ robbed' \in {robbed, robbed \cup {RemoteOf[s]}}
        /\ UNCHANGED <<life, remote, timing, timer, starts, overtaken, clock, silent, crashed>>
    BY <1>9 DEF ReleaseSession
  <2>2. found \subseteq ToSet(heartBeatExecs) /\ last \subseteq Counters
    BY <1>2 DEF Matching
  <2> HIDE DEF found, last
  <2>3. hand' \in Counters \cup {None}
    BY <2>1, <2>2
  <2>4. refCount' \in [Counters -> Nat]
    <3>1. \A c \in found : refCount[c] >= 1
      BY <1>0, <2>2 DEF WantingCounted
    <3>2. \A c \in Counters : refCount[c] \in Nat
      BY <1>0 DEF TypeOK
    <3>3. \A c \in Counters : (IF c \in found THEN refCount[c] - 1 ELSE refCount[c]) \in Nat
      BY <3>1, <3>2
    <3> QED
      BY <2>1, <3>3
  <2>5. heartBeatExecs' \in Seq(Counters)
    BY <1>3, <2>1
  <2>6. session' \in [Sessions -> {"open", "released"}] /\ robbed' \subseteq Remotes
    <3>1. session' \in [Sessions -> {"open", "released"}]
      BY <1>0, <2>1 DEF TypeOK
    <3>2. RemoteOf[s] \in Remotes /\ robbed \subseteq Remotes
      BY <1>0, HeartBeatAssumption DEF TypeOK
    <3> QED
      BY <2>1, <3>1, <3>2
  <2> QED
    BY <1>0, <2>1, <2>3, <2>4, <2>5, <2>6 DEF TypeOK
<1>10. ASSUME apc \in {"unregister", "erase", "delete"}, NoteOvertaking
       PROVE  overtaken' \subseteq Counters
  BY <1>0, <1>10 DEF NoteOvertaking, HandPlaces, TypeOK
<1>11. CASE UnregisterTest
  <2>1. overtaken' \subseteq Counters /\ apc' \in {"erase", "delete"}
    BY <1>10, <1>11 DEF UnregisterTest
  <2> QED
    BY <1>0, <1>11, <2>1 DEF UnregisterTest, TypeOK
<1>12. CASE UnregisterErase
  <2>1. overtaken' \subseteq Counters /\ waitList' \in Seq(Counters)
    BY <1>3, <1>10, <1>12 DEF UnregisterErase
  <2> QED
    BY <1>0, <1>12, <2>1 DEF UnregisterErase, TypeOK
<1>13. CASE DeleteCounter
  <2>1. overtaken' \subseteq Counters
    BY <1>10, <1>13 DEF DeleteCounter
  <2>2. /\ life' \in [Counters -> {"new", "live", "freed"}]
        /\ count' \in [Counters -> 0 .. Interval + Retries]
        /\ hbRetryTimeoutCount' \in [Counters -> 0 .. Interval + Retries]
        /\ curHbTimeOutRetryCnt' \in [Counters -> 0 .. Retries]
    BY <1>0, <1>1, <1>13 DEF DeleteCounter, TypeOK
  <2>3. /\ sinceFire' \in [Counters -> Ages] /\ sinceRsp' \in [Counters -> Ages]
        /\ unanswered' \in [Counters -> BOOLEAN]
    BY <1>0, <1>1, <1>13 DEF DeleteCounter, TypeOK
  <2> QED
    BY <1>0, <1>13, <2>1, <2>2, <2>3 DEF DeleteCounter, TypeOK
<1>14. CASE Response
  <2>1. sinceRsp' \in [Counters -> Ages] /\ unanswered' \in [Counters -> BOOLEAN]
    BY <1>0, <1>1, <1>14 DEF Response, TypeOK
  <2> QED
    BY <1>0, <1>14, <2>1 DEF Response, TypeOK
<1>15. CASE TravalBegin
  <2>1. cursor' \in Counters \cup {None} /\ tpc' \in {"idle", "begun"}
    BY <1>0, <1>15 DEF TravalBegin, TypeOK
  <2> QED
    BY <1>0, <1>15, <2>1 DEF TravalBegin, TypeOK
<1>16. CASE TravalEnter
  BY <1>0, <1>16 DEF TravalEnter, TypeOK
<1>17. ASSUME NEW c \in Counters, MatchInc(c) PROVE TypeOK'
  <2>1. cursor' \in Counters \cup {None}
    BY <1>2, <1>17 DEF MatchInc, InHand
  <2>2. count[c] + 1 \in 0 .. Interval + Retries
    <3>1. count[c] \in Nat /\ hbRetryTimeoutCount[c] \in 0 .. Interval + Retries
      BY <1>0, HeartBeatAssumption DEF TypeOK
    <3>2. count[c] < hbRetryTimeoutCount[c] /\ Interval + Retries \in Nat
      BY <1>17, HeartBeatAssumption DEF MatchInc
    <3> QED
      BY <3>1, <3>2
  <2>3. count' \in [Counters -> 0 .. Interval + Retries]
    BY <1>0, <1>17, <2>2 DEF MatchInc, TypeOK
  <2> QED
    BY <1>0, <1>17, <2>1, <2>3 DEF MatchInc, TypeOK
<1>18. ASSUME NEW c \in Counters, MatchReset(c) PROVE TypeOK'
  <2>1. cursor' \in Counters \cup {None}
    BY <1>2, <1>18 DEF MatchReset, InHand
  <2>2. count' \in [Counters -> 0 .. Interval + Retries]
    BY <1>0, <1>1, <1>18 DEF MatchReset, TypeOK
  <2> QED
    BY <1>0, <1>18, <2>1, <2>2 DEF MatchReset, TypeOK
<1>19. ASSUME NEW c \in Counters, MatchOverdue(c) PROVE TypeOK'
  BY <1>0, <1>19 DEF MatchOverdue, TypeOK
<1>20. CASE Retry \/ GiveUp
  <2>1. cursor \in ToSet(waitList) /\ cursor \in Counters
    BY <1>0, <1>2, <1>20 DEF WalkPlaces, Retry, GiveUp
  <2>2. cursor' \in Counters \cup {None} /\ waitList' \in Seq(Counters) /\ lstreStart' \in Seq(Counters)
    <3>1. /\ waitList' = RemoveFirst(waitList, cursor) /\ lstreStart' = Append(lstreStart, cursor)
          /\ cursor' = AfterInWaitList(cursor)
      BY <1>20 DEF Retry, GiveUp, Restart
    <3>2. lstreStart \in Seq(Counters)
      BY <1>0 DEF TypeOK
    <3> QED
      BY <1>2, <1>3, <2>1, <3>1, <3>2
  <2>3. count' \in [Counters -> 0 .. Interval + Retries]
    BY <1>0, <1>1, <1>20 DEF Retry, GiveUp, Restart, TypeOK
  <2>4. /\ hbRetryTimeoutCount' \in [Counters -> 0 .. Interval + Retries]
        /\ curHbTimeOutRetryCnt' \in [Counters -> 0 .. Retries]
    <3>1. CASE Retry
      <4>1. /\ curHbTimeOutRetryCnt[cursor] \in 0 .. Retries /\ curHbTimeOutRetryCnt[cursor] < Retries
            /\ hbRetryTimeoutCount[cursor] \in Nat
            /\ hbRetryTimeoutCount[cursor] <= Interval + curHbTimeOutRetryCnt[cursor]
        BY <1>0, <2>1, <3>1 DEF Retry, TypeOK, WalkPlaces, RetriesApart
      <4>2. /\ curHbTimeOutRetryCnt[cursor] + 1 \in 0 .. Retries
            /\ hbRetryTimeoutCount[cursor] + 1 \in 0 .. Interval + Retries
        BY <4>1, HeartBeatAssumption
      <4>3. /\ hbRetryTimeoutCount' = [hbRetryTimeoutCount EXCEPT ![cursor] = hbRetryTimeoutCount[cursor] + 1]
            /\ curHbTimeOutRetryCnt' = [curHbTimeOutRetryCnt EXCEPT ![cursor] = curHbTimeOutRetryCnt[cursor] + 1]
        BY <3>1 DEF Retry
      <4> QED
        BY <1>0, <4>2, <4>3 DEF TypeOK
    <3>2. CASE GiveUp
      BY <1>0, <1>1, <3>2 DEF GiveUp, TypeOK
    <3> QED
      BY <1>20, <3>1, <3>2
  <2>5. /\ tpc' = "walk"
        /\ UNCHANGED <<owners, sinceFire, sinceRsp, unanswered, application, clock, silent, crashed>>
    BY <1>20 DEF Retry, GiveUp, Restart
  <2> QED
    BY <1>0, <2>2, <2>3, <2>4, <2>5 DEF TypeOK
<1>21. CASE TravalDangling
  <2>1. cursor' \in Counters \cup {None} /\ crashed' \in BOOLEAN
    BY <1>0, <1>2, <1>21 DEF TravalDangling, TypeOK
  <2> QED
    BY <1>0, <1>21, <2>1 DEF TravalDangling, TypeOK
<1>22. CASE TravalLeave
  BY <1>0, <1>22 DEF TravalLeave, TypeOK
<1>23. CASE TravalRejoin
  <2>1. lstreStart # <<>> /\ lstreStart \in Seq(Counters)
    BY <1>0, <1>23 DEF TravalRejoin, WalkPlaces, TypeOK
  <2>2. Head(lstreStart) \in Counters /\ Tail(lstreStart) \in Seq(Counters)
    BY <2>1, TailOfInjective
  <2>3. waitList' \in Seq(Counters) /\ lstreStart' \in Seq(Counters) /\ tpc' \in {"idle", "rejoin"}
    BY <1>0, <1>23, <2>2 DEF TravalRejoin, TypeOK
  <2> QED
    BY <1>0, <1>23, <2>3 DEF TravalRejoin, TypeOK
<1>24. CASE Second
  <2>1. second' \in 0 .. Minute - 1
    BY <1>0, <1>24, HeartBeatAssumption DEF Second, TypeOK
  <2>2. sinceFire' \in [Counters -> Ages] /\ sinceRsp' \in [Counters -> Ages]
    BY <1>0, <1>1, <1>24 DEF Second, TypeOK
  <2>3. minuteDue' \in BOOLEAN /\ timerDue' \in BOOLEAN
    BY <1>24 DEF Second
  <2> QED
    BY <1>0, <1>24, <2>1, <2>2, <2>3 DEF Second, TypeOK
<1>25. CASE FallSilent
  BY <1>0, <1>25 DEF FallSilent, TypeOK
<1> QED
  BY <1>4, <1>5, <1>6, <1>7, <1>8, <1>9, <1>11, <1>12, <1>13, <1>14, <1>15, <1>16, <1>17, <1>18, <1>19, <1>20,
    <1>21, <1>22, <1>23, <1>24, <1>25 DEF Next, Traval, Ongoing
-----------------------------------------------------------------------------
(* Every step, and the theorems *)

LEMMA NextIInv == IInv /\ [Next]_vars => IInv'
<1> SUFFICES ASSUME IInv, [Next]_vars PROVE IInv'
  OBVIOUS
<1> HIDE DEF vars
<1>1. TypeOK' /\ ListedOnce' /\ MadeBeforeUse' /\ WalkPlaces' /\ HandPlaces' /\ RetriesApart'
  BY TypeOKKept, ListedOnceKept, MadeBeforeUseKept, WalkPlacesKept, HandPlacesKept, RetriesApartKept
<1>2. WantingCounted' /\ BeatsWhileWanted' /\ FreedOnlyUnderTheWalk'
  BY WantingCountedKept, BeatsWhileWantedKept, FreedOnlyUnderTheWalkKept
<1> QED
  BY <1>1, <1>2 DEF IInv

\* The inductive invariant, which the others follow from: the lists hold each
\* counter once, a counter of each remote counts the sessions that want it, and
\* what the application is about to delete is out of the timer's hands or known
\* to be in them.
THEOREM Inductive == Spec => []IInv
<1> HIDE DEF vars
<1> QED
  BY InitIInv, NextIInv, PTL DEF Spec

\* Every variable keeps its type: no counter waits longer than its interval and
\* its retries, and no reference is given back that was not there.
THEOREM TypeCorrect == Spec => []TypeOK
<1>1. IInv => TypeOK
  BY DEF IInv
<1> QED
  BY <1>1, Inductive, PTL

\* removeHeartBeat deletes no counter that the timer still holds, except one that
\* the walk had under its iterator or put aside, however the threads interleave.
THEOREM FreedOnlyUnderTheWalkHolds == Spec => []FreedOnlyUnderTheWalk
<1>1. IInv => FreedOnlyUnderTheWalk
  BY DEF IInv
<1> QED
  BY <1>1, Inductive, PTL

\* A session that started its heartbeat has a counter until it is released,
\* unless one that started none gave its reference back.
THEOREM BeatsWhileWantedHolds == Spec => []BeatsWhileWanted
<1>1. IInv => BeatsWhileWanted
  BY DEF IInv
<1> QED
  BY <1>1, Inductive, PTL
=============================================================================
