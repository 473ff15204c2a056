--------------------- MODULE StreamPlayScheduler_proofs ---------------------
(***************************************************************************)
(* What the scheduler holds is never deleted and its only player is never  *)
(* lost, for any number of streams, files, rounds and calls.               *)
(***************************************************************************)
EXTENDS StreamPlayScheduler, SequenceTheorems, TLAPS

\* What the looper knows at each place of its round.
Rounding ==
  /\ cursor >= 1
  /\ number <= RoundLimit \/ pc = "limit"
  /\ pc = "clearing" => player = Nobody
  /\ pc \in {"acquired", "started"} =>
       /\ activeSouce = Nobody /\ player = Candidate /\ player # Nobody
       /\ preemptionSource = Nobody => cursor \in DOMAIN sourceList
       /\ player \in Streams => heard[player] = "enough"
  /\ pc = "electing" /\ activeSouce # Nobody => preemptionSource = Nobody
  /\ pc = "reclaiming" => preemptionSource = Nobody

\* What plays is not ready to be deleted: it has been predicted to last, and is
\* marked played only when it stops.
ActivePlays ==
  activeSouce # Nobody =>
    /\ pc # "clearing" => playState[activeSouce] \in {"PLAYING", "NO_MORE"}
    /\ activeSouce \in Streams => heard[activeSouce] = "enough"

PreemptedByFile == preemptionSource \in Files \cup {Nobody}

\* Nothing is handed over twice.
ListedOnce == IsInjective(sourceList)

\* The pointer terminatePlay goes through is null only in a dead process.
TargetIsSource == tpc = "loaded" /\ ~dead => target \in Sources

Held ==
  /\ ReferencesLive
  /\ PlayerHeldByActive
  /\ Rounding
  /\ ActivePlays
  /\ PreemptedByFile
  /\ ListedOnce
  /\ TargetIsSource

IInv == TypeOK /\ Held

USE DEF vars, stream, choice, application, terminator, looper
-----------------------------------------------------------------------------
(* Lists *)

LEMMA SourceTypes ==
  /\ Nobody \notin Sources /\ Files \subseteq Sources /\ Streams \subseteq Sources
  /\ Streams \cap Files = {} /\ RoundLimit \in Nat /\ MaxCalls \in Nat
  /\ Sources = Streams \cup Files
  BY SchedulerAssumption DEF Sources

LEMMA ListPlaces ==
  ASSUME TypeOK
  PROVE  /\ sourceList \in Seq(Sources) /\ Len(sourceList) \in Nat
         /\ DOMAIN sourceList = 1 .. Len(sourceList)
         /\ \A i \in DOMAIN sourceList : sourceList[i] \in ToSet(sourceList)
         /\ ToSet(sourceList) \subseteq Sources
  BY DEF TypeOK, ToSet

LEMMA AppendToList ==
  ASSUME NEW S, NEW s \in Seq(S), NEW e \in S
  PROVE  /\ Append(s, e) \in Seq(S)
         /\ ToSet(Append(s, e)) = ToSet(s) \cup {e}
         /\ IsInjective(s) /\ e \notin ToSet(s) => IsInjective(Append(s, e))
<1>1. /\ DOMAIN Append(s, e) = 1 .. Len(s) + 1 /\ DOMAIN s = 1 .. Len(s)
      /\ Len(s) \in Nat /\ Append(s, e)[Len(s) + 1] = e
      /\ \A i \in 1 .. Len(s) : Append(s, e)[i] = s[i]
      /\ Append(s, e) \in Seq(S)
  OBVIOUS
<1>2. ToSet(Append(s, e)) = ToSet(s) \cup {e}
  BY <1>1 DEF ToSet
<1>3. IsInjective(s) /\ e \notin ToSet(s) => IsInjective(Append(s, e))
  BY <1>1 DEF ToSet, IsInjective
<1> QED
  BY <1>1, <1>2, <1>3

LEMMA RemoveAtIndices ==
  ASSUME NEW S, NEW s \in Seq(S), NEW i \in 1 .. Len(s)
  PROVE  /\ RemoveAt(s, i) \in Seq(S)
         /\ Len(RemoveAt(s, i)) = Len(s) - 1
         /\ \A j \in 1 .. Len(s) - 1 :
              RemoveAt(s, i)[j] = IF j < i THEN s[j] ELSE s[j + 1]
<1> DEFINE a == SubSeq(s, 1, i - 1)
           b == SubSeq(s, i + 1, Len(s))
<1>1. Len(s) \in Nat /\ i \in Int
  OBVIOUS
<1>2. /\ a \in Seq(S) /\ Len(a) = i - 1
      /\ \A j \in 1 .. i - 1 : a[j] = s[j]
  OBVIOUS
<1>3. /\ b \in Seq(S) /\ Len(b) = Len(s) - i
      /\ \A j \in 1 .. Len(s) - i : b[j] = s[j + i]
  OBVIOUS
<1> HIDE DEF a, b
<1>4. /\ a \o b \in Seq(S) /\ Len(a \o b) = Len(s) - 1
      /\ \A j \in 1 .. Len(s) - 1 :
           (a \o b)[j] = IF j <= i - 1 THEN a[j] ELSE b[j - (i - 1)]
  <2>1. Len(a) + Len(b) = Len(s) - 1
    BY <1>1, <1>2, <1>3
  <2>2. /\ a \o b \in Seq(S) /\ Len(a \o b) = Len(a) + Len(b)
        /\ \A j \in 1 .. Len(a) + Len(b) :
             (a \o b)[j] = IF j <= Len(a) THEN a[j] ELSE b[j - Len(a)]
    BY <1>2, <1>3, ConcatProperties
  <2> QED
    BY <1>2, <2>1, <2>2
<1>5. ASSUME NEW j \in 1 .. Len(s) - 1
      PROVE  (a \o b)[j] = IF j < i THEN s[j] ELSE s[j + 1]
  <2>1. CASE j < i
    BY <1>1, <1>2, <1>4, <2>1
  <2>2. CASE ~(j < i)
    <3>1. j - (i - 1) \in 1 .. Len(s) - i /\ (j - (i - 1)) + i = j + 1
      BY <1>1, <2>2
    <3> QED
      BY <1>1, <1>3, <1>4, <2>2, <3>1
  <2> QED
    BY <2>1, <2>2
<1> QED
  BY <1>4, <1>5 DEF RemoveAt, a, b

LEMMA RemoveAtFromInjective ==
  ASSUME NEW S, NEW s \in Seq(S), NEW i \in 1 .. Len(s), IsInjective(s)
  PROVE  /\ IsInjective(RemoveAt(s, i))
         /\ ToSet(RemoveAt(s, i)) = ToSet(s) \ {s[i]}
<1> DEFINE r == RemoveAt(s, i)
<1>1. /\ r \in Seq(S) /\ Len(r) = Len(s) - 1 /\ Len(s) \in Nat
      /\ \A j \in 1 .. Len(s) - 1 : r[j] = IF j < i THEN s[j] ELSE s[j + 1]
  <2>1. Len(s) \in Nat
    OBVIOUS
  <2> QED
    BY <2>1, RemoveAtIndices
<1>2. DOMAIN r = 1 .. Len(s) - 1 /\ DOMAIN s = 1 .. Len(s)
  BY <1>1
<1> HIDE DEF r
<1>3. IsInjective(r)
  <2> SUFFICES ASSUME NEW j \in 1 .. Len(s) - 1, NEW k \in 1 .. Len(s) - 1, r[j] = r[k]
               PROVE  j = k
    BY <1>2 DEF IsInjective
  <2>1. \A x, y \in 1 .. Len(s) : s[x] = s[y] => x = y
    BY <1>2 DEF IsInjective
  <2>2. /\ j \in 1 .. Len(s) /\ j + 1 \in 1 .. Len(s)
        /\ k \in 1 .. Len(s) /\ k + 1 \in 1 .. Len(s)
    BY <1>1
  <2> QED
    BY <1>1, <2>1, <2>2
<1>4. ToSet(r) \subseteq ToSet(s) \ {s[i]}
  BY <1>1, <1>2 DEF ToSet, IsInjective
<1>5. ASSUME NEW j \in 1 .. Len(s), j # i PROVE s[j] \in ToSet(r)
  <2>1. CASE j < i
    BY <1>1, <1>2, <2>1 DEF ToSet
  <2>2. CASE j > i
    <3>1. j - 1 \in 1 .. Len(s) - 1 /\ ~(j - 1 < i) /\ (j - 1) + 1 = j
      BY <1>1, <2>2
    <3> QED
      BY <1>1, <1>2, <3>1 DEF ToSet
  <2> QED
    BY <1>5, <2>1, <2>2
<1>6. ToSet(r) = ToSet(s) \ {s[i]}
  BY <1>2, <1>4, <1>5 DEF ToSet
<1> QED
  BY <1>3, <1>6 DEF r
-----------------------------------------------------------------------------
LEMMA InitIInv == Init => IInv
<1> SUFFICES ASSUME Init PROVE IInv
  OBVIOUS
<1>1. TypeOK
  <2>1. 0 \in 0 .. RoundLimit + 1 /\ 0 \in 0 .. MaxCalls /\ <<>> \in Seq(Sources)
    BY SourceTypes
  <2> QED
    BY <2>1 DEF Init, TypeOK
<1>2. Listed = {} /\ ToSet(sourceList) = {} /\ IsInjective(sourceList)
  BY DEF Init, Listed, ToSet, IsInjective
<1>3. Held
  BY <1>2, SourceTypes
  DEF Init, Held, ReferencesLive, PlayerHeldByActive, Rounding, ActivePlays,
      PreemptedByFile, ListedOnce, TargetIsSource
<1> QED
  BY <1>1, <1>3 DEF IInv

\* The source that is being started is in the list, and only one that was
\* predicted to last is a stream.
LEMMA CandidateFound ==
  ASSUME IInv, NEW i, ToStart(i)
  PROVE  LET s == IF preemptionSource # Nobody THEN preemptionSource ELSE sourceList[i]
         IN  /\ s \in ToSet(sourceList) /\ s \in Sources
             /\ s \in Streams => heard[s] = "enough"
             /\ i \in Nat /\ i >= 1
             /\ preemptionSource = Nobody => i \in DOMAIN sourceList
<1>0. TypeOK /\ Held /\ cursor \in Nat /\ cursor >= 1
  BY DEF IInv, Held, Rounding, TypeOK
<1>1. CASE preemptionSource # Nobody
  BY <1>0, <1>1, ListPlaces, SourceTypes DEF Held, ReferencesLive, PreemptedByFile, ToStart
<1>2. CASE preemptionSource = Nobody
  <2>1. i \in cursor .. Len(sourceList) /\ Electable(sourceList[i])
    BY <1>2 DEF ToStart, Electables
  <2>2. i \in DOMAIN sourceList /\ i \in Nat /\ i >= 1
    BY <1>0, <2>1, ListPlaces
  <2>3. sourceList[i] \in ToSet(sourceList) /\ sourceList[i] \in Sources
    BY <1>0, <2>2, ListPlaces
  <2> QED
    BY <1>2, <2>1, <2>2, <2>3 DEF Electable
<1> QED
  BY <1>1, <1>2
\* The look at the talk, and the deletions that lead it astray.
Looks(s) == DelegateTest(s) \/ LookFetch(s) \/ LookAsk(s) \/ LookAstray(s)

Deletes == DeleteTalk \/ WakeDeletes

LifeTypes == {"new", "looking", "holding", "astray", "tested", "listed", "deleted"}

LEMMA AstrayKeeps ==
  ASSUME life \in [Sources -> LifeTypes], life' = Astray
  PROVE  life' \in [Sources -> LifeTypes] /\ Listed' = Listed
  BY DEF Astray, Listed, LifeTypes

LEMMA LooksKeep ==
  ASSUME life \in [Sources -> LifeTypes], NEW s \in Sources, Looks(s)
  PROVE  life' \in [Sources -> LifeTypes] /\ Listed' = Listed
<1>1. CASE UNCHANGED life
  BY <1>1 DEF Listed
<1>2. ASSUME NEW to \in LifeTypes, to # "listed", life[s] # "listed",
             life' = [life EXCEPT ![s] = to]
      PROVE  life' \in [Sources -> LifeTypes] /\ Listed' = Listed
  BY <1>2 DEF Listed
<1>3. CASE DelegateTest(s)
  BY <1>2, <1>3 DEF DelegateTest, LifeTypes
<1>4. CASE LookFetch(s)
  BY <1>1, <1>2, <1>4 DEF LookFetch, LifeTypes
<1>5. CASE LookAsk(s)
  BY <1>2, <1>5 DEF LookAsk, LifeTypes
<1>6. CASE LookAstray(s)
  BY <1>1, <1>2, <1>6 DEF LookAstray, LifeTypes
<1> QED
  BY <1>3, <1>4, <1>5, <1>6 DEF Looks
-----------------------------------------------------------------------------
(* Type correctness *)

LEMMA NextTypeOK == IInv /\ [Next]_vars => TypeOK'
<1> SUFFICES ASSUME IInv, [Next]_vars PROVE TypeOK'
  OBVIOUS
<1> USE SourceTypes
<1>0. TypeOK /\ Held
  BY DEF IInv
<1>1. ASSUME NEW s \in Sources, Delegate(s) \/ FeedLast(s)
      PROVE  TypeOK'
  <2>1. life' \in [Sources -> LifeTypes]
    BY <1>0, <1>1 DEF TypeOK, Delegate, FeedLast, LifeTypes
  <2>2. playState' \in [Sources -> {"WAITING", "PLAYING", "NO_MORE", "PLAYED"}]
    BY <1>0, <1>1 DEF TypeOK, Delegate, FeedLast
  <2>3. sourceList' \in Seq(Sources)
    <3>1. CASE Delegate(s)
      BY <1>0, <3>1, AppendToList DEF TypeOK, Delegate
    <3>2. CASE FeedLast(s)
      BY <1>0, <3>2 DEF TypeOK, FeedLast
    <3> QED
      BY <1>1, <3>1, <3>2
  <2> QED
    BY <1>0, <1>1, <2>1, <2>2, <2>3 DEF TypeOK, Delegate, FeedLast, LifeTypes
<1>15. ASSUME NEW s \in Sources, Looks(s) PROVE TypeOK'
  <2>1. life' \in [Sources -> LifeTypes]
    BY <1>0, <1>15, LooksKeep DEF TypeOK, LifeTypes
  <2>2. dead' \in BOOLEAN
    BY <1>0, <1>15 DEF TypeOK, Looks, DelegateTest, LookFetch, LookAsk, LookAstray
  <2>3. UNCHANGED <<sourceList, activeSouce, preemptionSource, engrossId, number, pc, cursor,
                    player, playState, heard, writeStatus, timed, recording, tpc, target,
                    calls, overtaken>>
    BY <1>15 DEF Looks, DelegateTest, LookFetch, LookAsk, LookAstray
  <2> QED
    BY <1>0, <2>1, <2>2, <2>3 DEF TypeOK, LifeTypes
<1>16. CASE Deletes \/ ClearTalk \/ TalkForgotten
  <2>1. life' \in [Sources -> LifeTypes]
    BY <1>0, <1>16, AstrayKeeps
    DEF TypeOK, LifeTypes, Deletes, DeleteTalk, WakeDeletes, ClearTalk, TalkForgotten
  <2>2. calls' \in 0 .. MaxCalls
    BY <1>0, <1>16 DEF TypeOK, Deletes, DeleteTalk, WakeDeletes, ClearTalk, TalkForgotten
  <2>3. pc' \in {pc, "forgetting", "ending"} /\ recording' \in {"freed", "none"}
    BY <1>16 DEF Deletes, DeleteTalk, WakeDeletes, ClearTalk, TalkForgotten
  <2>4. UNCHANGED <<sourceList, activeSouce, preemptionSource, engrossId, number, cursor,
                    player, playState, heard, writeStatus, timed, tpc, target, overtaken,
                    dead>>
    BY <1>16 DEF Deletes, DeleteTalk, WakeDeletes, ClearTalk, TalkForgotten
  <2> QED
    BY <1>0, <2>1, <2>2, <2>3, <2>4 DEF TypeOK, LifeTypes
<1>2. ASSUME NEW s \in Streams, Hear(s) \/ HearEnd(s) \/ WriteTimeout(s)
      PROVE  TypeOK'
  <2>1. heard' \in [Streams -> {"nothing", "type", "enough"}]
    BY <1>0, <1>2 DEF TypeOK, Hear, HearEnd, WriteTimeout
  <2>2. writeStatus' \in [Streams -> {"WRITING", "END", "TIMEOUT_WAITING", "TIMEOUT"}]
    BY <1>0, <1>2 DEF TypeOK, Hear, HearEnd, WriteTimeout
  <2> QED
    BY <1>0, <1>2, <2>1, <2>2 DEF TypeOK, Hear, HearEnd, WriteTimeout
<1>3. ASSUME NEW permit \in {PermitOf[s] : s \in Sources} \cup {Normal}, Engross(permit)
      PROVE  TypeOK'
  BY <1>0, <1>3 DEF TypeOK, Engross
<1>4. CASE StartTalk \/ StopTalk \/ TerminateTest \/ TerminateLoad
  <2>1. calls' \in 0 .. MaxCalls
    BY <1>0, <1>4 DEF TypeOK, StartTalk, StopTalk, TerminateTest, TerminateLoad
  <2>2. {activeSouce, preemptionSource, player, target}' \subseteq Sources \cup {Nobody}
    BY <1>0, <1>4 DEF TypeOK, StartTalk, StopTalk, TerminateTest, TerminateLoad
  <2> QED
    <3>1. CASE StartTalk
      BY <1>0, <2>1, <2>2, <3>1 DEF TypeOK, StartTalk
    <3>2. CASE StopTalk
      BY <1>0, <2>1, <2>2, <3>2 DEF TypeOK, StopTalk
    <3>3. CASE TerminateTest
      BY <1>0, <2>1, <2>2, <3>3 DEF TypeOK, TerminateTest
    <3>4. CASE TerminateLoad
      BY <1>0, <2>1, <2>2, <3>4 DEF TypeOK, TerminateLoad
    <3> QED
      BY <1>4, <3>1, <3>2, <3>3, <3>4
<1>5. CASE TerminateSet /\ ~dead
  <2>0. target \in Sources
    BY <1>0, <1>5 DEF Held, TargetIsSource, TerminateSet
  <2>1. playState' \in [Sources -> {"WAITING", "PLAYING", "NO_MORE", "PLAYED"}]
    BY <1>0, <1>5 DEF TypeOK, TerminateSet
  <2>2. overtaken' \subseteq Sources /\ dead' \in BOOLEAN
    BY <1>0, <1>5, <2>0 DEF TypeOK, TerminateSet
  <2> QED
    BY <1>0, <1>5, <2>1, <2>2 DEF TypeOK, TerminateSet
<1>6. CASE Wake \/ SourceStays \/ SourceStops \/ SourceCleared
  <2>1. playState' \in [Sources -> {"WAITING", "PLAYING", "NO_MORE", "PLAYED"}]
    BY <1>0, <1>6 DEF TypeOK, Wake, SourceStays, SourceStops, SourceCleared
  <2> QED
    <3>1. CASE Wake
      BY <1>0, <2>1, <3>1 DEF TypeOK, Wake
    <3>2. CASE SourceStays
      BY <1>0, <2>1, <3>2 DEF TypeOK, SourceStays
    <3>3. CASE SourceStops
      BY <1>0, <2>1, <3>3 DEF TypeOK, SourceStops
    <3>4. CASE SourceCleared
      BY <1>0, <2>1, <3>4 DEF TypeOK, SourceCleared
    <3> QED
      BY <1>6, <3>1, <3>2, <3>3, <3>4
<1>7. ASSUME NEW i \in Places, Acquire(i) \/ NotAcquired(i)
      PROVE  TypeOK'
  <2>1. i \in Nat /\ i + 1 \in Nat /\ 1 \in Nat
    BY <1>0, <1>7, CandidateFound DEF Acquire, NotAcquired
  <2>2. player' \in Sources \cup {Nobody}
    BY <1>0, <1>7, CandidateFound DEF Acquire, NotAcquired, TypeOK
  <2> QED
    BY <1>0, <1>7, <2>1, <2>2 DEF TypeOK, Acquire, NotAcquired, GoOn
<1>8. CASE StartPlay \/ NotStarted
  <2>1. CASE StartPlay
    BY <1>0, <2>1 DEF TypeOK, StartPlay
  <2>2. CASE NotStarted
    BY <1>0, <2>2 DEF TypeOK, NotStarted, GoOn
  <2> QED
    BY <1>8, <2>1, <2>2
<1>9. CASE Playing
  <2>1. Candidate \in Sources
    BY <1>0, <1>9 DEF Held, Rounding, Playing, TypeOK
  <2>2. playState' \in [Sources -> {"WAITING", "PLAYING", "NO_MORE", "PLAYED"}]
    BY <1>0, <1>9, <2>1 DEF TypeOK, Playing
  <2> QED
    BY <1>0, <1>9, <2>1, <2>2 DEF TypeOK, Playing
<1>10. CASE Elected
  BY <1>0, <1>10 DEF TypeOK, Elected
<1>11. ASSUME NEW i \in Places, Reclaim(i) PROVE TypeOK'
  <2>1. i \in DOMAIN sourceList /\ i \in Nat
    BY <1>0, <1>11, ListPlaces DEF Reclaim, Reclaimables, Held, Rounding, TypeOK
  <2>2. sourceList' \in Seq(Sources)
    BY <1>0, <1>11, <2>1, ListPlaces, RemoveAtIndices DEF Reclaim
  <2>3. life' \in [Sources -> LifeTypes]
    BY <1>0, <1>11 DEF Reclaim, TypeOK, LifeTypes
  <2>4. playState' \in [Sources -> {"WAITING", "PLAYING", "NO_MORE", "PLAYED"}]
    BY <1>0, <1>11 DEF Reclaim, TypeOK
  <2> QED
    BY <1>0, <1>11, <2>1, <2>2, <2>3, <2>4 DEF TypeOK, Reclaim, LifeTypes
<1>12. CASE RoundEnds
  <2>1. number' \in 0 .. RoundLimit + 1
    BY <1>0, <1>12 DEF TypeOK, RoundEnds, Rounds, Held, Rounding
  <2> QED
    BY <1>0, <1>12, <2>1 DEF TypeOK, RoundEnds
<1>13. CASE Limit
  <2>1. playState' \in [Sources -> {"WAITING", "PLAYING", "NO_MORE", "PLAYED"}]
    BY <1>0, <1>13 DEF TypeOK, Limit
  <2>2. number' \in 0 .. RoundLimit + 1
    BY <1>13 DEF Limit
  <2> QED
    BY <1>0, <1>13, <2>1, <2>2 DEF TypeOK, Limit
<1>14. CASE UNCHANGED vars
  BY <1>0, <1>14 DEF TypeOK
<1> QED
  BY <1>1, <1>2, <1>3, <1>4, <1>5, <1>6, <1>7, <1>8, <1>9, <1>10, <1>11, <1>12, <1>13, <1>14,
     <1>15, <1>16
  DEF Next, LooperStep, Start, Looks, Deletes
-----------------------------------------------------------------------------
(* What is held, action by action *)

\* Whoever touches neither the list nor what is held, and marks no source but
\* as one that has no more, leaves everything as it is.
LEMMA OthersKeep ==
  ASSUME IInv,
         UNCHANGED <<sourceList, preemptionSource, activeSouce, player, cursor>>,
         Listed' = Listed,
         number' = number \/ number' = 0,
         \A s \in Sources : playState'[s] \in {playState[s], "NO_MORE"},
         \A s \in Streams : heard[s] = "enough" => heard'[s] = "enough",
         \/ pc' = pc
         \/ pc' = "wait"
         \/ pc' \in {"forgetting", "ending"}
         \/ pc' = "electing" /\ (activeSouce # Nobody => preemptionSource = Nobody)
         \/ pc' = "reclaiming" /\ preemptionSource = Nobody
         \/ pc = "acquired" /\ pc' = "started",
         pc = "clearing" => pc' = "clearing",
         pc \in {"acquired", "started"} => pc' \in {"acquired", "started"},
         pc = "limit" => pc' = "limit" \/ number' = 0,
         TargetIsSource'
  PROVE  Held'
<1>0. TypeOK /\ Held
  BY DEF IInv
<1>1. ReferencesLive'
  BY <1>0 DEF Held, ReferencesLive
<1>2. PlayerHeldByActive'
  BY <1>0 DEF Held, PlayerHeldByActive
<1>3. Rounding'
  <2>1. Candidate' = Candidate /\ cursor' >= 1
    BY <1>0 DEF Candidate, Held, Rounding
  <2>2. number' <= RoundLimit \/ pc' = "limit"
    BY <1>0, SourceTypes DEF Held, Rounding
  <2>3. /\ pc' = "clearing" => player' = Nobody
        /\ pc' = "electing" /\ activeSouce' # Nobody => preemptionSource' = Nobody
        /\ pc' = "reclaiming" => preemptionSource' = Nobody
    BY <1>0 DEF Held, Rounding
  <2>4. ASSUME pc' \in {"acquired", "started"}
        PROVE  /\ activeSouce' = Nobody /\ player' = Candidate' /\ player' # Nobody
               /\ preemptionSource' = Nobody => cursor' \in DOMAIN sourceList'
               /\ player' \in Streams => heard'[player'] = "enough"
    <3>1. pc \in {"acquired", "started"}
      BY <2>4
    <3> QED
      BY <1>0, <2>1, <3>1 DEF Held, Rounding
  <2> QED
    BY <2>1, <2>2, <2>3, <2>4 DEF Rounding
<1>4. ActivePlays'
  <2> SUFFICES ASSUME activeSouce # Nobody
               PROVE  /\ pc' # "clearing" => playState'[activeSouce] \in {"PLAYING", "NO_MORE"}
                      /\ activeSouce \in Streams => heard'[activeSouce] = "enough"
    BY DEF ActivePlays
  <2>1. activeSouce \in Sources
    BY <1>0 DEF TypeOK
  <2> QED
    BY <1>0, <2>1 DEF Held, ActivePlays
<1>5. PreemptedByFile' /\ ListedOnce'
  BY <1>0 DEF Held, PreemptedByFile, ListedOnce
<1> QED
  BY <1>1, <1>2, <1>3, <1>4, <1>5 DEF Held

\* The application, the network and the timer.
LEMMA OutsideKeeps ==
  ASSUME IInv, ~dead,
         \/ \E s \in Sources : Looks(s) \/ FeedLast(s)
         \/ \E s \in Streams : Hear(s) \/ HearEnd(s) \/ WriteTimeout(s)
         \/ \E permit \in {PermitOf[s] : s \in Sources} \cup {Normal} : Engross(permit)
         \/ StartTalk \/ StopTalk \/ DeleteTalk \/ ClearTalk
         \/ TerminateTest \/ TerminateLoad \/ TerminateSet
  PROVE  Held'
<1>0. TypeOK /\ Held
  BY DEF IInv
<1> DEFINE Looking == \E s \in Sources : Looks(s)
           Rest == \/ \E s \in Sources : FeedLast(s)
                   \/ \E s \in Streams : Hear(s) \/ HearEnd(s) \/ WriteTimeout(s)
                   \/ \E permit \in {PermitOf[s] : s \in Sources} \cup {Normal} : Engross(permit)
                   \/ StartTalk \/ StopTalk \/ DeleteTalk \/ ClearTalk
                   \/ TerminateTest \/ TerminateLoad \/ TerminateSet
<1>1. UNCHANGED <<sourceList, preemptionSource, activeSouce, player, cursor, number, pc>>
  <2>1. CASE Looking
    BY <2>1 DEF Looks, DelegateTest, LookFetch, LookAsk, LookAstray
  <2>2. CASE Rest
    BY <2>2 DEF FeedLast, Hear, HearEnd, WriteTimeout, Engross, StartTalk, StopTalk,
       DeleteTalk, ClearTalk, TerminateTest, TerminateLoad, TerminateSet
  <2> QED
    BY <2>1, <2>2
<1>2. Listed' = Listed
  <2>1. CASE UNCHANGED life
    BY <2>1 DEF Listed
  <2>2. CASE Looking
    BY <1>0, <2>2, LooksKeep DEF TypeOK, LifeTypes
  <2>3. CASE DeleteTalk
    BY <1>0, <2>3, AstrayKeeps DEF TypeOK, LifeTypes, DeleteTalk
  <2>4. CASE Rest /\ ~DeleteTalk
    BY <2>1, <2>4 DEF FeedLast, Hear, HearEnd, WriteTimeout, Engross, StartTalk, StopTalk,
       ClearTalk, TerminateTest, TerminateLoad, TerminateSet
  <2> QED
    BY <2>2, <2>3, <2>4
<1>3. \A s \in Sources : playState'[s] \in {playState[s], "NO_MORE"}
  <2>1. CASE Looking
    BY <2>1 DEF Looks, DelegateTest, LookFetch, LookAsk, LookAstray
  <2>2. CASE Rest
    BY <1>0, <2>2 DEF TypeOK, FeedLast, Hear, HearEnd, WriteTimeout, Engross, StartTalk,
       StopTalk, DeleteTalk, ClearTalk, TerminateTest, TerminateLoad, TerminateSet
  <2> QED
    BY <2>1, <2>2
<1>4. \A s \in Streams : heard[s] = "enough" => heard'[s] = "enough"
  <2>1. CASE Looking
    BY <2>1 DEF Looks, DelegateTest, LookFetch, LookAsk, LookAstray
  <2>2. CASE Rest
    BY <1>0, <2>2 DEF TypeOK, FeedLast, Hear, HearEnd, WriteTimeout, Engross, StartTalk,
       StopTalk, DeleteTalk, ClearTalk, TerminateTest, TerminateLoad, TerminateSet
  <2> QED
    BY <2>1, <2>2
<1>5. TargetIsSource'
  <2>1. CASE Looking
    BY <1>0, <2>1 DEF Held, TargetIsSource, Looks, DelegateTest, LookFetch, LookAsk, LookAstray
  <2>2. CASE Rest
    BY <1>0, <2>2 DEF Held, TargetIsSource, TypeOK, FeedLast, Hear, HearEnd, WriteTimeout,
       Engross, StartTalk, StopTalk, DeleteTalk, ClearTalk, TerminateTest, TerminateLoad,
       TerminateSet
  <2> QED
    BY <2>1, <2>2
<1> QED
  BY <1>1, <1>2, <1>3, <1>4, <1>5, OthersKeep

\* The places of the looper where it changes nothing that is held.
LEMMA LooperMovesKeep ==
  ASSUME IInv, Wake \/ WakeDeletes \/ TalkForgotten \/ SourceStays \/ StartPlay \/ Elected \/ Limit
  PROVE  Held'
<1>0. TypeOK /\ Held
  BY DEF IInv
<1>1. UNCHANGED <<sourceList, preemptionSource, activeSouce, player, heard>>
  BY DEF Wake, WakeDeletes, TalkForgotten, SourceStays, StartPlay, Elected, Limit
<1>2. Listed' = Listed
  <2>1. CASE WakeDeletes
    BY <1>0, <2>1, AstrayKeeps DEF TypeOK, LifeTypes, WakeDeletes
  <2>2. CASE UNCHANGED life
    BY <2>2 DEF Listed
  <2> QED
    BY <2>1, <2>2 DEF Wake, TalkForgotten, SourceStays, StartPlay, Elected, Limit
<1>3. \A s \in Sources : playState'[s] \in {playState[s], "NO_MORE"}
  BY <1>0 DEF TypeOK, Wake, WakeDeletes, TalkForgotten, SourceStays, StartPlay, Elected, Limit
<1>4. TargetIsSource'
  BY <1>0 DEF Held, TargetIsSource, Wake, WakeDeletes, TalkForgotten, SourceStays, StartPlay, Elected, Limit
<1>5. CASE ~Elected
  <2>1. UNCHANGED cursor
    BY <1>5 DEF Wake, WakeDeletes, TalkForgotten, SourceStays, StartPlay, Limit
  <2>2. number' = number \/ number' = 0
    BY <1>5 DEF Wake, WakeDeletes, TalkForgotten, SourceStays, StartPlay, Limit
  <2>3. \/ pc \in {"wait", "forgetting"} /\ pc' \in {"forgetting", "ending"}
        \/ pc = "ending" /\ pc' = "electing" /\ (activeSouce # Nobody => preemptionSource = Nobody)
        \/ pc = "acquired" /\ pc' = "started"
        \/ pc = "limit" /\ pc' = "wait" /\ number' = 0
    BY <1>5 DEF Wake, WakeDeletes, TalkForgotten, SourceStays, StartPlay, Limit, MustStop
  <2> QED
    BY <1>1, <1>2, <1>3, <1>4, <2>1, <2>2, <2>3, OthersKeep
<1>6. CASE Elected
  <2>1. pc = "electing" /\ pc' = "reclaiming" /\ preemptionSource = Nobody /\ number' = number
    BY <1>0, <1>6 DEF Elected, Held, Rounding
  <2>2. cursor' = 1
    BY <1>6 DEF Elected
  <2>3. Rounding'
    BY <1>0, <1>1, <2>1, <2>2 DEF Held, Rounding
  <2>4. ActivePlays'
    BY <1>0, <1>1, <1>6, <2>1 DEF Held, ActivePlays, Elected
  <2> QED
    BY <1>0, <1>1, <1>2, <1>4, <2>1, <2>3, <2>4
    DEF Held, ReferencesLive, PlayerHeldByActive, PreemptedByFile, ListedOnce
<1> QED
  BY <1>5, <1>6

\* The active source stops and is forgotten.
LEMMA StopKeeps ==
  ASSUME IInv, SourceStops \/ SourceCleared
  PROVE  Held'
<1>0. TypeOK /\ Held
  BY DEF IInv
<1>1. UNCHANGED <<sourceList, preemptionSource, life, heard, cursor, number, tpc, target, dead>>
  BY DEF SourceStops, SourceCleared
<1>2. Listed' = Listed /\ PreemptedByFile' /\ ListedOnce' /\ TargetIsSource'
  BY <1>0, <1>1 DEF Listed, Held, PreemptedByFile, ListedOnce, TargetIsSource
<1>3. CASE SourceStops
  <2>1. pc = "ending" /\ pc' = "clearing" /\ player' = Nobody /\ activeSouce' = activeSouce
    BY <1>0, <1>3 DEF SourceStops, Held, PlayerHeldByActive
  <2>2. Rounding'
    BY <1>0, <1>1, <2>1 DEF Held, Rounding
  <2>3. ActivePlays'
    BY <1>0, <1>1, <2>1 DEF Held, ActivePlays
  <2> QED
    BY <1>0, <1>1, <1>2, <2>1, <2>2, <2>3 DEF Held, ReferencesLive, PlayerHeldByActive
<1>4. CASE SourceCleared
  <2>1. pc = "clearing" /\ pc' = "electing" /\ player' = player /\ activeSouce' = Nobody
    BY <1>4 DEF SourceCleared
  <2>2. player = Nobody
    BY <1>0, <2>1 DEF Held, Rounding
  <2>3. Rounding' /\ ActivePlays'
    BY <1>0, <1>1, <2>1 DEF Held, Rounding, ActivePlays
  <2> QED
    BY <1>0, <1>1, <1>2, <2>1, <2>2, <2>3 DEF Held, ReferencesLive, PlayerHeldByActive
<1> QED
  BY <1>3, <1>4

\* A source is started, from the acquisition of the player to the active source.
LEMMA AcquireKeeps ==
  ASSUME IInv, NEW i \in Places, Acquire(i)
  PROVE  Held'
<1>0. TypeOK /\ Held
  BY DEF IInv
<1>1. /\ UNCHANGED <<sourceList, preemptionSource, activeSouce, life, playState, heard, number>>
      /\ UNCHANGED <<tpc, target, dead>>
      /\ pc = "electing" /\ activeSouce = Nobody /\ pc' = "acquired" /\ cursor' = i
      /\ player' = IF preemptionSource # Nobody THEN preemptionSource ELSE sourceList[i]
      /\ ToStart(i)
  BY DEF Acquire, ToStart
<1>2. /\ player' \in ToSet(sourceList) /\ player' \in Sources
      /\ player' \in Streams => heard[player'] = "enough"
      /\ i >= 1
      /\ preemptionSource = Nobody => i \in DOMAIN sourceList
  BY <1>1, CandidateFound
<1>3. player' = Candidate' /\ player' # Nobody
  BY <1>1, <1>2, SourceTypes DEF Candidate
<1>4. Rounding'
  BY <1>0, <1>1, <1>2, <1>3 DEF Held, Rounding
<1>5. Listed' = Listed
  BY <1>1 DEF Listed
<1> QED
  BY <1>0, <1>1, <1>2, <1>4, <1>5
  DEF Held, ReferencesLive, PlayerHeldByActive, ActivePlays, PreemptedByFile, ListedOnce,
      TargetIsSource

LEMMA GoOnKeeps ==
  ASSUME IInv, NotStarted \/ \E i \in Places : NotAcquired(i)
  PROVE  Held'
<1>0. TypeOK /\ Held
  BY DEF IInv
<1>1. /\ UNCHANGED <<sourceList, activeSouce, life, playState, heard, number>>
      /\ UNCHANGED <<tpc, target, dead>>
      /\ pc \in {"electing", "acquired"} /\ activeSouce = Nobody
      /\ pc' = "electing" /\ preemptionSource' = Nobody
  BY <1>0 DEF NotStarted, NotAcquired, GoOn, ToStart, Held, Rounding
<1>2. player' = Nobody
  BY <1>0, <1>1 DEF NotStarted, NotAcquired, Held, PlayerHeldByActive, ToStart
<1>3. cursor' >= 1
  <2>1. CASE NotStarted
    BY <1>0, <2>1 DEF NotStarted, GoOn, Held, Rounding, TypeOK
  <2>2. ASSUME NEW i \in Places, NotAcquired(i) PROVE cursor' >= 1
    BY <2>2, CandidateFound DEF NotAcquired, GoOn
  <2> QED
    BY <2>1, <2>2
<1>4. Listed' = Listed
  BY <1>1 DEF Listed
<1>5. Rounding'
  BY <1>0, <1>1, <1>3 DEF Held, Rounding
<1> QED
  BY <1>0, <1>1, <1>2, <1>4, <1>5
  DEF Held, ReferencesLive, PlayerHeldByActive, ActivePlays, PreemptedByFile, ListedOnce,
      TargetIsSource

LEMMA PlayingKeeps ==
  ASSUME IInv, Playing
  PROVE  Held'
<1>0. TypeOK /\ Held
  BY DEF IInv
<1>1. /\ UNCHANGED <<sourceList, player, life, heard, number, cursor, tpc, target, dead>>
      /\ pc = "started" /\ pc' = "electing"
      /\ activeSouce' = Candidate /\ preemptionSource' = Nobody
      /\ playState' = [playState EXCEPT ![Candidate] = "PLAYING"]
  BY DEF Playing
<1>2. player = Candidate /\ player # Nobody /\ player \in Sources
      /\ (player \in Streams => heard[player] = "enough")
  BY <1>0, <1>1 DEF Held, Rounding, TypeOK
<1>3. playState'[player] = "PLAYING"
  BY <1>0, <1>1, <1>2 DEF TypeOK
<1>4. ActivePlays'
  BY <1>1, <1>2, <1>3 DEF ActivePlays
<1>5. Rounding'
  BY <1>0, <1>1 DEF Held, Rounding
<1>6. Listed' = Listed
  BY <1>1 DEF Listed
<1> QED
  BY <1>0, <1>1, <1>2, <1>4, <1>5, <1>6
  DEF Held, ReferencesLive, PlayerHeldByActive, PreemptedByFile, ListedOnce, TargetIsSource

\* A source joins the list.
LEMMA DelegateKeeps ==
  ASSUME IInv, NEW s \in Sources, Delegate(s)
  PROVE  Held'
<1>0. TypeOK /\ Held
  BY DEF IInv
<1>1. /\ UNCHANGED <<activeSouce, player, playState, heard, number, pc, cursor>>
      /\ UNCHANGED <<tpc, target, dead>>
      /\ pc \in {"wait", "limit"} /\ life[s] = "tested"
      /\ life' = [life EXCEPT ![s] = "listed"]
      /\ sourceList' = Append(sourceList, s)
      /\ preemptionSource' = IF s \in Files THEN s ELSE preemptionSource
  BY DEF Delegate, Free
<1>2. s \notin Listed /\ Listed' = Listed \cup {s}
  BY <1>0, <1>1 DEF Listed, TypeOK
<1>3. s \notin ToSet(sourceList) /\ ToSet(sourceList) = Listed
  BY <1>0, <1>2 DEF Held, ReferencesLive
<1>4. ToSet(sourceList') = ToSet(sourceList) \cup {s} /\ IsInjective(sourceList')
  BY <1>0, <1>1, <1>3, AppendToList DEF Held, ListedOnce, TypeOK
<1>5. ReferencesLive'
  BY <1>0, <1>1, <1>2, <1>3, <1>4 DEF Held, ReferencesLive
<1>6. Rounding'
  BY <1>0, <1>1 DEF Held, Rounding
<1>7. ActivePlays'
  BY <1>0, <1>1 DEF Held, ActivePlays
<1> QED
  BY <1>0, <1>1, <1>4, <1>5, <1>6, <1>7
  DEF Held, PlayerHeldByActive, PreemptedByFile, ListedOnce, TargetIsSource

\* A source leaves it: never the active one, and nothing preempts meanwhile.
LEMMA ReclaimKeeps ==
  ASSUME IInv, NEW i \in Places, Reclaim(i)
  PROVE  Held'
<1>0. TypeOK /\ Held
  BY DEF IInv
<1> DEFINE s == sourceList[i]
<1>1. /\ UNCHANGED <<preemptionSource, activeSouce, player, heard, number, pc>>
      /\ UNCHANGED <<tpc, target, dead>>
      /\ pc = "reclaiming" /\ cursor' = i
      /\ life' = [life EXCEPT ![s] = "deleted"]
      /\ playState' = [playState EXCEPT ![s] = "PLAYED"]
      /\ sourceList' = RemoveAt(sourceList, i)
      /\ ReadyForDestroy(s)
  BY DEF Reclaim, Reclaimables
<1>2. i \in DOMAIN sourceList /\ i \in 1 .. Len(sourceList) /\ i >= 1
  BY <1>0, ListPlaces DEF Reclaim, Reclaimables, Held, Rounding, TypeOK
<1>3. s \in Sources /\ s \in ToSet(sourceList)
  BY <1>0, <1>2, ListPlaces
<1>4. ToSet(sourceList') = ToSet(sourceList) \ {s} /\ IsInjective(sourceList')
  BY <1>0, <1>1, <1>2, ListPlaces, RemoveAtFromInjective DEF Held, ListedOnce
<1> HIDE DEF s
<1>5. s # activeSouce
  <2> SUFFICES ASSUME s = activeSouce PROVE FALSE
    OBVIOUS
  <2>1. s # Nobody
    BY <1>3, SourceTypes
  <2>2. playState[s] \in {"PLAYING", "NO_MORE"} /\ (s \in Streams => heard[s] = "enough")
    BY <1>0, <1>1, <2>1 DEF Held, ActivePlays
  <2> QED
    BY <1>1, <2>2 DEF ReadyForDestroy, Marked
<1>6. preemptionSource = Nobody /\ player = activeSouce
  BY <1>0, <1>1 DEF Held, Rounding, PlayerHeldByActive
<1>7. Listed' = Listed \ {s}
  BY <1>0, <1>1, <1>3 DEF Listed, TypeOK
<1>8. ReferencesLive'
  BY <1>0, <1>1, <1>4, <1>5, <1>6, <1>7 DEF Held, ReferencesLive
<1>9. Rounding'
  BY <1>0, <1>1, <1>2, <1>6 DEF Held, Rounding
<1>10. ActivePlays'
  <2>1. activeSouce # Nobody => playState'[activeSouce] = playState[activeSouce]
    BY <1>0, <1>1, <1>5 DEF TypeOK
  <2> QED
    BY <1>0, <1>1, <2>1 DEF Held, ActivePlays
<1> QED
  BY <1>0, <1>1, <1>4, <1>6, <1>8, <1>9, <1>10
  DEF Held, PlayerHeldByActive, PreemptedByFile, ListedOnce, TargetIsSource

LEMMA RoundEndsKeeps ==
  ASSUME IInv, RoundEnds
  PROVE  Held'
<1>0. TypeOK /\ Held
  BY DEF IInv
<1>1. /\ UNCHANGED <<sourceList, preemptionSource, activeSouce, player, playState, life, heard>>
      /\ UNCHANGED <<tpc, target, dead>>
      /\ pc = "reclaiming" /\ cursor' = 1 /\ number' = Rounds
      /\ pc' = IF number' > RoundLimit THEN "limit" ELSE "wait"
  BY DEF RoundEnds
<1>2. number' \in Nat
  BY <1>0, <1>1 DEF Rounds, TypeOK
<1>3. Rounding'
  BY <1>0, <1>1, <1>2, SourceTypes DEF Held, Rounding
<1>4. Listed' = Listed
  BY <1>1 DEF Listed
<1> QED
  BY <1>0, <1>1, <1>3, <1>4
  DEF Held, ReferencesLive, PlayerHeldByActive, ActivePlays, PreemptedByFile, ListedOnce,
      TargetIsSource

LEMMA NextIInv == IInv /\ [Next]_vars => IInv'
<1> SUFFICES ASSUME IInv, [Next]_vars PROVE IInv'
  OBVIOUS
<1>1. TypeOK'
  BY NextTypeOK
<1>2. Held'
  <2>1. CASE UNCHANGED vars
    BY <2>1 DEF IInv, Held, ReferencesLive, PlayerHeldByActive, Rounding, ActivePlays,
       PreemptedByFile, ListedOnce, TargetIsSource, Listed, Candidate
  <2>2. CASE Next
    BY <2>2, OutsideKeeps, LooperMovesKeep, StopKeeps, AcquireKeeps, GoOnKeeps,
       PlayingKeeps, DelegateKeeps, ReclaimKeeps, RoundEndsKeeps
    DEF Next, LooperStep, Start, Looks
  <2> QED
    BY <2>1, <2>2
<1> QED
  BY <1>1, <1>2 DEF IInv

\* The invariant of the looper's round holds always.
THEOREM Inductive == Spec => []IInv
  BY InitIInv, NextIInv, PTL DEF Spec

\* Every variable keeps its type: the looper's count does not pass the limit,
\* and no state of a source is changed through a null pointer.
THEOREM TypeCorrect == Spec => []TypeOK
<1>1. IInv => TypeOK
  BY DEF IInv
<1> QED
  BY <1>1, Inductive, PTL

\* What the looper and the player's callback hold is listed and not deleted.
THEOREM ReferencesLiveHolds == Spec => []ReferencesLive
<1>1. IInv => ReferencesLive
  BY DEF IInv, Held
<1> QED
  BY <1>1, Inductive, PTL

\* Outside a start the player belongs to the active source, or is free.
THEOREM PlayerHeldByActiveHolds == Spec => []PlayerHeldByActive
<1>1. IInv => PlayerHeldByActive
  BY DEF IInv, Held
<1> QED
  BY <1>1, Inductive, PTL
=============================================================================
