------------------------ MODULE TimerTrigger_proofs ------------------------
(***************************************************************************)
(* The timer keeps what TickService promises, and its iterator stays valid *)
(* inside the walk, for any number of clients, handlers, counters and      *)
(* calls.                                                                  *)
(***************************************************************************)
EXTENDS TimerTrigger, SequenceTheorems, TLAPS

\* Inside registerWaiter.
Entering(t) ==
  pc[t] \in {"start", "create", "resume", "begin", "look", "step", "found", "push"}

\* Each thread calls for counters of its own: a client for those it owns, a
\* handler for those that asked for a restart.
CallsAreOwn ==
  /\ \A t \in Threads : Entering(t) \/ pc[t] = "erase" => arg[t] \in Waiters
  /\ \A c \in Clients :
       /\ Entering(c) \/ pc[c] = "erase" => OwnerOf[arg[c]] = c
       /\ pc[c] \notin {"enter", "walk", "rejoin"}
  /\ \A h \in Handlers :
       /\ Entering(h) => arg[h] \in Restartable
       /\ pc[h] # "erase"
       /\ pc[h] = "rejoin" => restarts[h] # <<>>

WalkIsLocked == \A h \in Handlers : pc[h] = "walk" => lock = h

\* A counter that restarts is in one place at a time: listed, in one restart
\* list, or in the hands of one thread that registers it, and in none before
\* its owner's only registration.
RestartableIsOnce ==
  \A w \in Restartable :
    /\ \A h \in Handlers : w \in ToSet(restarts[h]) =>
         /\ phase[w] # "new" /\ w \notin Listed
         /\ \A g \in Handlers : w \in ToSet(restarts[g]) => g = h
    /\ w \in Listed => phase[w] # "new"
    /\ \A t \in Threads : Entering(t) /\ arg[t] = w =>
         /\ phase[w] # "new" /\ w \notin Listed
         /\ \A h \in Handlers : w \notin ToSet(restarts[h])

\* No two threads register one counter.
EnteringAlone ==
  \A t, u \in Threads : Entering(t) /\ Entering(u) /\ arg[t] = arg[u] => t = u

NoDuplicates == IsInjective(waitList) /\ \A h \in Handlers : IsInjective(restarts[h])

\* A search has not passed the counter it looks for, whatever was erased and
\* pushed since it began: what it finds missing is still missing at the push.
NotPassed(t) ==
  /\ pc[t] = "push" => arg[t] \notin Listed
  /\ pc[t] = "look" /\ it[t] \notin Waiters =>
       it[t] \in Positions /\ \A j \in Positions : waitList[j] = arg[t] => it[t] <= j
  /\ pc[t] = "step" /\ it[t] \notin Waiters =>
       it[t] \in Positions /\ \A j \in Positions : waitList[j] = arg[t] => it[t] < j

SearchMisses == \A t \in Threads : NotPassed(t)

\* What holds until a search has gone on through an erased node.
Clean == RestartableIsOnce /\ EnteringAlone /\ NoDuplicates /\ SearchMisses

IInv ==
  /\ TypeOK
  /\ CallsAreOwn
  /\ WalkIsLocked
  /\ strayed \/ Clean

USE DEF vars, timerId
-----------------------------------------------------------------------------
(* Lists without duplicates *)

LEMMA RemoveAtIndices ==
  ASSUME NEW S, NEW s \in Seq(S), NEW i \in 1 .. Len(s)
  PROVE  /\ RemoveAt(s, i) \in Seq(S)
         /\ Len(RemoveAt(s, i)) = Len(s) - 1
         /\ \A j \in 1 .. Len(s) - 1 :
              RemoveAt(s, i)[j] = IF j < i THEN s[j] ELSE s[j + 1]
<1> DEFINE a == SubSeq(s, 1, i - 1)
           b == SubSeq(s, i + 1, Len(s))
<1>1. Len(s) \in Nat /\ i \in Int
  OBVIOUS
<1>2. /\ a \in Seq(S) /\ Len(a) = i - 1
      /\ \A j \in 1 .. i - 1 : a[j] = s[j]
  OBVIOUS
<1>3. /\ b \in Seq(S) /\ Len(b) = Len(s) - i
      /\ \A j \in 1 .. Len(s) - i : b[j] = s[j + i]
  OBVIOUS
<1> HIDE DEF a, b
<1>4. /\ a \o b \in Seq(S) /\ Len(a \o b) = Len(s) - 1
      /\ \A j \in 1 .. Len(s) - 1 :
           (a \o b)[j] = IF j <= i - 1 THEN a[j] ELSE b[j - (i - 1)]
  <2>1. Len(a) + Len(b) = Len(s) - 1
    BY <1>1, <1>2, <1>3
  <2>2. /\ a \o b \in Seq(S) /\ Len(a \o b) = Len(a) + Len(b)
        /\ \A j \in 1 .. Len(a) + Len(b) :
             (a \o b)[j] = IF j <= Len(a) THEN a[j] ELSE b[j - Len(a)]
    BY <1>2, <1>3, ConcatProperties
  <2> QED
    BY <1>2, <2>1, <2>2
<1>5. ASSUME NEW j \in 1 .. Len(s) - 1
      PROVE  (a \o b)[j] = IF j < i THEN s[j] ELSE s[j + 1]
  <2>1. CASE j < i
    BY <1>1, <1>2, <1>4, <2>1
  <2>2. CASE ~(j < i)
    <3>1. j - (i - 1) \in 1 .. Len(s) - i /\ (j - (i - 1)) + i = j + 1
      BY <1>1, <2>2
    <3> QED
      BY <1>1, <1>3, <1>4, <2>2, <3>1
  <2> QED
    BY <2>1, <2>2
<1> QED
  BY <1>4, <1>5 DEF RemoveAt, a, b

\* What erase(i) leaves of a list.
LEMMA ErasedList ==
  ASSUME NEW S, NEW s \in Seq(S), NEW i \in DOMAIN s, NEW r, r = RemoveAt(s, i)
  PROVE  /\ Len(s) \in Nat /\ DOMAIN s = 1 .. Len(s) /\ s[i] \in S
         /\ r \in Seq(S) /\ Len(r) = Len(s) - 1 /\ DOMAIN r = 1 .. Len(s) - 1
         /\ \A j \in DOMAIN r : r[j] = IF j < i THEN s[j] ELSE s[j + 1]
         /\ ToSet(r) \subseteq ToSet(s) /\ ToSet(s) \subseteq ToSet(r) \cup {s[i]}
         /\ IsInjective(s) => IsInjective(r) /\ s[i] \notin ToSet(r)
<1>1. i \in 1 .. Len(s) /\ DOMAIN s = 1 .. Len(s) /\ Len(s) \in Nat /\ s[i] \in S
  BY ElementOfSeq
<1>2. /\ r \in Seq(S) /\ Len(r) = Len(s) - 1
      /\ \A j \in 1 .. Len(s) - 1 : r[j] = IF j < i THEN s[j] ELSE s[j + 1]
  BY <1>1, RemoveAtIndices
<1>3. DOMAIN r = 1 .. Len(s) - 1
  BY <1>2
<1>4. ToSet(r) \subseteq ToSet(s)
  BY <1>1, <1>2, <1>3 DEF ToSet
<1>5. ASSUME NEW j \in 1 .. Len(s), j # i PROVE s[j] \in ToSet(r)
  <2>1. CASE j < i
    BY <1>1, <1>2, <1>3, <2>1 DEF ToSet
  <2>2. CASE j > i
    <3>1. j - 1 \in 1 .. Len(s) - 1 /\ ~(j - 1 < i) /\ (j - 1) + 1 = j
      BY <1>1, <2>2
    <3> QED
      BY <1>2, <1>3, <3>1 DEF ToSet
  <2> QED
    BY <1>1, <1>5, <2>1, <2>2
<1>6. ToSet(s) \subseteq ToSet(r) \cup {s[i]}
  BY <1>1, <1>5 DEF ToSet
<1>7. ASSUME IsInjective(s) PROVE IsInjective(r) /\ s[i] \notin ToSet(r)
  <2>1. \A x, y \in 1 .. Len(s) : s[x] = s[y] => x = y
    BY <1>1, <1>7 DEF IsInjective
  <2>2. ASSUME NEW j \in 1 .. Len(s) - 1, NEW k \in 1 .. Len(s) - 1, r[j] = r[k]
        PROVE  j = k
    <3>1. /\ j \in 1 .. Len(s) /\ j + 1 \in 1 .. Len(s)
          /\ k \in 1 .. Len(s) /\ k + 1 \in 1 .. Len(s)
      BY <1>1
    <3> QED
      BY <1>1, <1>2, <2>1, <2>2, <3>1
  <2>3. ASSUME NEW j \in 1 .. Len(s) - 1 PROVE r[j] # s[i]
    <3>1. j \in 1 .. Len(s) /\ j + 1 \in 1 .. Len(s)
      BY <1>1
    <3> QED
      BY <1>1, <1>2, <2>1, <3>1
  <2> QED
    BY <1>3, <2>2, <2>3 DEF IsInjective, ToSet
<1> QED
  BY <1>1, <1>2, <1>3, <1>4, <1>6, <1>7

LEMMA AppendToInjective ==
  ASSUME NEW S, NEW s \in Seq(S), NEW e \in S
  PROVE  /\ Append(s, e) \in Seq(S)
         /\ ToSet(Append(s, e)) = ToSet(s) \cup {e}
         /\ IsInjective(s) /\ e \notin ToSet(s) => IsInjective(Append(s, e))
<1>1. /\ DOMAIN Append(s, e) = 1 .. Len(s) + 1 /\ DOMAIN s = 1 .. Len(s)
      /\ Len(s) \in Nat /\ Append(s, e)[Len(s) + 1] = e
      /\ \A i \in 1 .. Len(s) : Append(s, e)[i] = s[i]
      /\ Append(s, e) \in Seq(S)
  OBVIOUS
<1>2. ToSet(Append(s, e)) = ToSet(s) \cup {e}
  BY <1>1 DEF ToSet
<1>3. IsInjective(s) /\ e \notin ToSet(s) => IsInjective(Append(s, e))
  BY <1>1 DEF ToSet, IsInjective
<1> QED
  BY <1>1, <1>2, <1>3

LEMMA TailOfInjective ==
  ASSUME NEW S, NEW s \in Seq(S), s # <<>>
  PROVE  /\ Tail(s) \in Seq(S) /\ Head(s) \in ToSet(s) /\ Head(s) \in S
         /\ ToSet(Tail(s)) \subseteq ToSet(s)
         /\ IsInjective(s) => IsInjective(Tail(s)) /\ Head(s) \notin ToSet(Tail(s))
<1>1. /\ DOMAIN Tail(s) = 1 .. Len(s) - 1 /\ DOMAIN s = 1 .. Len(s)
      /\ Len(s) \in Nat /\ Len(s) # 0 /\ Head(s) = s[1]
      /\ \A i \in 1 .. Len(s) - 1 : Tail(s)[i] = s[i + 1]
      /\ Tail(s) \in Seq(S) /\ Head(s) \in S
  OBVIOUS
<1>2. Head(s) \in ToSet(s) /\ ToSet(Tail(s)) \subseteq ToSet(s)
  BY <1>1 DEF ToSet
<1>3. IsInjective(s) => IsInjective(Tail(s)) /\ Head(s) \notin ToSet(Tail(s))
  BY <1>1 DEF ToSet, IsInjective
<1> QED
  BY <1>1, <1>2, <1>3
-----------------------------------------------------------------------------
(* The actions *)

LEMMA ThreadsTypes ==
  /\ Clients \subseteq Threads /\ Handlers \subseteq Threads
  /\ \A t \in Threads : t \in Clients \/ t \in Handlers
  /\ \A t \in Clients : t \notin Handlers
  /\ Nobody \notin Threads /\ Nobody \notin Waiters /\ Nobody \notin Nat
  /\ \A w \in Waiters : w \notin Nat
  /\ Restartable \subseteq Waiters
  BY TimerTriggerAssumption DEF Threads

LEMMA ListTypes ==
  ASSUME TypeOK
  PROVE  /\ waitList \in Seq(Waiters) /\ Len(waitList) \in Nat
         /\ Positions = 1 .. Len(waitList) /\ Positions \subseteq Nat
         /\ Listed \subseteq Waiters
         /\ \A i \in Positions : waitList[i] \in Waiters /\ waitList[i] \in Listed
         /\ First \in Positions \cup {Nobody}
         /\ waitList # <<>> => First = 1 /\ 1 \in Positions
         /\ \A i \in Positions : After(i) \in Positions \cup {Nobody}
<1>1. /\ waitList \in Seq(Waiters) /\ Len(waitList) \in Nat /\ DOMAIN waitList = 1 .. Len(waitList)
  BY DEF TypeOK
<1>2. \A i \in 1 .. Len(waitList) : waitList[i] \in Waiters
  BY <1>1, ElementOfSeq
<1>3. waitList # <<>> => 1 \in 1 .. Len(waitList)
  BY <1>1
<1>4. \A i \in 1 .. Len(waitList) : i # Len(waitList) => i + 1 \in 1 .. Len(waitList)
  <2>1. \A n \in Nat : \A i \in 1 .. n : i # n => i + 1 \in 1 .. n
    OBVIOUS
  <2> QED
    BY <1>1, <2>1, Zenon
<1>5. Listed \subseteq Waiters /\ \A i \in Positions : waitList[i] \in Listed
  BY <1>1, <1>2 DEF Positions, Listed, ToSet
<1>6. Positions = 1 .. Len(waitList) /\ Positions \subseteq Nat
  BY <1>1 DEF Positions
<1>7. \A i \in Positions : After(i) \in Positions \cup {Nobody}
  BY <1>4, <1>6 DEF After
<1> QED
  BY <1>1, <1>2, <1>3, <1>5, <1>6, <1>7 DEF First

\* Where a registration ends.
LEMMA ReturnPlace ==
  ASSUME TypeOK, NEW t \in Threads, Return(t)
  PROVE  /\ pc' \in [Threads -> Places] /\ arg' \in [Threads -> Waiters \cup {Nobody}]
         /\ pc'[t] \in {"idle", "rejoin"}
         /\ pc'[t] = "rejoin" => t \in Handlers /\ restarts[t] # <<>>
         /\ \A u \in Threads \ {t} : pc'[u] = pc[u] /\ arg'[u] = arg[u]
  BY DEF TypeOK, Return, Goto, Places

\* Where one begins.
LEMMA RegisterPlace ==
  ASSUME TypeOK, NEW t \in Threads, NEW w \in Waiters, RegisterTest(t, w)
  PROVE  /\ pc' \in [Threads -> Places] /\ arg' \in [Threads -> Waiters \cup {Nobody}]
         /\ pc'[t] \in {"start", "begin"} /\ arg'[t] = w
         /\ \A u \in Threads \ {t} : pc'[u] = pc[u] /\ arg'[u] = arg[u]
         /\ UNCHANGED <<waitList, count, timerId, lock, it, strayed>>
  BY DEF TypeOK, RegisterTest, Goto, Places

\* The end of the process.
LEMMA DiePlace ==
  ASSUME Die
  PROVE  /\ pc' \in [Threads -> Places]
         /\ \A u \in Threads : pc'[u] = "dead"
  BY DEF Die, Places

\* The cases of an iterator at p when the node at position i is erased.
LEMMA ShiftedCases ==
  ASSUME NEW p, NEW i
  PROVE  /\ p = i => Shifted(p, i) = waitList[i]
         /\ p # i /\ p \in Nat /\ p > i => Shifted(p, i) = p - 1
         /\ p # i /\ ~(p \in Nat /\ p > i) => Shifted(p, i) = p
  BY Zenon DEF Shifted

\* What an erase leaves of the list.
LEMMA ErasedWaiters ==
  ASSUME TypeOK, NEW i \in Positions, waitList' = RemoveAt(waitList, i)
  PROVE  /\ Len(waitList) \in Nat /\ Positions = 1 .. Len(waitList) /\ waitList[i] \in Waiters
         /\ waitList' \in Seq(Waiters) /\ Positions' = 1 .. Len(waitList) - 1
         /\ \A j \in Positions' : waitList'[j] = IF j < i THEN waitList[j] ELSE waitList[j + 1]
         /\ Listed' \subseteq Listed /\ Listed \subseteq Listed' \cup {waitList[i]}
         /\ IsInjective(waitList) => IsInjective(waitList') /\ waitList[i] \notin Listed'
<1>1. waitList \in Seq(Waiters) /\ i \in DOMAIN waitList
  BY DEF TypeOK, Positions
<1>2. /\ Len(waitList) \in Nat /\ DOMAIN waitList = 1 .. Len(waitList) /\ waitList[i] \in Waiters
      /\ waitList' \in Seq(Waiters) /\ DOMAIN waitList' = 1 .. Len(waitList) - 1
      /\ \A j \in DOMAIN waitList' :
           waitList'[j] = IF j < i THEN waitList[j] ELSE waitList[j + 1]
      /\ ToSet(waitList') \subseteq ToSet(waitList)
      /\ ToSet(waitList) \subseteq ToSet(waitList') \cup {waitList[i]}
      /\ IsInjective(waitList) => IsInjective(waitList') /\ waitList[i] \notin ToSet(waitList')
  BY <1>1, ErasedList
<1> QED
  BY <1>2, Zenon DEF Positions, Listed

\* An erase moves every iterator that it does not free.
LEMMA ShiftedType ==
  ASSUME TypeOK, NEW i \in Positions, waitList' = RemoveAt(waitList, i), NEW u \in Threads
  PROVE  /\ Positions' = 1 .. Len(waitList) - 1
         /\ Shifted(it[u], i) \in Positions' \cup Waiters \cup {Nobody}
<1>1. Len(waitList) \in Nat /\ Positions = 1 .. Len(waitList) /\ waitList[i] \in Waiters
  BY ErasedWaiters
<1>2. Positions' = 1 .. Len(waitList) - 1
  BY ErasedWaiters
<1>3. CASE it[u] = i
  <2>1. Shifted(it[u], i) = waitList[i]
    BY <1>3, ShiftedCases, Zenon
  <2> QED
    BY <1>1, <1>2, <2>1
<1>4. CASE it[u] \in Positions /\ it[u] # i
  <2>1. it[u] \in Nat /\ i \in Nat
    BY <1>1, <1>4
  <2>2. CASE it[u] > i
    <3>1. Shifted(it[u], i) = it[u] - 1
      BY <1>4, <2>1, <2>2, ShiftedCases
    <3> QED
      BY <1>1, <1>2, <1>4, <2>1, <2>2, <3>1
  <2>3. CASE ~(it[u] > i)
    <3>1. Shifted(it[u], i) = it[u]
      BY <1>4, <2>1, <2>3, ShiftedCases
    <3> QED
      BY <1>1, <1>2, <1>4, <2>1, <2>3, <3>1
  <2> QED
    BY <2>2, <2>3
<1>5. CASE it[u] \in Waiters \cup {Nobody}
  <2>1. it[u] \notin Nat /\ it[u] # i
    BY <1>1, <1>5, ThreadsTypes
  <2>2. Shifted(it[u], i) = it[u]
    BY <2>1, ShiftedCases, Zenon
  <2> QED
    BY <1>2, <1>5, <2>2
<1>6. it[u] \in Positions \cup Waiters \cup {Nobody}
  BY DEF TypeOK
<1> QED
  BY <1>2, <1>3, <1>4, <1>5, <1>6

\* ... and an iterator that had not passed a counter has not passed it now.
LEMMA ErasedNotPassed ==
  ASSUME TypeOK, NEW i \in Positions, waitList' = RemoveAt(waitList, i), NEW u \in Threads,
         it'[u] = Shifted(it[u], i), pc'[u] = pc[u], arg'[u] = arg[u], NotPassed(u)
  PROVE  NotPassed(u)'
<1>1. Len(waitList) \in Nat /\ Positions = 1 .. Len(waitList) /\ waitList[i] \in Waiters
  BY ErasedWaiters
<1>2. /\ Positions' = 1 .. Len(waitList) - 1 /\ Listed' \subseteq Listed
      /\ \A j \in Positions' : waitList'[j] = IF j < i THEN waitList[j] ELSE waitList[j + 1]
  BY ErasedWaiters
<1>3. pc'[u] = "push" => arg'[u] \notin Listed'
  BY <1>2 DEF NotPassed
<1>4. CASE it[u] \in Waiters
  <2>1. it'[u] \in Waiters
    BY <1>1, <1>4, ThreadsTypes, ShiftedCases
  <2> QED
    BY <1>3, <2>1 DEF NotPassed
<1>5. CASE it[u] = i
  <2>1. it'[u] \in Waiters
    BY <1>1, <1>5, ShiftedCases
  <2> QED
    BY <1>3, <2>1 DEF NotPassed
<1>6. CASE pc[u] \in {"look", "step"} /\ it[u] \notin Waiters /\ it[u] # i
  <2>1. it[u] \in Positions
    BY <1>6 DEF NotPassed
  <2> DEFINE p == it[u]
             q == it'[u]
  <2>2. p \in 1 .. Len(waitList) /\ i \in 1 .. Len(waitList) /\ p # i
    BY <1>1, <1>6, <2>1
  <2>3. q = IF p > i THEN p - 1 ELSE p
    BY <2>2, ShiftedCases
  <2>4. q \in 1 .. Len(waitList) - 1
    <3> HIDE DEF p, q
    <3> QED
      BY <1>1, <2>2, <2>3
  <2>5. ASSUME NEW j \in Positions', waitList'[j] = arg'[u]
        PROVE  /\ pc[u] = "look" => q <= j
               /\ pc[u] = "step" => q < j
    <3> DEFINE k == IF j < i THEN j ELSE j + 1
    <3>1. k \in 1 .. Len(waitList) /\ waitList[k] = arg[u] /\ j \in 1 .. Len(waitList) - 1
      BY <1>1, <1>2, <2>5
    <3>2. /\ pc[u] = "look" => p <= k
          /\ pc[u] = "step" => p < k
      BY <1>1, <1>6, <3>1 DEF NotPassed
    <3> HIDE DEF p, q
    <3>3. p \in Int /\ i \in Int /\ j \in Int
      BY <1>1, <2>2, <3>1
    <3> QED
      BY <2>2, <2>3, <3>2, <3>3
  <2> QED
    BY <1>2, <1>3, <2>4, <2>5 DEF NotPassed
<1>7. CASE pc[u] \notin {"look", "step"}
  BY <1>3, <1>7 DEF NotPassed
<1> QED
  BY <1>4, <1>5, <1>6, <1>7
-----------------------------------------------------------------------------
(* Type correctness *)

LEMMA InitIInv == Init => IInv
<1> SUFFICES ASSUME Init PROVE IInv
  OBVIOUS
<1>1. TypeOK
  <2>1. "idle" \in Places /\ MaxCount \in Nat /\ MaxCalls \in Nat
    BY TimerTriggerAssumption DEF Places
  <2>2. waitList \in Seq(Waiters) /\ restarts \in [Handlers -> Seq(Restartable)]
    BY DEF Init
  <2>3. it \in [Threads -> Positions \cup Waiters \cup {Nobody}]
    BY DEF Init
  <2>4. /\ count \in [Waiters -> 0 .. MaxCount] /\ calls \in [Clients -> 0 .. MaxCalls]
        /\ pc \in [Threads -> Places] /\ arg \in [Threads -> Waiters \cup {Nobody}]
        /\ phase \in [Waiters -> {"new", "registered", "unregistered"}]
    <3>1. 0 \in 0 .. MaxCount /\ 0 \in 0 .. MaxCalls
      BY <2>1
    <3> QED
      BY <2>1, <3>1 DEF Init
  <2>5. /\ source \in {"made", "running", "null"} /\ orphaned \in BOOLEAN /\ strayed \in BOOLEAN
        /\ attended \in Handlers \cup {Nobody} /\ lock \in Threads \cup {Nobody}
    BY DEF Init
  <2> QED
    BY <2>2, <2>3, <2>4, <2>5 DEF TypeOK
<1>2. Listed = {} /\ IsInjective(waitList)
      /\ \A h \in Handlers : ToSet(restarts[h]) = {} /\ IsInjective(restarts[h])
  BY DEF Init, Listed, ToSet, IsInjective
<1>3. \A t \in Threads : pc[t] = "idle" /\ ~Entering(t) /\ NotPassed(t)
  BY DEF Init, Entering, NotPassed
<1>4. CallsAreOwn /\ WalkIsLocked
  BY <1>3, ThreadsTypes DEF CallsAreOwn, WalkIsLocked
<1>5. Clean
  BY <1>2, <1>3 DEF Clean, RestartableIsOnce, EnteringAlone, NoDuplicates, SearchMisses
<1> QED
  BY <1>1, <1>4, <1>5 DEF IInv

\* The thread, once it goes to a place of its own.
LEMMA GotoPlace ==
  ASSUME TypeOK, NEW t \in Threads, NEW label \in Places, Goto(t, label)
  PROVE  /\ pc' \in [Threads -> Places] /\ pc'[t] = label
         /\ \A u \in Threads \ {t} : pc'[u] = pc[u]
  BY DEF TypeOK, Goto

\* Where an erase that may cancel the source leaves its thread.
LEMMA CancelPlace ==
  ASSUME TypeOK, NEW t \in Threads,
         \/ CancelIfEmpty(Return(t))
         \/ CancelIfEmpty(UNCHANGED <<pc, arg>>)
  PROVE  /\ source' \in {"made", "running", "null"} /\ attended' \in Handlers \cup {Nobody}
         /\ pc' \in [Threads -> Places] /\ arg' \in [Threads -> Waiters \cup {Nobody}]
         /\ Die \/ (CancelIfEmpty(Return(t)) /\ Return(t)) \/ UNCHANGED <<pc, arg>>
<1>1. source' \in {"made", "running", "null"} /\ attended' \in Handlers \cup {Nobody}
  BY DEF TypeOK, CancelIfEmpty
<1>2. (Die /\ UNCHANGED arg) \/ (CancelIfEmpty(Return(t)) /\ Return(t)) \/ UNCHANGED <<pc, arg>>
  <2>1. CASE CancelIfEmpty(Return(t))
    BY <2>1 DEF CancelIfEmpty
  <2>2. CASE CancelIfEmpty(UNCHANGED <<pc, arg>>)
    BY <2>2 DEF CancelIfEmpty
  <2> QED
    BY <2>1, <2>2
<1>3. pc' \in [Threads -> Places] /\ arg' \in [Threads -> Waiters \cup {Nobody}]
  BY <1>2, ReturnPlace, DiePlace DEF TypeOK
<1> QED
  BY <1>1, <1>2, <1>3

LEMMA NextTypeOK == IInv /\ [Next]_vars => TypeOK'
<1> SUFFICES ASSUME IInv, [Next]_vars PROVE TypeOK'
  OBVIOUS
<1>0. TypeOK /\ CallsAreOwn
  BY DEF IInv
<1>a. /\ Clients \subseteq Threads /\ Handlers \subseteq Threads /\ MaxCalls \in Nat /\ MaxCount \in Nat
      /\ \A n \in 0 .. MaxCount : 0 \in 0 .. MaxCount /\ (n < MaxCount => n + 1 \in 0 .. MaxCount)
  BY ThreadsTypes, TimerTriggerAssumption
<1>1. ASSUME NEW c \in Clients, NEW w \in Waiters, RegisterCall(c, w) PROVE TypeOK'
  <2>1. calls' \in [Clients -> 0 .. MaxCalls]
    BY <1>0, <1>1, <1>a DEF TypeOK, RegisterCall
  <2> QED
    BY <1>0, <1>1, <1>a, <2>1, RegisterPlace DEF TypeOK, RegisterCall, Positions
<1>2. ASSUME NEW c \in Clients, NEW w \in Waiters, UnregisterCall(c, w) PROVE TypeOK'
  <2>1. calls' \in [Clients -> 0 .. MaxCalls]
    BY <1>0, <1>2, <1>a DEF TypeOK, UnregisterCall
  <2>2. phase' \in [Waiters -> {"new", "registered", "unregistered"}]
    BY <1>0, <1>2 DEF TypeOK, UnregisterCall
  <2>3. /\ pc' \in [Threads -> Places]
        /\ arg' \in [Threads -> Waiters \cup {Nobody}]
    <3>1. \/ UNCHANGED <<pc, arg>>
          \/ Goto(c, "erase") /\ arg' = [arg EXCEPT ![c] = w]
      BY <1>2 DEF UnregisterCall
    <3>2. c \in Threads /\ "erase" \in Places
      BY <1>a DEF Places
    <3> QED
      BY <1>0, <3>1, <3>2, GotoPlace DEF TypeOK
  <2> QED
    BY <1>0, <1>2, <2>1, <2>2, <2>3 DEF TypeOK, UnregisterCall, Positions
<1>3. ASSUME NEW c \in Clients, UnregisterErase(c) PROVE TypeOK'
  <2>1. c \in Threads
    BY <1>a
  <2>2. waitList' \in Seq(Waiters) /\ it' \in [Threads -> Positions' \cup Waiters \cup {Nobody}]
    <3>1. CASE UNCHANGED <<waitList, it>>
      BY <1>0, <3>1 DEF TypeOK, Positions
    <3>2. ASSUME NEW i \in Positions, waitList' = RemoveAt(waitList, i),
                 it' = [t \in Threads |-> Shifted(it[t], i)]
          PROVE  waitList' \in Seq(Waiters) /\ it' \in [Threads -> Positions' \cup Waiters \cup {Nobody}]
      BY <1>0, <3>2, ErasedWaiters, ShiftedType
    <3> QED
      BY <1>3, <3>1, <3>2 DEF UnregisterErase, EraseCounter
  <2>3. phase' \in [Waiters -> {"new", "registered", "unregistered"}]
    BY <1>0, <1>3 DEF TypeOK, UnregisterErase
  <2>4. /\ source' \in {"made", "running", "null"} /\ attended' \in Handlers \cup {Nobody}
        /\ pc' \in [Threads -> Places] /\ arg' \in [Threads -> Waiters \cup {Nobody}]
    BY <1>0, <1>3, <2>1, CancelPlace DEF UnregisterErase
  <2> QED
    BY <1>0, <1>3, <2>2, <2>3, <2>4 DEF TypeOK, UnregisterErase
<1>4. ASSUME NEW t \in Threads, RegisterStart(t) \/ RegisterCreate(t) \/ RegisterResume(t) PROVE TypeOK'
  <2>1. /\ source' \in {"made", "running", "null"} /\ attended' \in Handlers \cup {Nobody}
        /\ orphaned' \in BOOLEAN
    BY <1>0, <1>4 DEF TypeOK, RegisterStart, RegisterCreate, RegisterResume
  <2>2. pc' \in [Threads -> Places]
    <3>1. {"create", "resume", "begin"} \subseteq Places
      BY DEF Places
    <3>2. Die \/ \E label \in Places : Goto(t, label)
      BY <1>4, <3>1 DEF RegisterStart, RegisterCreate, RegisterResume
    <3> QED
      BY <1>0, <3>2, GotoPlace, DiePlace
  <2> QED
    BY <1>0, <1>4, <2>1, <2>2 DEF TypeOK, RegisterStart, RegisterCreate, RegisterResume, Positions
<1>5. ASSUME NEW t \in Threads, SearchMove(t) PROVE TypeOK'
  <2>1. pc' \in [Threads -> Places]
    <3>1. {"push", "look", "step", "found"} \subseteq Places
      BY DEF Places
    <3>2. Die \/ \E label \in Places : Goto(t, label)
      BY <1>5, <3>1 DEF SearchMove, SearchBegin, SearchLook, SearchStep, SearchStrays
    <3> QED
      BY <1>0, <3>2, GotoPlace, DiePlace
  <2>2. it' \in [Threads -> Positions \cup Waiters \cup {Nobody}]
    <3>1. UNCHANGED it \/ \E i \in Positions \cup {Nobody} : it' = [it EXCEPT ![t] = i]
      BY <1>0, <1>5, ListTypes DEF SearchMove, SearchBegin, SearchLook, SearchStep, SearchStrays
    <3> QED
      BY <1>0, <3>1 DEF TypeOK
  <2>3. strayed' \in BOOLEAN /\ UNCHANGED <<waitList, count, timerId, lock, arg, restarts, calls, phase>>
    BY <1>0, <1>5 DEF TypeOK, SearchMove, SearchBegin, SearchLook, SearchStep, SearchStrays
  <2> QED
    BY <1>0, <2>1, <2>2, <2>3 DEF TypeOK, Positions
<1>6. ASSUME NEW t \in Threads, RegisterFound(t) PROVE TypeOK'
  <2>1. 0 \in 0 .. MaxCount
    BY <1>a
  <2>2. count' \in [Waiters -> 0 .. MaxCount]
    BY <1>0, <1>6, <2>1 DEF TypeOK, RegisterFound
  <2> QED
    BY <1>0, <1>6, <2>2, ReturnPlace DEF TypeOK, RegisterFound, Positions
<1>7. ASSUME NEW t \in Threads, RegisterPush(t) PROVE TypeOK'
  <2>1. arg[t] \in Waiters
    BY <1>0, <1>7 DEF CallsAreOwn, Entering, RegisterPush
  <2>2. waitList' \in Seq(Waiters) /\ Positions \subseteq Positions'
    <3>1. waitList \in Seq(Waiters) /\ waitList' = Append(waitList, arg[t])
      BY <1>0, <1>7 DEF TypeOK, RegisterPush
    <3> QED
      BY <2>1, <3>1 DEF Positions
  <2>3. it' \in [Threads -> Positions' \cup Waiters \cup {Nobody}]
    BY <1>0, <1>7, <2>2 DEF TypeOK, RegisterPush
  <2> QED
    BY <1>0, <1>7, <2>2, <2>3, ReturnPlace DEF TypeOK, RegisterPush
<1>8. ASSUME NEW h \in Handlers, TravalBegin(h) \/ TravalEnter(h) \/ TravalLeave(h) PROVE TypeOK'
  <2>1. h \in Threads /\ {"enter", "walk", "idle", "rejoin"} \subseteq Places
    BY <1>a DEF Places
  <2>2. pc' \in [Threads -> Places]
    BY <1>0, <1>8, <2>1, GotoPlace DEF TravalBegin, TravalEnter, TravalLeave
  <2>3. it' \in [Threads -> Positions \cup Waiters \cup {Nobody}]
    BY <1>0, <1>8, <2>1, ListTypes DEF TravalBegin, TravalEnter, TravalLeave, TypeOK
  <2>4. attended' \in Handlers \cup {Nobody} /\ lock' \in Threads \cup {Nobody}
        /\ UNCHANGED <<waitList, count, source, orphaned, arg, restarts, calls, phase, strayed>>
    BY <1>0, <1>8, <2>1 DEF TravalBegin, TravalEnter, TravalLeave, TypeOK
  <2> QED
    BY <1>0, <2>2, <2>3, <2>4 DEF TypeOK, Positions
<1>9. ASSUME NEW h \in Handlers, TravalDangling(h) PROVE TypeOK'
  <2>1. h \in Threads
    BY <1>a
  <2>2. count' \in [Waiters -> 0 .. MaxCount]
    <3>1. ASSUME NEW n \in 0 .. MaxCount, count' = [count EXCEPT ![it[h]] = n]
          PROVE  count' \in [Waiters -> 0 .. MaxCount]
      BY <1>0, <3>1 DEF TypeOK
    <3>2. \/ UNCHANGED count
          \/ count' = [count EXCEPT ![it[h]] = 0]
          \/ it[h] \in Waiters /\ count[it[h]] < MaxCount
             /\ count' = [count EXCEPT ![it[h]] = count[it[h]] + 1]
      BY <1>9 DEF TravalDangling
    <3> QED
      BY <1>0, <1>a, <3>1, <3>2 DEF TypeOK
  <2>3. it' \in [Threads -> Positions \cup Waiters \cup {Nobody}]
    <3>1. UNCHANGED it \/ \E i \in Positions \cup {Nobody} : it' = [it EXCEPT ![h] = i]
      BY <1>9 DEF TravalDangling
    <3> QED
      BY <1>0, <3>1 DEF TypeOK
  <2>4. pc' = pc \/ Die
    BY <1>9 DEF TravalDangling
  <2>5. pc' \in [Threads -> Places]
    BY <1>0, <2>4, DiePlace DEF TypeOK
  <2> QED
    BY <1>0, <1>9, <2>2, <2>3, <2>5 DEF TypeOK, TravalDangling, Positions
<1>10. ASSUME NEW h \in Handlers, TravalVisit(h) PROVE TypeOK'
  <2> DEFINE i == it[h]
             w == waitList[i]
  <2>1. h \in Threads /\ i \in Positions /\ w \in Waiters
    BY <1>0, <1>10, <1>a, ListTypes DEF TravalVisit
  <2>2. PICK answer \in Answers(w) :
          /\ answer = "INC" => count[w] < MaxCount
          /\ IF answer \in {"RELASE", "RESTART"}
             THEN /\ waitList' = RemoveAt(waitList, i)
                  /\ it' = [t \in Threads |->
                              IF t # h THEN Shifted(it[t], i)
                              ELSE IF i = Len(waitList) THEN Nobody ELSE i]
                  /\ CancelIfEmpty(UNCHANGED <<pc, arg>>)
             ELSE /\ it' = [it EXCEPT ![h] = After(i)]
                  /\ UNCHANGED <<waitList, source, attended, pc, arg>>
          /\ count' = [count EXCEPT ![w] = CountAfter(@, answer)]
          /\ restarts' = [restarts EXCEPT ![h] = RestartsAfter(h, w, answer)]
    BY <1>10 DEF TravalVisit
  <2>3. count' \in [Waiters -> 0 .. MaxCount]
    <3>1. count[w] \in 0 .. MaxCount
      BY <1>0, <2>1 DEF TypeOK
    <3>2. CountAfter(count[w], answer) \in 0 .. MaxCount
      BY <1>a, <2>2, <3>1 DEF CountAfter
    <3>3. count' = [count EXCEPT ![w] = CountAfter(count[w], answer)]
      BY <2>2
    <3> QED
      BY <1>0, <2>1, <3>2, <3>3 DEF TypeOK
  <2>4. restarts' \in [Handlers -> Seq(Restartable)]
    <3>1. answer = "RESTART" => w \in Restartable
      BY <2>2 DEF Answers
    <3>2. restarts[h] \in Seq(Restartable)
      BY <1>0 DEF TypeOK
    <3>3. RestartsAfter(h, w, answer) \in Seq(Restartable)
      BY <3>1, <3>2 DEF RestartsAfter
    <3> QED
      BY <1>0, <2>2, <3>3 DEF TypeOK
  <2>5. /\ waitList' \in Seq(Waiters) /\ it' \in [Threads -> Positions' \cup Waiters \cup {Nobody}]
        /\ source' \in {"made", "running", "null"} /\ attended' \in Handlers \cup {Nobody}
        /\ pc' \in [Threads -> Places] /\ arg' \in [Threads -> Waiters \cup {Nobody}]
    <3>1. CASE answer \in {"RELASE", "RESTART"}
      <4>1. waitList' = RemoveAt(waitList, i)
        BY <2>2, <3>1
      <4>2. waitList' \in Seq(Waiters) /\ Positions' = 1 .. Len(waitList) - 1
            /\ Positions = 1 .. Len(waitList) /\ Len(waitList) \in Nat
        BY <1>0, <2>1, <4>1, ErasedWaiters
      <4>3. i # Len(waitList) => i \in Positions'
        BY <2>1, <4>2
      <4>4. \A u \in Threads : it'[u] \in Positions' \cup Waiters \cup {Nobody}
        <5>1. ASSUME NEW u \in Threads, u # h PROVE it'[u] \in Positions' \cup Waiters \cup {Nobody}
          BY <1>0, <2>1, <2>2, <3>1, <4>1, <5>1, ShiftedType
        <5>2. it'[h] \in Positions' \cup Waiters \cup {Nobody}
          BY <2>1, <2>2, <3>1, <4>3
        <5> QED
          BY <5>1, <5>2
      <4>5. it' \in [Threads -> Positions' \cup Waiters \cup {Nobody}]
        <5>1. it' = [t \in Threads |-> it'[t]]
          BY <2>2, <3>1
        <5> QED
          BY <4>4, <5>1
      <4> QED
        BY <1>0, <2>1, <2>2, <3>1, <4>2, <4>5, CancelPlace
    <3>2. CASE answer \notin {"RELASE", "RESTART"}
      <4>1. After(i) \in Positions \cup {Nobody}
        BY <1>0, <2>1, ListTypes
      <4> QED
        BY <1>0, <2>2, <3>2, <4>1 DEF TypeOK, Positions
    <3> QED
      BY <3>1, <3>2
  <2>6. UNCHANGED <<orphaned, lock, calls, phase, strayed>>
    BY <1>10 DEF TravalVisit
  <2> QED
    BY <1>0, <2>3, <2>4, <2>5, <2>6 DEF TypeOK
<1>11. ASSUME NEW h \in Handlers, TravalRejoin(h) PROVE TypeOK'
  <2>1. restarts[h] # <<>> /\ restarts[h] \in Seq(Restartable) /\ h \in Threads
    BY <1>0, <1>11, <1>a DEF CallsAreOwn, TravalRejoin, TypeOK
  <2>2. Head(restarts[h]) \in Waiters /\ Tail(restarts[h]) \in Seq(Restartable)
    BY <2>1, TailOfInjective, ThreadsTypes
  <2>3. restarts' \in [Handlers -> Seq(Restartable)]
    BY <1>0, <1>11, <2>2 DEF TravalRejoin, TypeOK
  <2> QED
    BY <1>0, <1>11, <2>1, <2>2, <2>3, RegisterPlace DEF TypeOK, TravalRejoin, Positions
<1>12. CASE UNCHANGED vars
  BY <1>0, <1>12 DEF TypeOK, Positions
<1> QED
  BY <1>1, <1>2, <1>3, <1>4, <1>5, <1>6, <1>7, <1>8, <1>9, <1>10, <1>11, <1>12
  DEF Next, RegisterStep, TravalStep
-----------------------------------------------------------------------------
(* Calls, locks and places of the counters *)

Owned == CallsAreOwn /\ WalkIsLocked

\* A thread that stands where it stood has passed nothing.
LEMMA SameNotPassed ==
  ASSUME NEW u \in Threads, NotPassed(u), UNCHANGED waitList,
         pc'[u] = pc[u], arg'[u] = arg[u], it'[u] = it[u]
  PROVE  NotPassed(u)'
  BY DEF NotPassed, Listed, Positions

\* One that is in no search and at no push neither.
LEMMA ElsewhereNotPassed ==
  ASSUME NEW u \in Threads, pc'[u] \notin {"look", "step", "push"}
  PROVE  NotPassed(u)'
  BY DEF NotPassed

\* A step that lists nothing and lets no thread in.
LEMMA FewerKeep ==
  ASSUME TypeOK, RestartableIsOnce, EnteringAlone,
         Listed' \subseteq Listed, UNCHANGED restarts,
         \A w \in Waiters : phase'[w] # "new" \/ phase'[w] = phase[w],
         \A u \in Threads : Entering(u)' => Entering(u) /\ arg'[u] = arg[u]
  PROVE  RestartableIsOnce' /\ EnteringAlone'
<1>1. EnteringAlone'
  BY DEF EnteringAlone
<1>2. RestartableIsOnce'
  BY ThreadsTypes DEF RestartableIsOnce
<1> QED
  BY <1>1, <1>2

\* A client begins a registration.
LEMMA RegisterCallKeeps ==
  ASSUME IInv, NEW c \in Clients, NEW w \in Waiters, RegisterCall(c, w)
  PROVE  Owned' /\ (strayed' \/ Clean')
<1>0. TypeOK /\ CallsAreOwn /\ WalkIsLocked /\ c \in Threads /\ c \notin Handlers
  BY ThreadsTypes DEF IInv
<1>1. /\ pc'[c] \in {"start", "begin"} /\ arg'[c] = w /\ pc[c] = "idle" /\ OwnerOf[w] = c
      /\ \A u \in Threads \ {c} : pc'[u] = pc[u] /\ arg'[u] = arg[u]
      /\ UNCHANGED <<waitList, lock, it, strayed, restarts>>
      /\ phase' = [phase EXCEPT ![w] = "registered"]
      /\ w \in Restartable => phase[w] = "new"
  BY <1>0, RegisterPlace DEF RegisterCall
<1>2. Owned'
  BY <1>0, <1>1, ThreadsTypes DEF Owned, CallsAreOwn, WalkIsLocked, Entering
<1>3. ASSUME Clean PROVE Clean'
  <2>1. Listed' = Listed /\ NoDuplicates'
    BY <1>1, <1>3 DEF Listed, Clean, NoDuplicates
  <2>2. SearchMisses'
    BY <1>1, <1>3, SameNotPassed, ElsewhereNotPassed DEF Clean, SearchMisses
  <2>3. \A u \in Threads \ {c} : Entering(u)' => Entering(u) /\ arg'[u] = arg[u] /\ arg[u] # w
    <3> SUFFICES ASSUME NEW u \in Threads, u # c, Entering(u), arg[u] = w PROVE FALSE
      BY <1>1 DEF Entering
    <3>1. CASE u \in Clients
      BY <1>0, <1>1, <3>1 DEF CallsAreOwn
    <3>2. CASE u \in Handlers
      <4>1. w \in Restartable /\ phase[w] = "new"
        BY <1>0, <1>1, <3>2 DEF CallsAreOwn
      <4> QED
        BY <1>3, <4>1 DEF Clean, RestartableIsOnce
    <3> QED
      BY <3>1, <3>2, ThreadsTypes
  <2>4. EnteringAlone'
    BY <1>1, <1>3, <2>3 DEF Clean, EnteringAlone
  <2>5. \A x \in Waiters : phase'[x] = IF x = w THEN "registered" ELSE phase[x]
    BY <1>0, <1>1 DEF TypeOK
  <2>6. RestartableIsOnce'
    <3> SUFFICES ASSUME NEW x \in Restartable
                 PROVE  RestartableIsOnce!(x)'
      BY DEF RestartableIsOnce
    <3>1. RestartableIsOnce!(x) /\ x \in Waiters
      BY <1>3, ThreadsTypes DEF Clean, RestartableIsOnce
    <3>2. CASE x = w
      BY <1>1, <2>1, <2>3, <2>5, <3>1, <3>2
    <3>3. CASE x # w
      BY <1>1, <2>1, <2>3, <2>5, <3>1, <3>3
    <3> QED
      BY <3>2, <3>3
  <2> QED
    BY <2>1, <2>2, <2>4, <2>6 DEF Clean
<1> QED
  BY <1>1, <1>2, <1>3 DEF IInv

\* The source is started, and the list searched.
LEMMA RegisterMovesKeep ==
  ASSUME IInv, NEW t \in Threads,
         RegisterStart(t) \/ RegisterCreate(t) \/ RegisterResume(t) \/ SearchMove(t)
  PROVE  Owned' /\ (strayed' \/ Clean')
<1>0. TypeOK /\ CallsAreOwn /\ WalkIsLocked
  BY DEF IInv
<1>1. UNCHANGED <<waitList, lock, arg, restarts, phase>>
  BY DEF RegisterStart, RegisterCreate, RegisterResume, SearchMove, SearchBegin, SearchLook,
     SearchStep, SearchStrays
<1>2. Entering(t)
  BY DEF RegisterStart, RegisterCreate, RegisterResume, SearchMove, SearchBegin, SearchLook,
     SearchStep, SearchStrays, Entering
<1>3. \/ Die
      \/ /\ pc'[t] \in {"create", "resume", "begin", "look", "step", "found", "push"}
         /\ \A u \in Threads \ {t} : pc'[u] = pc[u] /\ it'[u] = it[u]
  BY <1>0 DEF RegisterStart, RegisterCreate, RegisterResume, SearchMove, SearchBegin, SearchLook,
     SearchStep, SearchStrays, Goto, TypeOK
<1>4. Owned'
  <2>1. CASE Die
    BY <2>1, DiePlace, ThreadsTypes DEF Owned, CallsAreOwn, WalkIsLocked, Entering
  <2>2. CASE ~Die
    BY <1>0, <1>1, <1>2, <1>3, <2>2, ThreadsTypes DEF Owned, CallsAreOwn, WalkIsLocked, Entering
  <2> QED
    BY <2>1, <2>2
<1>5. ASSUME Clean, ~strayed' PROVE Clean'
  <2>1. Listed' = Listed /\ NoDuplicates'
    BY <1>1, <1>5 DEF Listed, Clean, NoDuplicates
  <2>2. \A u \in Threads : Entering(u)' => Entering(u) /\ arg'[u] = arg[u]
    BY <1>1, <1>2, <1>3, DiePlace DEF Entering
  <2>3. RestartableIsOnce' /\ EnteringAlone'
    BY <1>0, <1>1, <1>5, <2>1, <2>2, FewerKeep DEF Clean
  <2>4. ASSUME NEW u \in Threads PROVE NotPassed(u)'
    <3>1. CASE Die
      BY <3>1, DiePlace, ElsewhereNotPassed
    <3>2. CASE ~Die /\ u # t
      BY <1>1, <1>3, <1>5, <3>2, SameNotPassed DEF Clean, SearchMisses
    <3>3. CASE ~Die /\ u = t
      <4>0. NotPassed(t) /\ Positions' = Positions /\ Listed' = Listed
            /\ pc \in [Threads -> Places] /\ it \in [Threads -> Positions \cup Waiters \cup {Nobody}]
        BY <1>0, <1>1, <1>5, <2>1 DEF Clean, SearchMisses, Positions, TypeOK
      <4>1. CASE RegisterStart(t) \/ RegisterCreate(t) \/ RegisterResume(t)
        <5>1. pc'[t] \in {"create", "resume", "begin"}
          BY <3>3, <4>0, <4>1 DEF RegisterStart, RegisterCreate, RegisterResume, Goto
        <5> QED
          BY <3>3, <5>1, ElsewhereNotPassed
      <4>2. CASE SearchBegin(t)
        <5>1. CASE waitList = <<>>
          <6>1. pc'[t] = "push" /\ Listed = {}
            BY <4>0, <4>2, <5>1 DEF SearchBegin, Goto, Listed, ToSet
          <6> QED
            BY <2>1, <3>3, <6>1 DEF NotPassed
        <5>2. CASE waitList # <<>>
          <6>1. pc'[t] = "look" /\ it'[t] = 1 /\ 1 \in Positions
            BY <1>0, <4>0, <4>2, <5>2, ListTypes DEF SearchBegin, Goto
          <6>2. \A j \in Positions : 1 <= j
            BY <1>0, ListTypes
          <6> QED
            BY <1>1, <3>3, <4>0, <6>1, <6>2 DEF NotPassed
        <5> QED
          BY <5>1, <5>2
      <4>3. CASE SearchLook(t)
        <5>1. it[t] \in Positions /\ it[t] \notin Waiters /\ it[t] \in Nat
          BY <1>0, <4>3, ListTypes, ThreadsTypes DEF SearchLook
        <5>2. \A j \in Positions : waitList[j] = arg[t] => it[t] <= j
          BY <4>0, <4>3, <5>1 DEF NotPassed, SearchLook
        <5>3. CASE waitList[it[t]] = arg[t]
          <6>1. pc'[t] = "found"
            BY <4>0, <4>3, <5>3 DEF SearchLook, Goto
          <6> QED
            BY <3>3, <6>1, ElsewhereNotPassed
        <5>4. CASE waitList[it[t]] # arg[t]
          <6>1. pc'[t] = "step" /\ it'[t] = it[t]
            BY <4>0, <4>3, <5>4 DEF SearchLook, Goto
          <6>2. \A j \in Positions : waitList[j] = arg[t] => it[t] < j
            <7> SUFFICES ASSUME NEW j \in Positions, waitList[j] = arg[t] PROVE it[t] < j
              OBVIOUS
            <7>1. it[t] <= j /\ it[t] # j /\ j \in Nat
              BY <1>0, <5>2, <5>4, ListTypes
            <7> QED
              BY <5>1, <7>1
          <6> QED
            BY <1>1, <3>3, <4>0, <5>1, <6>1, <6>2 DEF NotPassed
        <5> QED
          BY <5>3, <5>4
      <4>4. CASE SearchStep(t)
        <5>1. it[t] \in Positions /\ it[t] \notin Waiters /\ it[t] \in Nat
              /\ Positions = 1 .. Len(waitList) /\ Len(waitList) \in Nat
          BY <1>0, <4>4, ListTypes, ThreadsTypes DEF SearchStep
        <5>2. \A j \in Positions : waitList[j] = arg[t] => it[t] < j
          BY <4>0, <4>4, <5>1 DEF NotPassed, SearchStep
        <5>3. CASE it[t] = Len(waitList)
          <6>1. pc'[t] = "push"
            BY <4>0, <4>4, <5>3 DEF SearchStep, Goto
          <6>2. arg[t] \notin Listed
            <7> SUFFICES ASSUME NEW j \in Positions, waitList[j] = arg[t] PROVE FALSE
              BY DEF Listed, ToSet, Positions
            <7>1. j \in 1 .. Len(waitList) /\ Len(waitList) < j
              BY <5>1, <5>2, <5>3
            <7> QED
              BY <5>1, <7>1
          <6> QED
            BY <1>1, <2>1, <3>3, <6>1, <6>2 DEF NotPassed
        <5>4. CASE it[t] # Len(waitList)
          <6>1. pc'[t] = "look" /\ it'[t] = it[t] + 1
            BY <4>0, <4>4, <5>4 DEF SearchStep, Goto, After
          <6>2. it[t] + 1 \in Positions
            BY <5>1, <5>4
          <6>3. \A j \in Positions : waitList[j] = arg[t] => it[t] + 1 <= j
            <7> SUFFICES ASSUME NEW j \in Positions, waitList[j] = arg[t] PROVE it[t] + 1 <= j
              OBVIOUS
            <7>1. it[t] < j /\ j \in Nat
              BY <5>1, <5>2
            <7> QED
              BY <5>1, <7>1
          <6> QED
            BY <1>1, <3>3, <4>0, <6>1, <6>2, <6>3 DEF NotPassed
        <5> QED
          BY <5>3, <5>4
      <4>5. CASE SearchStrays(t)
        <5>1. pc'[t] = "found"
          BY <1>5, <3>3, <4>0, <4>5 DEF SearchStrays, Goto
        <5> QED
          BY <3>3, <5>1, ElsewhereNotPassed
      <4> QED
        BY <4>1, <4>2, <4>3, <4>4, <4>5 DEF SearchMove
    <3> QED
      BY <3>1, <3>2, <3>3
  <2> QED
    BY <2>1, <2>3, <2>4 DEF Clean, SearchMisses
<1>6. strayed => strayed'
  BY DEF RegisterStart, RegisterCreate, RegisterResume, SearchMove, SearchBegin, SearchLook,
     SearchStep, SearchStrays
<1> QED
  BY <1>4, <1>5, <1>6 DEF IInv

\* A registration ends.
LEMMA RegisterEndsKeep ==
  ASSUME IInv, NEW t \in Threads, RegisterFound(t) \/ RegisterPush(t)
  PROVE  Owned' /\ (strayed' \/ Clean')
<1>0. TypeOK /\ CallsAreOwn /\ WalkIsLocked
  BY DEF IInv
<1>1. /\ Entering(t) /\ Return(t) /\ UNCHANGED <<lock, it, restarts, phase, strayed>>
      /\ \/ pc[t] = "found" /\ UNCHANGED waitList
         \/ pc[t] = "push" /\ RegisterPush(t)
  <2>1. CASE RegisterFound(t)
    BY <2>1 DEF RegisterFound, Entering
  <2>2. CASE RegisterPush(t)
    BY <2>2 DEF RegisterPush, Entering
  <2> QED
    BY <2>1, <2>2
<1>2. /\ pc'[t] \in {"idle", "rejoin"}
      /\ pc'[t] = "rejoin" => t \in Handlers /\ restarts[t] # <<>>
      /\ \A u \in Threads \ {t} : pc'[u] = pc[u] /\ arg'[u] = arg[u]
  BY <1>0, <1>1, ReturnPlace
<1>3. Owned'
  BY <1>0, <1>1, <1>2, ThreadsTypes DEF Owned, CallsAreOwn, WalkIsLocked, Entering
<1>4. \A u \in Threads : Entering(u)' => u # t /\ Entering(u) /\ arg'[u] = arg[u]
  BY <1>2 DEF Entering
<1>5. ASSUME Clean, UNCHANGED waitList PROVE Clean'
  <2>1. Listed' = Listed /\ NoDuplicates'
    BY <1>1, <1>5 DEF Listed, Clean, NoDuplicates
  <2>2. SearchMisses'
    BY <1>1, <1>2, <1>5, SameNotPassed, ElsewhereNotPassed DEF Clean, SearchMisses
  <2>3. RestartableIsOnce' /\ EnteringAlone'
    BY <1>0, <1>1, <1>4, <1>5, <2>1, FewerKeep DEF Clean
  <2> QED
    BY <2>1, <2>2, <2>3 DEF Clean
<1>6. ASSUME Clean, RegisterPush(t), pc[t] = "push" PROVE Clean'
  <2> DEFINE w == arg[t]
  <2>1. w \in Waiters /\ w \notin Listed /\ waitList \in Seq(Waiters)
    BY <1>0, <1>1, <1>6 DEF CallsAreOwn, Clean, SearchMisses, NotPassed, TypeOK
  <2>2. waitList' = Append(waitList, w)
    BY <1>6 DEF RegisterPush
  <2>3. Listed' = Listed \cup {w} /\ NoDuplicates'
    BY <1>1, <1>6, <2>1, <2>2, AppendToInjective DEF Listed, Clean, NoDuplicates
  <2>4. \A u \in Threads : Entering(u)' => arg[u] # w
    BY <1>1, <1>4, <1>6 DEF Clean, EnteringAlone
  <2>5. EnteringAlone'
    BY <1>4, <1>6 DEF Clean, EnteringAlone
  <2>6. RestartableIsOnce'
    <3> SUFFICES ASSUME NEW x \in Restartable
                 PROVE  RestartableIsOnce!(x)'
      BY DEF RestartableIsOnce
    <3>1. RestartableIsOnce!(x)
      BY <1>6 DEF Clean, RestartableIsOnce
    <3>2. CASE x = w
      BY <1>1, <1>4, <2>3, <2>4, <3>1, <3>2
    <3>3. CASE x # w
      BY <1>1, <1>4, <2>3, <3>1, <3>3
    <3> QED
      BY <3>2, <3>3
  <2>7. ASSUME NEW u \in Threads, u # t PROVE NotPassed(u)'
    <3> DEFINE n == Len(waitList)
    <3>1. NotPassed(u) /\ pc'[u] = pc[u] /\ arg'[u] = arg[u] /\ it'[u] = it[u]
      BY <1>1, <1>2, <1>6, <2>7 DEF Clean, SearchMisses
    <3>2. pc[u] \in {"look", "step", "push"} => arg[u] # w
      BY <2>4, <3>1 DEF Entering
    <3>3. /\ n \in Nat /\ Positions = 1 .. n /\ Positions' = 1 .. n + 1
          /\ waitList'[n + 1] = w /\ \A j \in 1 .. n : waitList'[j] = waitList[j]
      BY <2>1, <2>2 DEF Positions
    <3>4. Positions \subseteq Positions'
      BY <3>3
    <3>5. \A j \in Positions' : j = n + 1 \/ j \in Positions
      BY <3>3
    <3>6. \A j \in Positions' : pc[u] \in {"look", "step"} /\ waitList'[j] = arg[u] =>
            j \in Positions /\ waitList[j] = arg[u]
      BY <3>2, <3>3, <3>5
    <3> HIDE DEF n, w
    <3>7. pc[u] = "push" => arg[u] \notin Listed'
      BY <2>3, <3>1, <3>2 DEF NotPassed
    <3> QED
      BY <3>1, <3>4, <3>6, <3>7, Zenon DEF NotPassed
  <2>8. SearchMisses'
    BY <1>2, <2>7, ElsewhereNotPassed DEF SearchMisses
  <2> QED
    BY <2>3, <2>5, <2>6, <2>8 DEF Clean
<1> QED
  BY <1>1, <1>3, <1>5, <1>6 DEF IInv

\* An unregistration.
LEMMA UnregisterKeeps ==
  ASSUME IInv, NEW c \in Clients,
         UnregisterErase(c) \/ \E w \in Waiters : UnregisterCall(c, w)
  PROVE  Owned' /\ (strayed' \/ Clean')
<1>0. TypeOK /\ CallsAreOwn /\ WalkIsLocked /\ c \in Threads /\ c \notin Handlers
  BY ThreadsTypes DEF IInv
<1>1. ASSUME NEW w \in Waiters, UnregisterCall(c, w) PROVE Owned' /\ (Clean => Clean')
  <2>1. /\ UNCHANGED <<waitList, lock, it, restarts>> /\ OwnerOf[w] = c /\ pc[c] = "idle"
        /\ \A u \in Threads \ {c} : pc'[u] = pc[u] /\ arg'[u] = arg[u]
        /\ pc'[c] = "idle" \/ (pc'[c] = "erase" /\ arg'[c] = w)
        /\ \A x \in Waiters : phase'[x] # "new" \/ phase'[x] = phase[x]
    <3>1. CASE waitList = <<>>
      BY <1>0, <1>1, <3>1 DEF UnregisterCall, TypeOK
    <3>2. CASE waitList # <<>>
      BY <1>0, <1>1, <3>2 DEF UnregisterCall, Goto, TypeOK
    <3> QED
      BY <3>1, <3>2
  <2>2. Owned'
    BY <1>0, <2>1, ThreadsTypes DEF Owned, CallsAreOwn, WalkIsLocked, Entering
  <2>3. ASSUME Clean PROVE Clean'
    <3>1. Listed' = Listed /\ NoDuplicates'
      BY <2>1, <2>3 DEF Listed, Clean, NoDuplicates
    <3>2. SearchMisses'
      BY <2>1, <2>3, SameNotPassed, ElsewhereNotPassed DEF Clean, SearchMisses
    <3>3. RestartableIsOnce' /\ EnteringAlone'
      <4>1. \A u \in Threads : Entering(u)' => Entering(u) /\ arg'[u] = arg[u]
        BY <2>1 DEF Entering
      <4> QED
        BY <1>0, <2>1, <2>3, <3>1, <4>1, FewerKeep DEF Clean
    <3> QED
      BY <3>1, <3>2, <3>3 DEF Clean
  <2> QED
    BY <2>2, <2>3
<1>2. ASSUME UnregisterErase(c) PROVE Owned' /\ (Clean => Clean')
  <2>1. /\ UNCHANGED <<lock, restarts>>
        /\ Die \/ Return(c)
        /\ \A x \in Waiters : phase'[x] # "new" \/ phase'[x] = phase[x]
    BY <1>0, <1>2 DEF UnregisterErase, CancelIfEmpty, TypeOK
  <2>2. \/ \A u \in Threads : pc'[u] = "dead"
        \/ /\ pc'[c] = "idle"
           /\ \A u \in Threads \ {c} : pc'[u] = pc[u] /\ arg'[u] = arg[u]
    BY <1>0, <2>1, DiePlace, ReturnPlace
  <2>3. Owned'
    <3>1. CASE \A u \in Threads : pc'[u] = "dead"
      BY <3>1, ThreadsTypes DEF Owned, CallsAreOwn, WalkIsLocked, Entering
    <3>2. CASE /\ pc'[c] = "idle"
               /\ \A u \in Threads \ {c} : pc'[u] = pc[u] /\ arg'[u] = arg[u]
      <4>1. UNCHANGED <<lock, restarts>>
        BY <2>1
      <4>2. CallsAreOwn'
        BY <1>0, <3>2, <4>1, ThreadsTypes DEF CallsAreOwn, Entering
      <4>3. WalkIsLocked'
        BY <1>0, <3>2, <4>1, ThreadsTypes DEF WalkIsLocked
      <4> QED
        BY <4>2, <4>3 DEF Owned
    <3> QED
      BY <2>2, <3>1, <3>2
  <2>4. ASSUME Clean PROVE Clean'
    <3>1. \/ UNCHANGED <<waitList, it>>
          \/ \E i \in Positions : /\ waitList' = RemoveAt(waitList, i)
                                  /\ \A u \in Threads : it'[u] = Shifted(it[u], i)
      BY <1>2 DEF UnregisterErase, EraseCounter
    <3>2. Listed' \subseteq Listed /\ NoDuplicates'
      <4>1. Listed' \subseteq Listed /\ IsInjective(waitList')
        BY <1>0, <2>4, <3>1, ErasedWaiters DEF Listed, Clean, NoDuplicates
      <4>2. UNCHANGED restarts
        BY <2>1
      <4> QED
        BY <2>4, <4>1, <4>2 DEF Clean, NoDuplicates
    <3>3. ASSUME NEW u \in Threads PROVE NotPassed(u)'
      <4>1. CASE pc'[u] \notin {"look", "step", "push"}
        BY <4>1, ElsewhereNotPassed
      <4>2. CASE pc'[u] \in {"look", "step", "push"}
        <5>1. pc'[u] = pc[u] /\ arg'[u] = arg[u] /\ NotPassed(u)
          BY <2>2, <2>4, <4>2 DEF Clean, SearchMisses
        <5> QED
          BY <1>0, <3>1, <5>1, SameNotPassed, ErasedNotPassed
      <4> QED
        BY <4>1, <4>2
    <3>4. RestartableIsOnce' /\ EnteringAlone'
      <4>1. \A u \in Threads : Entering(u)' => Entering(u) /\ arg'[u] = arg[u]
        BY <2>2 DEF Entering
      <4>2. /\ RestartableIsOnce /\ EnteringAlone /\ UNCHANGED restarts
            /\ \A x \in Waiters : phase'[x] # "new" \/ phase'[x] = phase[x]
        BY <2>1, <2>4 DEF Clean
      <4> QED
        BY <1>0, <3>2, <4>1, <4>2, FewerKeep
    <3> QED
      BY <3>2, <3>3, <3>4 DEF Clean, SearchMisses
  <2> QED
    BY <2>3, <2>4
<1>3. UNCHANGED strayed
  BY DEF UnregisterErase, UnregisterCall
<1> QED
  BY <1>1, <1>2, <1>3 DEF IInv

\* A traversal begins, takes the mutex, goes through a freed node, or ends.
LEMMA TravalMovesKeep ==
  ASSUME IInv, NEW h \in Handlers,
         TravalBegin(h) \/ TravalEnter(h) \/ TravalDangling(h) \/ TravalLeave(h)
  PROVE  Owned' /\ (strayed' \/ Clean')
<1>0. TypeOK /\ CallsAreOwn /\ WalkIsLocked /\ h \in Threads
  BY ThreadsTypes DEF IInv
<1>1. UNCHANGED <<waitList, arg, restarts, phase, strayed>>
  BY DEF TravalBegin, TravalEnter, TravalDangling, TravalLeave
<1>2. \/ /\ \A u \in Threads : pc'[u] = "dead"
         /\ UNCHANGED lock
      \/ /\ \A u \in Threads \ {h} : pc'[u] = pc[u] /\ it'[u] = it[u]
         /\ \/ pc'[h] = "enter" /\ UNCHANGED lock
            \/ pc'[h] = "walk" /\ lock' = h /\ lock \in {Nobody, h}
            \/ pc'[h] = "idle" /\ lock' = Nobody /\ lock = h
            \/ pc'[h] = "rejoin" /\ lock' = Nobody /\ lock = h /\ restarts[h] # <<>>
  <2>1. CASE TravalBegin(h)
    BY <1>0, <2>1 DEF TravalBegin, Goto, TypeOK
  <2>2. CASE TravalEnter(h)
    BY <1>0, <2>2 DEF TravalEnter, Goto, TypeOK
  <2>3. CASE TravalDangling(h)
    BY <1>0, <2>3, DiePlace DEF TravalDangling, TypeOK, WalkIsLocked
  <2>4. CASE TravalLeave(h)
    BY <1>0, <2>4 DEF TravalLeave, Goto, TypeOK, WalkIsLocked
  <2> QED
    BY <2>1, <2>2, <2>3, <2>4
<1>3. Owned'
  <2>1. CASE \A u \in Threads : pc'[u] = "dead"
    BY <2>1, ThreadsTypes DEF Owned, CallsAreOwn, WalkIsLocked, Entering
  <2>2. CASE ~ \A u \in Threads : pc'[u] = "dead"
    <3>1. CallsAreOwn'
      BY <1>0, <1>1, <1>2, <2>2, ThreadsTypes DEF CallsAreOwn, Entering
    <3>2. WalkIsLocked'
      BY <1>0, <1>2, <2>2, ThreadsTypes DEF WalkIsLocked
    <3> QED
      BY <3>1, <3>2 DEF Owned
  <2> QED
    BY <2>1, <2>2
<1>4. ASSUME Clean PROVE Clean'
  <2>1. Listed' = Listed /\ NoDuplicates'
    BY <1>1, <1>4 DEF Listed, Clean, NoDuplicates
  <2>2. ASSUME NEW u \in Threads PROVE NotPassed(u)'
    <3>1. CASE pc'[u] \notin {"look", "step", "push"}
      BY <3>1, ElsewhereNotPassed
    <3>2. CASE pc'[u] \in {"look", "step", "push"}
      BY <1>1, <1>2, <1>4, <3>2, SameNotPassed DEF Clean, SearchMisses
    <3> QED
      BY <3>1, <3>2
  <2>3. \A u \in Threads : Entering(u)' => Entering(u) /\ arg'[u] = arg[u]
    BY <1>1, <1>2 DEF Entering
  <2>4. RestartableIsOnce' /\ EnteringAlone'
    BY <1>0, <1>1, <1>4, <2>1, <2>3, FewerKeep DEF Clean
  <2> QED
    BY <2>1, <2>2, <2>4 DEF Clean, SearchMisses
<1> QED
  BY <1>1, <1>3, <1>4 DEF IInv

\* What a visit does to the list, the iterators and the restart list.
LEMMA VisitCases ==
  ASSUME TypeOK, NEW h \in Handlers, TravalVisit(h)
  PROVE  /\ h \in Threads /\ pc[h] = "walk" /\ it[h] \in Positions
         /\ UNCHANGED <<lock, phase, strayed, orphaned>>
         /\ Die \/ UNCHANGED <<pc, arg>>
         /\ waitList[it[h]] \in Waiters
         /\ \/ /\ UNCHANGED <<waitList, restarts>>
               /\ it' = [it EXCEPT ![h] = After(it[h])]
            \/ /\ waitList' = RemoveAt(waitList, it[h])
               /\ it' = [u \in Threads |->
                           IF u # h THEN Shifted(it[u], it[h])
                           ELSE IF it[h] = Len(waitList) THEN Nobody ELSE it[h]]
               /\ \/ UNCHANGED restarts
                  \/ /\ waitList[it[h]] \in Restartable
                     /\ restarts' =
                          [restarts EXCEPT ![h] = Append(restarts[h], waitList[it[h]])]
<1>1. h \in Threads /\ it[h] \in Positions /\ waitList[it[h]] \in Waiters /\ pc[h] = "walk"
      /\ UNCHANGED <<lock, phase, strayed, orphaned>>
  BY ThreadsTypes, ListTypes DEF TravalVisit
<1> DEFINE w == waitList[it[h]]
<1>2. PICK answer \in Answers(w) :
        /\ IF answer \in {"RELASE", "RESTART"}
           THEN /\ waitList' = RemoveAt(waitList, it[h])
                /\ it' = [t \in Threads |->
                            IF t # h THEN Shifted(it[t], it[h])
                            ELSE IF it[h] = Len(waitList) THEN Nobody ELSE it[h]]
                /\ CancelIfEmpty(UNCHANGED <<pc, arg>>)
           ELSE /\ it' = [it EXCEPT ![h] = After(it[h])]
                /\ UNCHANGED <<waitList, source, attended, pc, arg>>
        /\ restarts' = [restarts EXCEPT ![h] = RestartsAfter(h, w, answer)]
  BY DEF TravalVisit
<1>3. Die \/ UNCHANGED <<pc, arg>>
  BY <1>2 DEF CancelIfEmpty
<1>4. answer # "RESTART" => UNCHANGED restarts
  BY <1>2 DEF RestartsAfter, TypeOK
<1>5. answer = "RESTART" =>
        w \in Restartable /\ restarts' = [restarts EXCEPT ![h] = Append(restarts[h], w)]
  BY <1>2 DEF RestartsAfter, Answers
<1> QED
  BY <1>1, <1>2, <1>3, <1>4, <1>5

\* A counter is visited.
LEMMA TravalVisitKeeps ==
  ASSUME IInv, NEW h \in Handlers, TravalVisit(h)
  PROVE  Owned' /\ (strayed' \/ Clean')
<1> DEFINE i == it[h]
           w == waitList[i]
<1>0. /\ TypeOK /\ CallsAreOwn /\ WalkIsLocked
      /\ h \in Threads /\ pc[h] = "walk" /\ i \in Positions /\ w \in Waiters
      /\ UNCHANGED <<lock, phase, strayed>>
  BY VisitCases DEF IInv
<1>1. (\A u \in Threads : pc'[u] = "dead") \/ UNCHANGED <<pc, arg>>
  BY <1>0, VisitCases, DiePlace
<1>2. \/ UNCHANGED restarts
      \/ restarts' = [restarts EXCEPT ![h] = Append(restarts[h], w)]
  BY <1>0, VisitCases
<1>3. Owned'
  <2>1. \A g \in Handlers \ {h} : restarts'[g] = restarts[g]
    BY <1>0, <1>2 DEF TypeOK
  <2>2. CASE \A u \in Threads : pc'[u] = "dead"
    BY <2>2, ThreadsTypes DEF Owned, CallsAreOwn, WalkIsLocked, Entering
  <2>3. CASE UNCHANGED <<pc, arg>>
    <3>1. CallsAreOwn'
      BY <1>0, <2>1, <2>3, ThreadsTypes DEF CallsAreOwn, Entering
    <3>2. WalkIsLocked'
      BY <1>0, <2>3 DEF WalkIsLocked
    <3> QED
      BY <3>1, <3>2 DEF Owned
  <2> QED
    BY <1>1, <2>2, <2>3
<1>4. ASSUME Clean PROVE Clean'
  <2>1. \A u \in Threads : Entering(u)' => Entering(u) /\ arg'[u] = arg[u]
    BY <1>1 DEF Entering
  <2>2. Listed' \subseteq Listed /\ IsInjective(waitList')
    BY <1>0, <1>4, VisitCases, ErasedWaiters DEF Listed, Clean, NoDuplicates
  <2>3. ASSUME NEW u \in Threads PROVE NotPassed(u)'
    <3>1. CASE pc'[u] \notin {"look", "step", "push"}
      BY <3>1, ElsewhereNotPassed
    <3>2. CASE pc'[u] \in {"look", "step", "push"}
      <4>1. pc'[u] = pc[u] /\ arg'[u] = arg[u] /\ NotPassed(u) /\ u # h
        BY <1>0, <1>1, <1>4, <3>2 DEF Clean, SearchMisses
      <4>2. \/ UNCHANGED waitList /\ it'[u] = it[u]
            \/ waitList' = RemoveAt(waitList, i) /\ it'[u] = Shifted(it[u], i)
        BY <1>0, <4>1, VisitCases DEF TypeOK
      <4> QED
        BY <1>0, <4>1, <4>2, SameNotPassed, ErasedNotPassed
    <3> QED
      BY <3>1, <3>2
  <2>4. CASE UNCHANGED restarts
    <3>1. RestartableIsOnce' /\ EnteringAlone'
      BY <1>0, <1>4, <2>1, <2>2, <2>4, FewerKeep DEF Clean
    <3> QED
      BY <1>4, <2>2, <2>3, <2>4, <3>1 DEF Clean, SearchMisses, NoDuplicates
  <2>5. CASE ~ UNCHANGED restarts
    <3>1. /\ w \in Restartable /\ w \in Listed /\ waitList' = RemoveAt(waitList, i)
          /\ restarts' = [restarts EXCEPT ![h] = Append(restarts[h], w)]
      BY <1>0, <2>5, VisitCases, ListTypes
    <3>2. w \notin Listed'
      BY <1>0, <1>4, <3>1, ErasedWaiters DEF Clean, NoDuplicates
    <3>3. restarts \in [Handlers -> Seq(Restartable)] /\ restarts[h] \in Seq(Restartable)
      BY <1>0 DEF TypeOK
    <3>4. /\ phase[w] # "new" /\ \A g \in Handlers : w \notin ToSet(restarts[g])
          /\ \A u \in Threads : ~(Entering(u) /\ arg[u] = w)
      BY <1>4, <3>1 DEF Clean, RestartableIsOnce
    <3>5. /\ ToSet(restarts'[h]) = ToSet(restarts[h]) \cup {w}
          /\ IsInjective(restarts'[h])
          /\ \A g \in Handlers \ {h} : restarts'[g] = restarts[g]
      BY <1>4, <3>1, <3>3, <3>4, AppendToInjective DEF Clean, NoDuplicates
    <3>6. EnteringAlone'
      BY <1>4, <2>1 DEF Clean, EnteringAlone
    <3>7. RestartableIsOnce'
      <4> SUFFICES ASSUME NEW x \in Restartable
                   PROVE  RestartableIsOnce!(x)'
        BY DEF RestartableIsOnce
      <4>1. RestartableIsOnce!(x)
        BY <1>4 DEF Clean, RestartableIsOnce
      <4>2. CASE x = w
        BY <1>0, <2>1, <3>2, <3>4, <3>5, <4>2
      <4>3. CASE x # w
        <5>1. \A g \in Handlers : x \in ToSet(restarts'[g]) => x \in ToSet(restarts[g])
          BY <3>5, <4>3
        <5> QED
          BY <1>0, <2>1, <2>2, <4>1, <5>1
      <4> QED
        BY <4>2, <4>3
    <3>8. NoDuplicates'
      BY <1>4, <2>2, <3>5 DEF Clean, NoDuplicates
    <3> QED
      BY <2>3, <3>6, <3>7, <3>8 DEF Clean, SearchMisses
  <2> QED
    BY <2>4, <2>5
<1> QED
  BY <1>0, <1>3, <1>4 DEF IInv

\* A counter of the restart list is registered again.
LEMMA TravalRejoinKeeps ==
  ASSUME IInv, NEW h \in Handlers, TravalRejoin(h)
  PROVE  Owned' /\ (strayed' \/ Clean')
<1> DEFINE w == Head(restarts[h])
<1>0. /\ TypeOK /\ CallsAreOwn /\ WalkIsLocked /\ h \in Threads /\ h \notin Clients
      /\ pc[h] = "rejoin"
  BY ThreadsTypes DEF IInv, TravalRejoin
<1>1. restarts[h] \in Seq(Restartable) /\ restarts[h] # <<>>
      /\ restarts \in [Handlers -> Seq(Restartable)]
  BY <1>0 DEF TypeOK, CallsAreOwn
<1>2. /\ w \in Restartable /\ w \in Waiters /\ w \in ToSet(restarts[h])
      /\ ToSet(Tail(restarts[h])) \subseteq ToSet(restarts[h])
      /\ IsInjective(restarts[h]) =>
           IsInjective(Tail(restarts[h])) /\ w \notin ToSet(Tail(restarts[h]))
  BY <1>1, TailOfInjective, ThreadsTypes
<1>3. /\ pc'[h] \in {"start", "begin"} /\ arg'[h] = w
      /\ \A u \in Threads \ {h} : pc'[u] = pc[u] /\ arg'[u] = arg[u]
      /\ UNCHANGED <<waitList, lock, it, phase, strayed>>
  BY <1>0, <1>2, RegisterPlace DEF TravalRejoin
<1>4. restarts'[h] = Tail(restarts[h]) /\ \A g \in Handlers \ {h} : restarts'[g] = restarts[g]
  BY <1>1 DEF TravalRejoin
<1>5. Owned'
  BY <1>0, <1>2, <1>3, <1>4, ThreadsTypes DEF Owned, CallsAreOwn, WalkIsLocked, Entering
<1>6. ASSUME Clean PROVE Clean'
  <2>1. Listed' = Listed /\ NoDuplicates'
    BY <1>2, <1>3, <1>4, <1>6 DEF Listed, Clean, NoDuplicates
  <2>2. SearchMisses'
    BY <1>3, <1>6, SameNotPassed, ElsewhereNotPassed DEF Clean, SearchMisses
  <2>3. /\ phase[w] # "new" /\ w \notin Listed
        /\ \A g \in Handlers : w \notin ToSet(restarts'[g])
        /\ \A u \in Threads : ~(Entering(u) /\ arg[u] = w)
    BY <1>2, <1>4, <1>6 DEF Clean, RestartableIsOnce, NoDuplicates
  <2>4. \A u \in Threads \ {h} : Entering(u)' => Entering(u) /\ arg'[u] = arg[u]
    BY <1>3 DEF Entering
  <2>5. EnteringAlone'
    BY <1>3, <1>6, <2>3, <2>4 DEF Clean, EnteringAlone
  <2>6. RestartableIsOnce'
    <3> SUFFICES ASSUME NEW x \in Restartable
                 PROVE  RestartableIsOnce!(x)'
      BY DEF RestartableIsOnce
    <3>1. RestartableIsOnce!(x)
      BY <1>6 DEF Clean, RestartableIsOnce
    <3>2. CASE x = w
      BY <1>3, <2>1, <2>3, <3>2
    <3>3. CASE x # w
      <4>1. \A g \in Handlers : x \in ToSet(restarts'[g]) => x \in ToSet(restarts[g])
        BY <1>2, <1>4
      <4> QED
        BY <1>3, <2>1, <2>4, <3>1, <3>3, <4>1
    <3> QED
      BY <3>2, <3>3
  <2> QED
    BY <2>1, <2>2, <2>5, <2>6 DEF Clean
<1> QED
  BY <1>3, <1>5, <1>6 DEF IInv

LEMMA NextIInv == IInv /\ [Next]_vars => IInv'
<1> SUFFICES ASSUME IInv, [Next]_vars PROVE Owned' /\ (strayed' \/ Clean')
  BY NextTypeOK DEF IInv, Owned
<1>1. ASSUME NEW t \in Threads, RegisterStep(t) PROVE Owned' /\ (strayed' \/ Clean')
  BY <1>1, RegisterMovesKeep, RegisterEndsKeep DEF RegisterStep
<1>2. ASSUME NEW h \in Handlers, TravalStep(h) PROVE Owned' /\ (strayed' \/ Clean')
  BY <1>2, TravalMovesKeep, TravalVisitKeeps, TravalRejoinKeeps DEF TravalStep
<1>3. CASE UNCHANGED vars
  <2>1. Owned'
    BY <1>3 DEF IInv, Owned, CallsAreOwn, WalkIsLocked, Entering
  <2>2. Clean => Clean'
    BY <1>3 DEF Clean, RestartableIsOnce, EnteringAlone, NoDuplicates, SearchMisses, NotPassed,
       Entering, Listed, Positions
  <2> QED
    BY <1>3, <2>1, <2>2 DEF IInv
<1> QED
  BY <1>1, <1>2, <1>3, RegisterCallKeeps, UnregisterKeeps DEF Next

THEOREM Inductive == Spec => []IInv
  BY InitIInv, NextIInv, PTL DEF Spec
-----------------------------------------------------------------------------
(* The theorems *)

\* Every thread, counter, iterator and list keeps its type, under any number
\* of clients and handlers.
THEOREM TypeCorrect == Spec => []TypeOK
<1>1. IInv => TypeOK
  BY DEF IInv
<1> QED
  BY <1>1, Inductive, PTL

\* A step of the list is a step of the service or changes nothing that the
\* service shows: the second registration or the first removal of a counter
\* that a straying search had listed twice are not seen there.
LEMMA StepImplementsService ==
  IInv /\ [Next]_vars => [Ticks!Next]_(Ticks!vars)
<1> SUFFICES ASSUME IInv, [Next]_vars PROVE Ticks!Next \/ UNCHANGED <<Listed, count>>
  BY DEF Ticks!vars
<1>0. TypeOK /\ CallsAreOwn /\ Listed \subseteq Waiters
      /\ Clients \subseteq Threads /\ Handlers \subseteq Threads
  BY ThreadsTypes, ListTypes DEF IInv
<1>1. ASSUME NEW w \in Waiters, NEW answer \in {"RESET", "INC"},
             answer = "INC" => count[w] < MaxCount,
             count' = [count EXCEPT ![w] = IF answer = "INC" THEN @ + 1 ELSE 0],
             Listed' = Listed
      PROVE  Ticks!Next
  <2>1. count' = [count EXCEPT ![w] = Ticks!Counted(@, answer)]
    BY <1>1 DEF Ticks!Counted
  <2>2. answer \in Ticks!Answers /\ answer \notin {"RELASE", "RESTART"}
    BY DEF Ticks!Answers
  <2>3. Ticks!Tick(w, answer) \/ Ticks!StrayTick(w, answer)
    BY <1>1, <2>1, <2>2 DEF Ticks!Tick, Ticks!StrayTick
  <2> QED
    BY <2>2, <2>3 DEF Ticks!Next
<1>2. ASSUME NEW t \in Threads, RegisterFound(t) PROVE Ticks!Next
  <2>1. arg[t] \in Waiters
    BY <1>0, <1>2 DEF CallsAreOwn, Entering, RegisterFound
  <2>2. Listed' = Listed /\ count' = [count EXCEPT ![arg[t]] = 0]
    BY <1>2 DEF RegisterFound, Listed
  <2> QED
    BY <1>1, <2>1, <2>2
<1>3. ASSUME NEW t \in Threads, RegisterPush(t) PROVE Ticks!Next \/ UNCHANGED <<Listed, count>>
  <2>1. arg[t] \in Waiters /\ waitList \in Seq(Waiters)
    BY <1>0, <1>3 DEF CallsAreOwn, Entering, RegisterPush, TypeOK
  <2>2. Listed' = Listed \cup {arg[t]} /\ UNCHANGED count
    BY <1>3, <2>1, AppendToInjective DEF RegisterPush, Listed
  <2>3. CASE arg[t] \in Listed
    BY <2>2, <2>3
  <2>4. CASE arg[t] \notin Listed
    <3>1. Ticks!Register(arg[t])
      BY <2>2, <2>4 DEF Ticks!Register
    <3> QED
      BY <2>1, <3>1 DEF Ticks!Next
  <2> QED
    BY <2>3, <2>4
<1>4. ASSUME NEW c \in Clients, UnregisterErase(c)
      PROVE  Ticks!Next \/ UNCHANGED <<Listed, count>>
  <2> DEFINE w == arg[c]
  <2>1. w \in Waiters /\ UNCHANGED count
    BY <1>0, <1>4 DEF CallsAreOwn, UnregisterErase
  <2>2. Listed' \subseteq Listed /\ Listed \subseteq Listed' \cup {w}
    <3>1. CASE UNCHANGED waitList
      BY <3>1 DEF Listed
    <3>2. ASSUME NEW i \in Positions, waitList[i] = w, waitList' = RemoveAt(waitList, i)
          PROVE  Listed' \subseteq Listed /\ Listed \subseteq Listed' \cup {w}
      BY <1>0, <3>2, ErasedWaiters
    <3> QED
      BY <1>4, <3>1, <3>2 DEF UnregisterErase, EraseCounter
  <2> HIDE DEF w
  <2>3. CASE w \in Listed'
    BY <2>1, <2>2, <2>3
  <2>4. CASE w \notin Listed'
    <3>1. Ticks!Unregister(w)
      BY <2>1, <2>2, <2>4 DEF Ticks!Unregister
    <3> QED
      BY <2>1, <3>1 DEF Ticks!Next
  <2> QED
    BY <2>3, <2>4
<1>5. ASSUME NEW h \in Handlers, TravalVisit(h)
      PROVE  Ticks!Next \/ UNCHANGED <<Listed, count>>
  <2> DEFINE i == it[h]
             w == waitList[i]
  <2>1. i \in Positions /\ w \in Waiters /\ w \in Listed
    BY <1>0, <1>5, ListTypes DEF TravalVisit
  <2>2. PICK answer \in Answers(w) :
          /\ answer = "INC" => count[w] < MaxCount
          /\ IF answer \in {"RELASE", "RESTART"} THEN waitList' = RemoveAt(waitList, i)
             ELSE UNCHANGED waitList
          /\ count' = [count EXCEPT ![w] = CountAfter(@, answer)]
    BY <1>5 DEF TravalVisit
  <2>3. answer \in {"RESET", "INC", "RELASE", "RESTART"}
    BY <2>2 DEF Answers
  <2>4. CASE answer \in {"RESET", "INC"}
    <3>1. Listed' = Listed
      BY <2>2, <2>4 DEF Listed
    <3>2. count' = [count EXCEPT ![w] = IF answer = "INC" THEN @ + 1 ELSE 0]
      BY <2>2, <2>4 DEF CountAfter
    <3> QED
      BY <1>1, <2>1, <2>2, <2>4, <3>1, <3>2
  <2>5. CASE answer \in {"RELASE", "RESTART"}
    <3>1. Listed' \subseteq Listed /\ Listed \subseteq Listed' \cup {w}
      BY <1>0, <2>1, <2>2, <2>5, ErasedWaiters
    <3>2. /\ answer = "RELASE" => UNCHANGED count
          /\ answer = "RESTART" => count' = [count EXCEPT ![w] = 0]
      BY <1>0, <2>1, <2>2 DEF CountAfter, TypeOK
    <3> HIDE DEF i, w
    <3>3. CASE w \in Listed'
      <4>1. Listed' = Listed
        BY <3>1, <3>3
      <4>2. CASE answer = "RELASE"
        BY <3>2, <4>1, <4>2
      <4>3. CASE answer = "RESTART"
        BY <1>1, <2>1, <3>2, <4>1, <4>3
      <4> QED
        BY <2>5, <4>2, <4>3
    <3>4. CASE w \notin Listed'
      <4>1. Listed' = Listed \ {w} /\ answer \in Ticks!Answers /\ answer # "INC"
        BY <2>5, <3>1, <3>4 DEF Ticks!Answers
      <4>2. count' = [count EXCEPT ![w] = Ticks!Counted(@, answer)]
        <5>1. CASE answer = "RELASE"
          BY <1>0, <2>1, <3>2, <5>1 DEF Ticks!Counted, TypeOK
        <5>2. CASE answer = "RESTART"
          BY <3>2, <5>2 DEF Ticks!Counted
        <5> QED
          BY <2>5, <5>1, <5>2
      <4>3. Ticks!Tick(w, answer)
        BY <2>1, <2>5, <4>1, <4>2 DEF Ticks!Tick
      <4> QED
        BY <2>1, <4>1, <4>3 DEF Ticks!Next
    <3> QED
      BY <3>3, <3>4
  <2> QED
    BY <2>3, <2>4, <2>5
<1>6. ASSUME NEW h \in Handlers, TravalDangling(h)
      PROVE  Ticks!Next \/ UNCHANGED <<Listed, count>>
  <2>1. Listed' = Listed
    BY <1>6 DEF TravalDangling, Listed
  <2>2. CASE UNCHANGED count
    BY <2>1, <2>2
  <2>3. CASE ~ UNCHANGED count
    <3>1. PICK answer \in {"RESET", "INC"} :
            /\ answer = "INC" => count[it[h]] < MaxCount
            /\ count' = [count EXCEPT ![it[h]] = IF answer = "INC" THEN @ + 1 ELSE 0]
      BY <1>6, <2>3 DEF TravalDangling
    <3>2. it[h] \in Waiters
      BY <1>6 DEF TravalDangling
    <3> QED
      BY <1>1, <2>1, <3>1, <3>2
  <2> QED
    BY <2>2, <2>3
<1>7. ASSUME UNCHANGED <<waitList, count>> PROVE UNCHANGED <<Listed, count>>
  BY <1>7 DEF Listed
<1>8. ASSUME NEW c \in Clients, NEW w \in Waiters, RegisterCall(c, w) \/ UnregisterCall(c, w)
      PROVE  UNCHANGED <<waitList, count>>
  BY <1>8 DEF RegisterCall, RegisterTest, UnregisterCall
<1>9. ASSUME NEW t \in Threads,
             RegisterStart(t) \/ RegisterCreate(t) \/ RegisterResume(t) \/ SearchMove(t)
      PROVE  UNCHANGED <<waitList, count>>
  BY <1>9 DEF RegisterStart, RegisterCreate, RegisterResume, SearchMove, SearchBegin,
     SearchLook, SearchStep, SearchStrays
<1>10. ASSUME NEW h \in Handlers,
              TravalBegin(h) \/ TravalEnter(h) \/ TravalLeave(h) \/ TravalRejoin(h)
       PROVE  UNCHANGED <<waitList, count>>
  BY <1>10 DEF TravalBegin, TravalEnter, TravalLeave, TravalRejoin, RegisterTest
<1> QED
  BY <1>2, <1>3, <1>4, <1>5, <1>6, <1>7, <1>8, <1>9, <1>10 DEF Next, RegisterStep, TravalStep

\* traval, registerWaiter and unregisterWaiter implement the tick service: for
\* any threads and counters, no interleaving of the node-by-node search with
\* the locked sections loses a counter that did not leave or gives one a value
\* its answers did not, and none lists a counter twice before some search has
\* gone on through an erased node.
THEOREM ImplementsTickServiceHolds == Spec => ImplementsTickService
<1>1. Init => Ticks!Init
  BY DEF Init, Ticks!Init, Listed, ToSet
<1>2. IInv => strayed \/ IsInjective(waitList)
  BY DEF IInv, Clean, NoDuplicates
<1> QED
  BY <1>1, <1>2, StepImplementsService, Inductive, PTL
  DEF Spec, Ticks!Spec, ImplementsTickService

\* The mutex protects the iterator: what a walk inside it stands on is erased
\* by no other thread, and by its own visit only with the iterator moved on.
THEOREM IteratorStaysValidHolds == Spec => IteratorStaysValid
<1>1. IInv /\ [Next]_vars =>
        [\A h \in Handlers :
           pc[h] = "walk" /\ it[h] \notin Waiters => it'[h] \notin Waiters]_vars
  <2> SUFFICES ASSUME IInv, Next, NEW h \in Handlers, pc[h] = "walk", it[h] \notin Waiters
               PROVE  it'[h] \notin Waiters
    OBVIOUS
  <2>0. /\ TypeOK /\ lock = h /\ h # Nobody /\ h \in Threads /\ Nobody \notin Waiters
        /\ \A g \in Handlers : pc[g] = "walk" => g = h
    BY ThreadsTypes DEF IInv, WalkIsLocked
  <2>1. ASSUME NEW g \in Handlers, TravalVisit(g) PROVE it'[h] \notin Waiters
    <3>1. g = h /\ it[h] \in Positions
      BY <2>0, <2>1 DEF TravalVisit
    <3>2. it'[h] \in {After(it[h]), Nobody, it[h]}
      <4>1. /\ it \in [Threads -> Positions \cup Waiters \cup {Nobody}]
            /\ \/ it' = [it EXCEPT ![h] = After(it[h])]
               \/ it' = [u \in Threads |->
                          IF u # h THEN Shifted(it[u], it[h])
                          ELSE IF it[h] = Len(waitList) THEN Nobody ELSE it[h]]
        BY <2>0, <2>1, <3>1, VisitCases DEF TypeOK
      <4> QED
        BY <2>0, <4>1
    <3>3. After(it[h]) \notin Waiters
      BY <2>0, <3>1, ListTypes, ThreadsTypes
    <3> QED
      BY <2>0, <3>2, <3>3
  <2>2. ASSUME NEW g \in Handlers, TravalDangling(g) PROVE FALSE
    BY <2>0, <2>2 DEF TravalDangling
  <2>3. ASSUME NEW c \in Clients, UnregisterErase(c) PROVE FALSE
    BY <2>0, <2>3 DEF UnregisterErase
  <2>4. ASSUME NEW t \in Threads, SearchMove(t) \/ (t \in Handlers /\ TravalBegin(t))
        PROVE  it'[h] = it[h]
    <3>1. t # h
      BY <2>4 DEF SearchMove, SearchBegin, SearchLook, SearchStep, SearchStrays, TravalBegin
    <3>2. UNCHANGED it \/ \E p : it' = [it EXCEPT ![t] = p]
      BY <2>4 DEF SearchMove, SearchBegin, SearchLook, SearchStep, SearchStrays, TravalBegin
    <3> QED
      BY <2>0, <3>1, <3>2 DEF TypeOK
  <2>5. ASSUME NEW t \in Threads,
               \/ RegisterStart(t) \/ RegisterCreate(t) \/ RegisterResume(t)
               \/ RegisterFound(t) \/ RegisterPush(t)
        PROVE  it'[h] = it[h]
    BY <2>5 DEF RegisterStart, RegisterCreate, RegisterResume, RegisterFound, RegisterPush
  <2>6. ASSUME NEW g \in Handlers, TravalEnter(g) \/ TravalLeave(g) \/ TravalRejoin(g)
        PROVE  it'[h] = it[h]
    BY <2>6 DEF TravalEnter, TravalLeave, TravalRejoin, RegisterTest
  <2>7. ASSUME NEW c \in Clients, NEW w \in Waiters, RegisterCall(c, w) \/ UnregisterCall(c, w)
        PROVE  it'[h] = it[h]
    BY <2>7 DEF RegisterCall, UnregisterCall, RegisterTest
  <2> QED
    BY <2>1, <2>2, <2>3, <2>4, <2>5, <2>6, <2>7, ThreadsTypes DEF Next, RegisterStep, TravalStep
<1> QED
  BY <1>1, Inductive, PTL DEF Spec, IteratorStaysValid
=============================================================================
