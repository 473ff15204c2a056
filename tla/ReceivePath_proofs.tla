------------------------- MODULE ReceivePath_proofs -------------------------
(***************************************************************************)
(* A packet has one owner, and a thread goes through a freed pointer only  *)
(* after a release that met a packet or a deletion, or, to a talk, when    *)
(* that was deleted under its look: for any packets, streams, sessions,    *)
(* endpoints and talks, and any size of the caches.                        *)
(***************************************************************************)
EXTENDS ReceivePath, FiniteSetTheorems, SequenceTheorems, WellFoundedInduction, TLAPS

\* The places of delegate, without evMutex and with it.
Moving == {"delegating", "looking", "asking"}
Asked == {"looking", "asking", "refused", "locking"}
Making == Moving \cup Asked
Locked == {"registering", "flushing"}

\* A looper has a packet from the socket until it is delivered or encached.
HandsInside ==
  /\ \A e \in Epts : hand[e] # None <=> Inside(e)
  /\ \A e \in Epts : asked[e] # None <=> pc[e] = "creating"
  /\ \A e \in Epts : Inside(e) => hand[e] \in arrived

\* The transaction of the packet in hand comes to be as the looper goes on.
LivesInStep ==
  /\ \A e \in Epts : pc[e] \in {"got", "trigger", "creating"} => life[hand[e]] = "none"
  /\ \A e \in Epts : pc[e] \in Making => life[hand[e]] = "made"
  /\ \A e \in Epts : pc[e] \in Locked => life[hand[e]] = "listed"
  /\ \A t \in Packets : life[t] # "none" => t \in arrived /\ refEndPoint[t] \in Epts
  /\ victim # None => life[victim] \in {"listed", "removed", "deleted"}

\* evMutex.
LockedOnce ==
  /\ \A e, f \in Epts : pc[e] \in Locked /\ pc[f] \in Locked => e = f
  /\ victim # None => \A e \in Epts : pc[e] \notin Locked

\* A queue is listed once, with the endpoint of its transaction.
QueuesListedOnce ==
  /\ \A e \in Epts : IsInjective(recvIOQs[e])
  /\ \A e \in Epts : \A t \in ToSet(recvIOQs[e]) :
       refEndPoint[t] = e /\ life[t] \notin {"none", "made"}
  /\ \A e, f \in Epts : pc[f] = "registering" => hand[f] \notin ToSet(recvIOQs[e])

\* The sessions that have the endpoint acquired.
Holders == {s \in Sessions : \/ session[s] = "active"
                             \/ s = who /\ apc \in {"inserting", "dropping"}}

SessionPlaces ==
  /\ apc = "idle" <=> who = None
  /\ \A s \in Sessions : session[s] = "made" <=> s = who /\ apc \in {"pushing", "inserting"}
  /\ \A s \in Sessions : session[s] = "leaving" <=> s = who /\ apc \in Releasing
  /\ \A s \in Sessions : session[s] # "new" => pEpt[s] \in Epts
  /\ \A e \in Epts : asked[e] # None => session[asked[e]] \notin {"new", "made"}

\* refCount counts them, and all of them have the one that is listed.
HoldersCounted ==
  /\ refCount = Cardinality(Holders)
  /\ \A s \in Holders : pEpt[s] = inEpts
  /\ inEpts # None /\ apc # "erasing" => Holders # {}
  /\ apc = "erasing" => Holders = {}
  /\ apc = "pushing" => inEpts = None

\* Sessions and endpoints are used in order, and no endpoint without a session.
UsedInOrder ==
  /\ \A s, r \in Sessions : session[s] # "new" /\ r < s => session[r] # "new"
  /\ \A e, d \in Epts : ept[e] # "unused" /\ d < e => ept[d] # "unused"
  /\ \A e \in Epts : ept[e] # "unused" => session[e] # "new"
  /\ \A e \in Epts : ept[e] = "unused" <=> pc[e] = "none"

\* What is referred to was made.
RefersToUsed ==
  /\ \A s \in Sessions : session[s] # "new" => ept[pEpt[s]] # "unused"
  /\ \A t \in Packets : life[t] # "none" => ept[refEndPoint[t]] # "unused"

\* An endpoint receives while it is listed, or about to be, and until its last
\* session drops it.
ReceivingIsListed ==
  /\ \A e \in Epts : recving[e] =>
       /\ ept[e] = "live"
       /\ \/ e = inEpts /\ apc # "erasing"
          \/ apc = "pushing" /\ e = pEpt[who]
  /\ apc = "pushing" =>
       /\ \A s \in Sessions : session[s] # "new" /\ s # who => pEpt[s] # pEpt[who]
       /\ \A t \in Packets : life[t] # "none" => refEndPoint[t] # pEpt[who]

\* A deleted queue stays listed only with an endpoint that was stopped.
StaleIsStopped ==
  /\ \A e \in Epts : \A t \in ToSet(recvIOQs[e]) :
       life[t] # "listed" => ~recving[e]
  /\ victim # None /\ life[victim] = "listed" /\ vnode # refEndPoint[victim] =>
       ~recving[refEndPoint[victim]]

\* The walk of a cache stays inside it or is lost.
CachesBounded ==
  /\ \A e \in Epts : pc[e] = "pushing" => Len(recvCache[e]) < CacheSize
  /\ \A e \in Epts : pc[e] = "flushing" => walk[e] <= Len(recvCache[refEndPoint[hand[e]]]) + 1

\* What holds until a release meets a packet or a deletion.
Unraced ==
  /\ apc \in Releasing => victim = None /\ \A e \in Epts : ~Inside(e)
  /\ \A e \in Epts : Inside(e) => recving[e]
  /\ \A e \in Epts : pc[e] = "creating" => session[asked[e]] = "active"
  /\ \A e \in Epts : pc[e] = "registering" => node[e] \in {None, inEpts}
  /\ \A e \in Epts : pc[e] \in Making \cup Locked => refEndPoint[hand[e]] = e
  /\ \A e \in Epts : pc[e] = "flushing" => walk[e] >= 1
  /\ \A e \in Epts : pc[e] = "replacing" => recvCache[e] # <<>>
  /\ victim # None => vnode \in {None, inEpts}

\* A looper looks at the talk while it delegates.  What it has read is the talk
\* that is there, unless one was deleted since.
LooksAreLive ==
  /\ \A e \in Epts : look[e] # "none" <=> pc[e] \in {"looking", "asking"}
  /\ \A e \in Epts : look[e] \in {"null", "freed"} => e \in overtaken
  /\ \A e \in Epts : look[e] = "tested" /\ recSource # "alive" => e \in overtaken
  /\ \A e \in Epts : look[e] = "alive" => recSource = "alive"
  /\ crashed => raced \/ overtaken # {}

\* A packet is in one place.
OwnedOnce ==
  /\ \A e, f \in Epts : hand[e] = hand[f] /\ hand[e] # None => e = f
  /\ \A e \in Epts : IsInjective(recvCache[e])
  /\ \A e, f \in Epts : e # f => ToSet(recvCache[e]) \cap ToSet(recvCache[f]) = {}
  /\ \A e, f \in Epts : hand[e] \notin ToSet(recvCache[f])
  /\ \A t, u \in Packets : t # u => got[t] \cap got[u] = {}
  /\ \A e \in Epts, t \in Packets : hand[e] \notin got[t] /\ ToSet(recvCache[e]) \cap got[t] = {}
  /\ \A e \in Epts : ToSet(recvCache[e]) \subseteq arrived
  /\ \A t \in Packets : got[t] \subseteq arrived

IInv ==
  /\ TypeOK
  /\ HandsInside
  /\ LivesInStep
  /\ LockedOnce
  /\ QueuesListedOnce
  /\ SessionPlaces
  /\ HoldersCounted
  /\ UsedInOrder
  /\ RefersToUsed
  /\ ReceivingIsListed
  /\ StaleIsStopped
  /\ CachesBounded
  /\ (~raced => Unraced)
  /\ OwnedOnce
  /\ LooksAreLive

USE DEF vars, manager, content, looper, queue, trans, application, scheduler, talk, sent, looking
-----------------------------------------------------------------------------
(* Lists *)

LEMMA LeastNumber ==
  ASSUME NEW T \in SUBSET Nat, T # {}
  PROVE  \E x \in T : \A y \in T : x <= y
<1>1. \E x \in T : \A y \in T : ~(<<y, x>> \in OpToRel(<, Nat))
  BY NatLessThanWellFounded, WFMin, Zenon
<1>2. \A x, y \in Nat : <<y, x>> \in OpToRel(<, Nat) <=> y < x
  BY DEF OpToRel
<1>3. \A x, y \in Nat : ~(y < x) => x <= y
  OBVIOUS
<1> QED
  BY <1>1, <1>2, <1>3

\* RemoveFirst takes out one occurrence, if there is any.
LEMMA RemoveFirstAt ==
  ASSUME NEW S, NEW s \in Seq(S), NEW e, e \in ToSet(s)
  PROVE  \E i \in 1 .. Len(s) : s[i] = e /\ RemoveFirst(s, e) = RemoveAt(s, i)
<1> DEFINE I == {i \in 1 .. Len(s) : s[i] = e}
<1>1. I # {} /\ I \in SUBSET Nat
  BY DEF ToSet
<1>2. Min(I) \in I
  BY <1>1, LeastNumber DEF Min
<1>3. RemoveFirst(s, e) = RemoveAt(s, Min(I))
  BY <1>1 DEF RemoveFirst, SelectInSeq
<1> QED
  BY <1>2, <1>3

LEMMA RemoveAtIndices ==
  ASSUME NEW S, NEW s \in Seq(S), NEW i \in 1 .. Len(s)
  PROVE  /\ RemoveAt(s, i) \in Seq(S)
         /\ Len(RemoveAt(s, i)) = Len(s) - 1
         /\ \A j \in 1 .. Len(s) - 1 :
              RemoveAt(s, i)[j] = IF j < i THEN s[j] ELSE s[j + 1]
<1> DEFINE a == SubSeq(s, 1, i - 1)
           b == SubSeq(s, i + 1, Len(s))
<1>1. Len(s) \in Nat /\ i \in Int
  OBVIOUS
<1>2. /\ a \in Seq(S) /\ Len(a) = i - 1
      /\ \A j \in 1 .. i - 1 : a[j] = s[j]
  OBVIOUS
<1>3. /\ b \in Seq(S) /\ Len(b) = Len(s) - i
      /\ \A j \in 1 .. Len(s) - i : b[j] = s[j + i]
  OBVIOUS
<1> HIDE DEF a, b
<1>4. /\ a \o b \in Seq(S) /\ Len(a \o b) = Len(s) - 1
      /\ \A j \in 1 .. Len(s) - 1 :
           (a \o b)[j] = IF j <= i - 1 THEN a[j] ELSE b[j - (i - 1)]
  <2>1. Len(a) + Len(b) = Len(s) - 1
    BY <1>1, <1>2, <1>3
  <2>2. /\ a \o b \in Seq(S) /\ Len(a \o b) = Len(a) + Len(b)
        /\ \A j \in 1 .. Len(a) + Len(b) :
             (a \o b)[j] = IF j <= Len(a) THEN a[j] ELSE b[j - Len(a)]
    BY <1>2, <1>3, ConcatProperties
  <2> QED
    BY <1>2, <2>1, <2>2
<1>5. ASSUME NEW j \in 1 .. Len(s) - 1
      PROVE  (a \o b)[j] = IF j < i THEN s[j] ELSE s[j + 1]
  <2>1. CASE j < i
    BY <1>1, <1>2, <1>4, <2>1
  <2>2. CASE ~(j < i)
    <3>1. j - (i - 1) \in 1 .. Len(s) - i /\ (j - (i - 1)) + i = j + 1
      BY <1>1, <2>2
    <3> QED
      BY <1>1, <1>3, <1>4, <2>2, <3>1
  <2> QED
    BY <2>1, <2>2
<1> QED
  BY <1>4, <1>5 DEF RemoveAt, a, b

LEMMA RemoveAtFromInjective ==
  ASSUME NEW S, NEW s \in Seq(S), NEW i \in 1 .. Len(s), IsInjective(s)
  PROVE  /\ IsInjective(RemoveAt(s, i))
         /\ ToSet(RemoveAt(s, i)) = ToSet(s) \ {s[i]}
<1> DEFINE r == RemoveAt(s, i)
<1>1. /\ r \in Seq(S) /\ Len(r) = Len(s) - 1 /\ Len(s) \in Nat
      /\ \A j \in 1 .. Len(s) - 1 : r[j] = IF j < i THEN s[j] ELSE s[j + 1]
  <2>1. Len(s) \in Nat
    OBVIOUS
  <2> QED
    BY <2>1, RemoveAtIndices
<1>2. DOMAIN r = 1 .. Len(s) - 1 /\ DOMAIN s = 1 .. Len(s)
  BY <1>1
<1> HIDE DEF r
<1>3. IsInjective(r)
  <2> SUFFICES ASSUME NEW j \in 1 .. Len(s) - 1, NEW k \in 1 .. Len(s) - 1, r[j] = r[k]
               PROVE  j = k
    BY <1>2 DEF IsInjective
  <2>1. \A x, y \in 1 .. Len(s) : s[x] = s[y] => x = y
    BY <1>2 DEF IsInjective
  <2>2. /\ j \in 1 .. Len(s) /\ j + 1 \in 1 .. Len(s)
        /\ k \in 1 .. Len(s) /\ k + 1 \in 1 .. Len(s)
    BY <1>1
  <2> QED
    BY <1>1, <2>1, <2>2
<1>4. ToSet(r) \subseteq ToSet(s) \ {s[i]}
  BY <1>1, <1>2 DEF ToSet, IsInjective
<1>5. ASSUME NEW j \in 1 .. Len(s), j # i PROVE s[j] \in ToSet(r)
  <2>1. CASE j < i
    BY <1>1, <1>2, <2>1 DEF ToSet
  <2>2. CASE j > i
    <3>1. j - 1 \in 1 .. Len(s) - 1 /\ ~(j - 1 < i) /\ (j - 1) + 1 = j
      BY <1>1, <2>2
    <3> QED
      BY <1>1, <1>2, <3>1 DEF ToSet
  <2> QED
    BY <1>5, <2>1, <2>2
<1>6. ToSet(r) = ToSet(s) \ {s[i]}
  BY <1>2, <1>4, <1>5 DEF ToSet
<1> QED
  BY <1>3, <1>6 DEF r

LEMMA AppendToInjective ==
  ASSUME NEW S, NEW s \in Seq(S), NEW e \in S
  PROVE  /\ Append(s, e) \in Seq(S)
         /\ ToSet(Append(s, e)) = ToSet(s) \cup {e}
         /\ IsInjective(s) /\ e \notin ToSet(s) => IsInjective(Append(s, e))
<1>1. /\ DOMAIN Append(s, e) = 1 .. Len(s) + 1 /\ DOMAIN s = 1 .. Len(s)
      /\ Len(s) \in Nat /\ Append(s, e)[Len(s) + 1] = e
      /\ \A i \in 1 .. Len(s) : Append(s, e)[i] = s[i]
      /\ Append(s, e) \in Seq(S)
  OBVIOUS
<1>2. ToSet(Append(s, e)) = ToSet(s) \cup {e}
  BY <1>1 DEF ToSet
<1>3. IsInjective(s) /\ e \notin ToSet(s) => IsInjective(Append(s, e))
  BY <1>1 DEF ToSet, IsInjective
<1> QED
  BY <1>1, <1>2, <1>3

LEMMA RemoveFirstFromInjective ==
  ASSUME NEW S, NEW s \in Seq(S), NEW e, IsInjective(s)
  PROVE  /\ RemoveFirst(s, e) \in Seq(S)
         /\ IsInjective(RemoveFirst(s, e))
         /\ ToSet(RemoveFirst(s, e)) = ToSet(s) \ {e}
<1>1. CASE e \notin ToSet(s)
  <2>1. RemoveFirst(s, e) = s
    BY <1>1 DEF RemoveFirst, SelectInSeq, ToSet
  <2> QED
    BY <1>1, <2>1
<1>2. CASE e \in ToSet(s)
  <2>1. PICK i \in 1 .. Len(s) : s[i] = e /\ RemoveFirst(s, e) = RemoveAt(s, i)
    BY <1>2, RemoveFirstAt
  <2> QED
    BY <2>1, RemoveAtIndices, RemoveAtFromInjective
<1> QED
  BY <1>1, <1>2

\* A full cache drops its first packet.
LEMMA DropFirst ==
  ASSUME NEW S, NEW s \in Seq(S), NEW n \in {0, 1}, n <= Len(s)
  PROVE  LET r == SubSeq(s, 1 + n, Len(s)) IN
         /\ r \in Seq(S) /\ Len(r) = Len(s) - n
         /\ ToSet(r) \subseteq ToSet(s)
         /\ IsInjective(s) => IsInjective(r)
<1> DEFINE r == SubSeq(s, 1 + n, Len(s))
<1>1. /\ r \in Seq(S) /\ Len(r) = Len(s) - n /\ Len(s) \in Nat
      /\ \A i \in 1 .. Len(s) - n : r[i] = s[i + n] /\ i + n \in 1 .. Len(s)
  OBVIOUS
<1>2. DOMAIN r = 1 .. Len(s) - n /\ DOMAIN s = 1 .. Len(s)
  BY <1>1
<1> HIDE DEF r
<1>3. ToSet(r) \subseteq ToSet(s)
  BY <1>1, <1>2 DEF ToSet
<1>4. ASSUME IsInjective(s) PROVE IsInjective(r)
  <2> SUFFICES ASSUME NEW i \in 1 .. Len(s) - n, NEW j \in 1 .. Len(s) - n, r[i] = r[j]
               PROVE  i = j
    BY <1>2 DEF IsInjective
  <2>1. s[i + n] = s[j + n] /\ i + n \in DOMAIN s /\ j + n \in DOMAIN s
    BY <1>1, <1>2
  <2>2. i + n = j + n
    BY <1>4, <2>1 DEF IsInjective
  <2> QED
    BY <1>1, <2>2
<1> QED
  BY <1>1, <1>3, <1>4 DEF r
-----------------------------------------------------------------------------
(* Constants, and the first state *)

LEMMA Constants ==
  /\ Epts = Sessions /\ Epts \subseteq Nat
  /\ None \notin Packets /\ None \notin Epts /\ None \notin Sessions /\ None \notin Ids
  /\ CacheSize \in Nat /\ CacheSize >= 1 /\ MaxRaises \in Nat
  /\ IsFiniteSet(Sessions) /\ Cardinality(Sessions) = MaxRaises
<1>1. IsFiniteSet(1 .. MaxRaises) /\ Cardinality(1 .. MaxRaises) = MaxRaises
  <2>1. IsFiniteSet(1 .. MaxRaises)
        /\ Cardinality(1 .. MaxRaises) = IF 1 > MaxRaises THEN 0 ELSE MaxRaises - 1 + 1
    BY ReceiveAssumption, FS_Interval
  <2> QED
    BY <2>1, ReceiveAssumption
<1> QED
  BY <1>1, ReceiveAssumption DEF Epts, Sessions

LEMMA InitIInv == Init => IInv
<1> SUFFICES ASSUME Init PROVE IInv
  OBVIOUS
<1>1. TypeOK
  <2>1. /\ recvIOQs \in [Epts -> Seq(Packets)] /\ recvCache \in [Epts -> Seq(Packets)]
        /\ \A e \in Epts : Len(recvCache[e]) <= CacheSize
        /\ walk \in [Epts -> 0 .. CacheSize + 1]
    BY Constants DEF Init
  <2>2. refCount \in 0 .. Cardinality(Sessions)
    BY Constants DEF Init
  <2>3. talks \in 0 .. MaxTalks
    BY ReceiveAssumption DEF Init
  <2> QED
    BY <2>1, <2>2, <2>3, Constants DEF Init, TypeOK, Outside
<1>2. HandsInside /\ LivesInStep /\ LockedOnce /\ StaleIsStopped
  BY Constants DEF Init, HandsInside, LivesInStep, LockedOnce, StaleIsStopped, Inside, Outside,
    Making, Moving, Asked, Locked, ToSet
<1>3. QueuesListedOnce /\ OwnedOnce
  BY Constants DEF Init, QueuesListedOnce, OwnedOnce, IsInjective, ToSet
<1>4. SessionPlaces /\ UsedInOrder /\ RefersToUsed /\ ReceivingIsListed
  BY Constants DEF Init, SessionPlaces, UsedInOrder, RefersToUsed, ReceivingIsListed, Releasing
<1>5. HoldersCounted
  <2>1. Holders = {}
    BY Constants DEF Init, Holders
  <2> QED
    BY <2>1, FS_EmptySet DEF Init, HoldersCounted
<1>6. CachesBounded /\ Unraced
  BY Constants DEF Init, CachesBounded, Unraced, Inside, Outside, Releasing, Making, Moving, Asked, Locked
<1>7. LooksAreLive
  BY DEF Init, LooksAreLive
<1> QED
  BY <1>1, <1>2, <1>3, <1>4, <1>5, <1>6, <1>7 DEF IInv
-----------------------------------------------------------------------------
(* Types and places *)

LEMMA Shapes ==
  ASSUME TypeOK
  PROVE  /\ DOMAIN ept = Epts /\ DOMAIN recving = Epts
         /\ DOMAIN recvIOQs = Epts /\ DOMAIN recvCache = Epts
         /\ DOMAIN pc = Epts /\ DOMAIN hand = Epts /\ DOMAIN asked = Epts
         /\ DOMAIN node = Epts /\ DOMAIN walk = Epts /\ DOMAIN look = Epts
         /\ DOMAIN life = Packets /\ DOMAIN refEndPoint = Packets /\ DOMAIN got = Packets
         /\ DOMAIN session = Sessions /\ DOMAIN sid = Sessions /\ DOMAIN pEpt = Sessions
  BY DEF TypeOK

\* A looper that is inside has a packet.
LEMMA InHand ==
  ASSUME TypeOK, HandsInside, NEW e \in Epts, pc[e] \notin Outside
  PROVE  hand[e] \in Packets /\ hand[e] \in arrived
  BY DEF TypeOK, HandsInside, Inside
-----------------------------------------------------------------------------
(* Objects are used in order *)

LEMMA Prefix ==
  ASSUME NEW N \in Nat, NEW U \in SUBSET (1 .. N), U # 1 .. N,
         \A i \in U : \A j \in 1 .. N : j < i => j \in U
  PROVE  /\ 1 + Cardinality(U) \in 1 .. N
         /\ \A i \in 1 .. N : i \in U <=> i < 1 + Cardinality(U)
<1>1. (1 .. N) \ U # {} /\ (1 .. N) \ U \in SUBSET Nat
  <2>1. (1 .. N) \ U # {}
    BY Zenon
  <2> QED
    BY <2>1
<1>2. PICK m \in (1 .. N) \ U : \A j \in (1 .. N) \ U : m <= j
  BY <1>1, LeastNumber
<1>3. \A i \in 1 .. N : i \in U <=> i < m
  BY <1>2
<1>4. U = 1 .. m - 1
  <2>1. \A i \in 1 .. N : i < m <=> i \in 1 .. m - 1
    BY <1>2
  <2>2. \A i : i \in U => i \in 1 .. m - 1
    BY <1>3, <2>1
  <2>3. \A i \in 1 .. m - 1 : i \in 1 .. N /\ i < m
    BY <1>2
  <2> QED
    BY <1>3, <2>2, <2>3
<1>5. Cardinality(1 .. m - 1) = m - 1
  <2>1. m - 1 \in Int /\ 1 \in Int /\ m \in Nat /\ m >= 1
    BY <1>2
  <2>2. Cardinality(1 .. m - 1) = IF 1 > m - 1 THEN 0 ELSE (m - 1) - 1 + 1
    BY <2>1, FS_Interval
  <2> QED
    BY <2>1, <2>2
<1>6. 1 + Cardinality(U) = m
  BY <1>2, <1>4, <1>5
<1> QED
  BY <1>2, <1>3, <1>6

\* The next session is new, and there is an endpoint for it.
LEMMA NextObjects ==
  ASSUME TypeOK, UsedInOrder, NextSession \in Sessions
  PROVE  /\ \A s \in Sessions : session[s] # "new" <=> s < NextSession
         /\ NextEpt \in Epts
         /\ \A e \in Epts : ept[e] # "unused" <=> e < NextEpt
         /\ NextEpt <= NextSession
<1> DEFINE S == {s \in Sessions : session[s] # "new"}
           E == {e \in Epts : ept[e] # "unused"}
<1>1. S \in SUBSET (1 .. MaxRaises) /\ E \in SUBSET (1 .. MaxRaises) /\ E \subseteq S
  BY DEF Sessions, Epts, UsedInOrder
<1>2. NextSession = 1 + Cardinality(S) /\ NextEpt = 1 + Cardinality(E)
  BY DEF NextSession, NextEpt
<1>3. /\ \A i \in S : \A j \in 1 .. MaxRaises : j < i => j \in S
      /\ \A i \in E : \A j \in 1 .. MaxRaises : j < i => j \in E
  BY DEF Sessions, Epts, UsedInOrder
<1>4. S # 1 .. MaxRaises
  <2>1. NextSession # 1 + MaxRaises
    BY Constants DEF Sessions
  <2>2. Cardinality(1 .. MaxRaises) = MaxRaises
    BY Constants DEF Sessions
  <2> HIDE DEF S
  <2> QED
    BY <1>2, <2>1, <2>2
<1> HIDE DEF S, E
<1>5. /\ \A i \in 1 .. MaxRaises : i \in S <=> i < NextSession
      /\ NextSession \in 1 .. MaxRaises
  BY <1>1, <1>2, <1>3, <1>4, Constants, Prefix
<1>6. /\ \A i \in 1 .. MaxRaises : i \in E <=> i < NextEpt
      /\ NextEpt \in 1 .. MaxRaises
  BY <1>1, <1>2, <1>3, <1>4, Constants, Prefix
<1>7. ~(NextSession < NextEpt)
  BY <1>1, <1>5, <1>6
<1> QED
  BY <1>5, <1>6, <1>7 DEF S, E, Sessions, Epts
-----------------------------------------------------------------------------
(* The packets in hand *)

\* What a new session finds.
LEMMA Fresh ==
  ASSUME IInv, NextSession \in Sessions
  PROVE  /\ session[NextSession] = "new" /\ NextSession # who
         /\ \A s \in Sessions : session[s] # "new" <=> s < NextSession
         /\ NextEpt \in Epts /\ NextEpt <= NextSession
         /\ ept[NextEpt] = "unused" /\ pc[NextEpt] = "none" /\ ~recving[NextEpt]
         /\ \A e \in Epts : ept[e] # "unused" <=> e < NextEpt
         /\ \A s \in Sessions : session[s] # "new" => pEpt[s] # NextEpt
         /\ \A t \in Packets : life[t] # "none" => refEndPoint[t] # NextEpt
<1>1. /\ \A s \in Sessions : session[s] # "new" <=> s < NextSession
      /\ NextEpt \in Epts /\ NextEpt <= NextSession
      /\ \A e \in Epts : ept[e] # "unused" <=> e < NextEpt
  BY NextObjects DEF IInv
<1>2. ~(NextSession < NextSession) /\ ~(NextEpt < NextEpt)
  BY <1>1, Constants
<1>3. session[NextSession] = "new" /\ ept[NextEpt] = "unused"
  BY <1>1, <1>2
<1>4. NextSession # who
  BY <1>3, Constants DEF IInv, SessionPlaces, TypeOK
<1>5. pc[NextEpt] = "none" /\ ~recving[NextEpt]
  BY <1>1, <1>3 DEF IInv, UsedInOrder, ReceivingIsListed
<1>6. /\ \A s \in Sessions : session[s] # "new" => pEpt[s] # NextEpt
      /\ \A t \in Packets : life[t] # "none" => refEndPoint[t] # NextEpt
  BY <1>3 DEF IInv, RefersToUsed
<1> QED
  BY <1>1, <1>3, <1>4, <1>5, <1>6

\* The lookup by id.
LEMMA LookedUp ==
  ASSUME TypeOK, NEW e \in Epts, Trigger(e)
  PROVE  /\ asked' = [asked EXCEPT ![e] = asked'[e]] /\ asked'[e] \in Active(Me) \cup {None}
         /\ Goto(e, IF asked'[e] = None THEN "testing" ELSE "creating")
  BY Shapes DEF Trigger

-----------------------------------------------------------------------------
(* The steps, as the rest of the state sees them *)

\* Nothing but the talk, the looks at it and the end of the program.
Elsewhere == UNCHANGED <<manager, ept, recving, content, looper, trans, application, scheduler, raced>>

\* A looper moves on in delegate.
Moves(e) ==
  /\ pc[e] \in Moving
  /\ \E place \in Asked : Goto(e, place)
  /\ UNCHANGED <<manager, ept, recving, content, hand, asked, node, walk, arrived, trans, application, scheduler, raced>>

Handles(e) ==
  \/ LoopTest(e) \/ SelectEnds(e) \/ Deliver(e) \/ NotDelivered(e) \/ Trigger(e)
  \/ Create(e) \/ Moves(e) \/ DelegateRefused(e) \/ Delegate(e) \/ Register(e)
  \/ Flush(e) \/ FlushEnds(e) \/ EncacheTest(e) \/ Encache(e)

Steps ==
  \/ \E e \in Epts : Handles(e) \/ \E p \in Packets : Receive(e, p)
  \/ \E t \in Packets : Silence(t) \/ Reclaim(t)
  \/ Delete
  \/ \E id \in Ids : RaiseShared(id) \/ RaiseNew(id)
  \/ Call
  \/ \E s \in Sessions : ReleaseSession(s)
  \/ Elsewhere

LEMMA NextSteps == IInv /\ [Next]_vars => Steps
<1> SUFFICES ASSUME IInv, [Next]_vars PROVE Steps
  OBVIOUS
<1>1. ASSUME NEW e \in Epts, DelegateTest(e) PROVE Moves(e)
  BY <1>1 DEF DelegateTest, Moves, Moving, Asked
<1>2. ASSUME NEW e \in Epts, LookFetch(e) PROVE Elsewhere
  BY <1>2 DEF LookFetch, Elsewhere
<1>3. ASSUME NEW e \in Epts, LookAsk(e) PROVE Moves(e) \/ Elsewhere
  <2>1. CASE look[e] = "null"
    BY <1>3, <2>1 DEF LookAsk, Elsewhere
  <2>2. CASE look[e] # "null"
    <3>1. pc[e] \in Moving
      BY <1>3, <2>2 DEF LookAsk, IInv, LooksAreLive, Moving
    <3>2. \E place \in Asked : Goto(e, place)
      BY <1>3, <2>2 DEF LookAsk, Asked
    <3> QED
      BY <1>3, <2>2, <3>1, <3>2 DEF LookAsk, Moves
  <2> QED
    BY <2>1, <2>2
<1>4. ASSUME TalkBegins \/ TalkDeleted \/ TalkForgotten \/ Crash \/ UNCHANGED vars PROVE Elsewhere
  BY <1>4 DEF TalkBegins, TalkDeleted, TalkForgotten, Crash, Elsewhere
<1> QED
  BY <1>1, <1>2, <1>3, <1>4 DEF Next, Handle, Handles, Steps
-----------------------------------------------------------------------------
(* What each step keeps *)

LEMMA HandsInsideKept == IInv /\ [Next]_vars => HandsInside'
<1> SUFFICES ASSUME IInv, [Next]_vars PROVE HandsInside'
  OBVIOUS
<1>0. TypeOK /\ HandsInside
  BY DEF IInv
<1>1. ASSUME NEW e \in Epts,
             LoopTest(e) \/ NotDelivered(e) \/ DelegateRefused(e)
               \/ Delegate(e) \/ FlushEnds(e) \/ EncacheTest(e)
      PROVE  HandsInside'
  BY <1>0, <1>1, Shapes DEF HandsInside, Inside, Outside, Goto, LoopTest, NotDelivered,
    DelegateRefused, Delegate, FlushEnds, EncacheTest
<1>2. ASSUME NEW e \in Epts, SelectEnds(e) PROVE HandsInside'
  <2>1. PICK place \in {"top", "ended"} : Goto(e, place)
    BY <1>2 DEF SelectEnds
  <2> QED
    BY <1>0, <1>2, <2>1, Shapes DEF HandsInside, Inside, Outside, Goto, SelectEnds
<1>3. ASSUME NEW e \in Epts, Deliver(e) \/ Create(e) \/ Encache(e) PROVE HandsInside'
  BY <1>0, <1>3, Shapes, Constants DEF HandsInside, Inside, Outside, Goto, Deliver, Create, Encache
<1>4. ASSUME NEW e \in Epts, Register(e) PROVE HandsInside'
  BY <1>0, <1>4, Shapes DEF HandsInside, Inside, Outside, Goto, Register
<1>5. ASSUME NEW e \in Epts, Trigger(e) PROVE HandsInside'
  BY <1>0, <1>5, Shapes DEF HandsInside, Inside, Outside, Goto, Trigger
<1>6. ASSUME NEW e \in Epts, NEW p \in Packets, Receive(e, p) PROVE HandsInside'
  BY <1>0, <1>6, Shapes, Constants DEF HandsInside, Inside, Outside, Goto, Receive
<1>7. ASSUME NEW id \in Ids, RaiseNew(id) PROVE HandsInside'
  BY <1>0, <1>7, Shapes, Fresh DEF HandsInside, Inside, Outside, Goto, RaiseNew
<1>8. CASE UNCHANGED <<pc, hand, asked, arrived>>
  BY <1>0, <1>8 DEF HandsInside, Inside
<1>11. ASSUME NEW e \in Epts, Moves(e) PROVE HandsInside'
  <2>1. PICK place \in Asked : Goto(e, place)
    BY <1>11 DEF Moves
  <2>2. pc[e] \in Moving /\ UNCHANGED <<hand, asked, arrived>>
    BY <1>11 DEF Moves
  <2> QED
    BY <1>0, <2>1, <2>2, Shapes DEF HandsInside, Inside, Outside, Goto, Moving, Asked
<1>9. ASSUME NEW e \in Epts, Flush(e) PROVE UNCHANGED <<pc, hand, asked, arrived>>
  BY <1>9 DEF Flush
<1>10. ASSUME Delete \/ Call \/ Elsewhere \/ (\E id \in Ids : RaiseShared(id))
                \/ (\E t \in Packets : Silence(t) \/ Reclaim(t)) \/ (\E s \in Sessions : ReleaseSession(s))
       PROVE  UNCHANGED <<pc, hand, asked, arrived>>
  BY <1>10 DEF Delete, Call, Unregister, DeleteQueue, DropEndPoint, ListEndPoint, Insert, Drop, Erase,
    Clear, Free, Elsewhere, RaiseShared, Silence, Reclaim, ReleaseSession
<1> QED
  BY <1>1, <1>2, <1>3, <1>4, <1>5, <1>6, <1>7, <1>8, <1>9, <1>10, <1>11, NextSteps DEF Steps, Handles

LEMMA LivesInStepKept == IInv /\ [Next]_vars => LivesInStep'
<1> SUFFICES ASSUME IInv, [Next]_vars PROVE LivesInStep'
  OBVIOUS
<1>0. /\ TypeOK /\ HandsInside /\ LivesInStep /\ LockedOnce
      /\ \A e, f \in Epts : hand[e] = hand[f] /\ hand[e] # None => e = f
  BY DEF IInv, OwnedOnce
<1>1. ASSUME NEW e \in Epts,
             LoopTest(e) \/ NotDelivered(e) \/ FlushEnds(e) \/ EncacheTest(e)
      PROVE  LivesInStep'
  BY <1>0, <1>1, Shapes DEF LivesInStep, Making, Moving, Asked, Locked, Goto, LoopTest, NotDelivered,
    FlushEnds, EncacheTest
<1>2. ASSUME NEW e \in Epts, SelectEnds(e) PROVE LivesInStep'
  <2>1. PICK place \in {"top", "ended"} : Goto(e, place)
    BY <1>2 DEF SelectEnds
  <2> QED
    BY <1>0, <1>2, <2>1, Shapes DEF LivesInStep, Making, Moving, Asked, Locked, Goto, SelectEnds
<1>3. ASSUME NEW e \in Epts, Deliver(e) \/ Encache(e) PROVE LivesInStep'
  <2>1. Goto(e, "top") /\ hand' = [hand EXCEPT ![e] = None]
        /\ UNCHANGED <<life, refEndPoint, arrived, victim>>
    BY <1>3 DEF Deliver, Encache
  <2> QED
    BY <1>0, <2>1, Shapes DEF LivesInStep, Making, Moving, Asked, Locked, Goto
<1>4. ASSUME NEW e \in Epts, Register(e) PROVE LivesInStep'
  BY <1>0, <1>4, Shapes DEF LivesInStep, Making, Moving, Asked, Locked, Goto, Register
<1>5. ASSUME NEW e \in Epts, Trigger(e) PROVE LivesInStep'
  BY <1>0, <1>5, Shapes DEF LivesInStep, Making, Moving, Asked, Locked, Goto, Trigger
<1>6. ASSUME NEW e \in Epts, NEW p \in Packets, Receive(e, p) PROVE LivesInStep'
  <2>1. life[p] = "none"
    BY <1>0, <1>6 DEF LivesInStep, Receive
  <2> QED
    BY <1>0, <1>6, <2>1, Shapes DEF LivesInStep, Making, Moving, Asked, Locked, Goto, Receive
<1>7. ASSUME NEW id \in Ids, RaiseNew(id) PROVE LivesInStep'
  BY <1>0, <1>7, Shapes, Fresh DEF LivesInStep, Making, Moving, Asked, Locked, Goto, RaiseNew
<1>8. ASSUME NEW e \in Epts, Create(e) PROVE LivesInStep'
  <2>1. asked[e] \in Sessions /\ session[asked[e]] # "new" /\ pEpt[asked[e]] \in Epts
    BY <1>0, <1>8 DEF Create, IInv, SessionPlaces, HandsInside, TypeOK
  <2>2. hand[e] \in Packets /\ hand[e] \in arrived /\ hand[e] # None
    BY <1>0, <1>8, InHand, Constants DEF Create, Outside
  <2>3. \A f \in Epts : f # e /\ Inside(f) => hand[f] # hand[e]
    BY <1>0, <2>2
  <2> QED
    BY <1>0, <1>8, <2>1, <2>2, <2>3, Shapes DEF LivesInStep, Making, Moving, Asked, Locked, Goto, Create, Inside, Outside
<1>9. ASSUME NEW e \in Epts, DelegateRefused(e) \/ Delegate(e) PROVE LivesInStep'
  <2>1. pc[e] \in {"refused", "locking"}
    BY <1>9 DEF DelegateRefused, Delegate
  <2>2. hand[e] \in Packets /\ hand[e] \in arrived /\ hand[e] # None
    BY <1>0, <2>1, InHand, Constants DEF Outside
  <2>3. \A f \in Epts : f # e /\ Inside(f) => hand[f] # hand[e]
    BY <1>0, <2>2
  <2>4. victim # hand[e] /\ (victim # None => victim \in Packets) /\ life[hand[e]] = "made"
    BY <1>0, <2>1, <2>2 DEF LivesInStep, Making, Asked, TypeOK
  <2>5. PICK place \in {"testing", "registering"}, l \in {"gone", "listed"} :
          /\ Goto(e, place) /\ life' = [life EXCEPT ![hand[e]] = l]
          /\ place = "registering" => l = "listed"
    BY <1>9 DEF DelegateRefused, Delegate
  <2>6. UNCHANGED <<hand, refEndPoint, arrived, victim>>
    BY <1>9 DEF DelegateRefused, Delegate
  <2>7. /\ \A f \in Epts : f # e => pc'[f] = pc[f] /\ (Inside(f) => life'[hand[f]] = life[hand[f]])
        /\ pc'[e] = place /\ life'[hand[e]] = l
        /\ \A t \in Packets : t # hand[e] => life'[t] = life[t]
    BY <1>0, <2>2, <2>3, <2>5, Shapes DEF Goto
  <2> QED
    BY <1>0, <2>2, <2>4, <2>5, <2>6, <2>7 DEF LivesInStep, Making, Moving, Asked, Locked, Inside, Outside
<1>10. ASSUME Unregister \/ DeleteQueue \/ DropEndPoint \/ \E t \in Packets : Reclaim(t)
       PROVE  LivesInStep'
  <2>1. CASE \E t \in Packets : Reclaim(t)
    BY <1>0, <2>1, Constants DEF LivesInStep, Reclaim
  <2>2. CASE Unregister \/ DeleteQueue \/ DropEndPoint
    <3>1. victim # None /\ victim \in Packets /\ life[victim] \in {"listed", "removed", "deleted"}
      BY <1>0, <2>2 DEF Unregister, DeleteQueue, DropEndPoint, LivesInStep, TypeOK
    <3>2. \A e \in Epts : pc[e] \in {"got", "trigger", "creating"} \cup Making => hand[e] # victim
      BY <1>0, <3>1 DEF LivesInStep
    <3>3. PICK l \in {"removed", "deleted", "gone"} :
            /\ life' = [life EXCEPT ![victim] = l]
            /\ (victim' = victim /\ l # "gone") \/ victim' = None
      BY <2>2 DEF Unregister, DeleteQueue, DropEndPoint
    <3>4. UNCHANGED <<pc, hand, arrived, refEndPoint>>
      BY <2>2 DEF Unregister, DeleteQueue, DropEndPoint
    <3>5. \A e \in Epts : pc[e] \notin Locked
      BY <1>0, <3>1 DEF LockedOnce
    <3> QED
      BY <1>0, <3>1, <3>2, <3>3, <3>4, <3>5, Shapes DEF LivesInStep
  <2> QED
    BY <1>10, <2>1, <2>2
<1>11. CASE UNCHANGED <<pc, hand, life, arrived, refEndPoint, victim>>
  BY <1>0, <1>11 DEF LivesInStep
<1>14. ASSUME NEW e \in Epts, Moves(e) PROVE LivesInStep'
  <2>1. PICK place \in Asked : Goto(e, place)
    BY <1>14 DEF Moves
  <2>2. pc[e] \in Moving /\ UNCHANGED <<hand, life, arrived, refEndPoint, victim>>
    BY <1>14 DEF Moves
  <2> QED
    BY <1>0, <2>1, <2>2, Shapes DEF LivesInStep, Making, Moving, Asked, Locked, Goto
<1>12. ASSUME NEW e \in Epts, Flush(e) PROVE UNCHANGED <<pc, hand, life, arrived, refEndPoint, victim>>
  BY <1>12 DEF Flush
<1>13. ASSUME Call \/ Elsewhere \/ (\E id \in Ids : RaiseShared(id)) \/ (\E t \in Packets : Silence(t))
                \/ (\E s \in Sessions : ReleaseSession(s))
       PROVE  UNCHANGED <<pc, hand, life, arrived, refEndPoint, victim>>
  BY <1>13 DEF Call, ListEndPoint, Insert, Drop, Erase, Clear, Free, Elsewhere, RaiseShared, Silence,
    ReleaseSession
<1> QED
  BY <1>1, <1>2, <1>3, <1>4, <1>5, <1>6, <1>7, <1>8, <1>9, <1>10, <1>11, <1>12, <1>13, <1>14, NextSteps
  DEF Steps, Handles, Delete

LEMMA LockedOnceKept == IInv /\ [Next]_vars => LockedOnce'
<1> SUFFICES ASSUME IInv, [Next]_vars PROVE LockedOnce'
  OBVIOUS
<1>0. TypeOK /\ LockedOnce
  BY DEF IInv
<1>1. ASSUME NEW e \in Epts,
             \/ LoopTest(e) \/ SelectEnds(e) \/ Deliver(e) \/ NotDelivered(e) \/ Trigger(e)
             \/ Create(e) \/ Moves(e) \/ DelegateRefused(e) \/ FlushEnds(e)
             \/ EncacheTest(e) \/ Encache(e) \/ \E p \in Packets : Receive(e, p)
      PROVE  LockedOnce'
  <2>1. \/ \E place \in {"top", "select", "ended", "got", "trigger", "testing"} : Goto(e, place)
        \/ \E place \in {"creating", "delegating", "pushing", "replacing"} \cup Asked : Goto(e, place)
    <3>1. CASE LoopTest(e) \/ SelectEnds(e) \/ NotDelivered(e) \/ FlushEnds(e) \/ DelegateRefused(e)
      BY <3>1 DEF LoopTest, SelectEnds, NotDelivered, FlushEnds, DelegateRefused
    <3>2. CASE Deliver(e) \/ Encache(e) \/ EncacheTest(e) \/ \E p \in Packets : Receive(e, p)
      BY <3>2 DEF Deliver, Encache, EncacheTest, Receive
    <3>3. CASE Trigger(e) \/ Create(e) \/ Moves(e)
      BY <3>3 DEF Trigger, Create, Moves
    <3> QED
      BY <1>1, <3>1, <3>2, <3>3
  <2>2. UNCHANGED victim
    BY <1>1 DEF LoopTest, SelectEnds, Deliver, NotDelivered, Trigger, Create, Moves,
      DelegateRefused, FlushEnds, EncacheTest, Encache, Receive
  <2> QED
    BY <1>0, <2>1, <2>2, Shapes DEF LockedOnce, Locked, Goto, Asked
<1>2. ASSUME NEW e \in Epts, Delegate(e) \/ Register(e) PROVE LockedOnce'
  <2>1. PICK place : Goto(e, place)
    BY <1>2 DEF Delegate, Register
  <2>2. pc[e] \in Locked \/ \A f \in Epts : pc[f] \notin Locked
    BY <1>2 DEF Delegate, Register, Locked, EvMutexFree
  <2>3. victim' = victim /\ (pc[e] \in Locked \/ victim = None)
    BY <1>2 DEF Delegate, Register, Locked, EvMutexFree
  <2> QED
    BY <1>0, <2>1, <2>2, <2>3, Shapes DEF LockedOnce, Goto
<1>3. ASSUME NEW id \in Ids, RaiseNew(id) PROVE LockedOnce'
  BY <1>0, <1>3, Shapes, Fresh DEF LockedOnce, Locked, Goto, RaiseNew
<1>4. ASSUME DropEndPoint \/ \E t \in Packets : Reclaim(t) PROVE LockedOnce'
  BY <1>0, <1>4 DEF LockedOnce, Locked, DropEndPoint, Reclaim, EvMutexFree
<1>5. CASE UNCHANGED <<pc, victim>>
  BY <1>0, <1>5 DEF LockedOnce
<1>6. ASSUME \/ Unregister \/ DeleteQueue \/ Call \/ Elsewhere \/ (\E e \in Epts : Flush(e))
             \/ (\E id \in Ids : RaiseShared(id)) \/ (\E t \in Packets : Silence(t))
             \/ (\E s \in Sessions : ReleaseSession(s))
      PROVE  UNCHANGED <<pc, victim>>
  BY <1>6 DEF Unregister, DeleteQueue, Flush, Call, ListEndPoint, Insert, Drop, Erase, Clear, Free,
    Elsewhere, RaiseShared, Silence, ReleaseSession
<1> QED
  BY <1>1, <1>2, <1>3, <1>4, <1>5, <1>6, NextSteps DEF Steps, Handles, Delete

\* Most steps of the loopers leave the transactions alone.
LEMMA QueuesListedOnceKept == IInv /\ [Next]_vars => QueuesListedOnce'
<1> SUFFICES ASSUME IInv, [Next]_vars PROVE QueuesListedOnce'
  OBVIOUS
<1>0. /\ TypeOK /\ HandsInside /\ LivesInStep /\ LockedOnce /\ QueuesListedOnce
      /\ \A e, f \in Epts : hand[e] = hand[f] /\ hand[e] # None => e = f
      /\ \A e \in Epts : recvIOQs[e] \in Seq(Packets) /\ ToSet(recvIOQs[e]) \subseteq Packets
  BY DEF IInv, OwnedOnce, TypeOK, ToSet
<1>1. ASSUME NEW e \in Epts, NEW place, place # "registering", Goto(e, place),
             UNCHANGED <<recvIOQs, refEndPoint, life>>,
             \A f \in Epts : f # e => hand'[f] = hand[f]
      PROVE  QueuesListedOnce'
  BY <1>0, <1>1, Shapes DEF QueuesListedOnce, Goto
<1>2. ASSUME NEW e \in Epts,
             \/ LoopTest(e) \/ SelectEnds(e) \/ NotDelivered(e) \/ Moves(e) \/ EncacheTest(e)
             \/ FlushEnds(e) \/ Trigger(e)
      PROVE  QueuesListedOnce'
  <2>1. \E place \in {"top", "select", "ended", "trigger", "testing", "pushing", "replacing",
                      "creating"} \cup Asked : Goto(e, place)
    BY <1>2 DEF LoopTest, SelectEnds, NotDelivered, Moves, EncacheTest, FlushEnds, Trigger
  <2>2. UNCHANGED <<recvIOQs, refEndPoint, life, hand>>
    BY <1>2 DEF LoopTest, SelectEnds, NotDelivered, Moves, EncacheTest, FlushEnds, Trigger
  <2> QED
    BY <1>1, <2>1, <2>2 DEF Asked
<1>3. ASSUME NEW e \in Epts, Deliver(e) \/ Encache(e) \/ \E p \in Packets : Receive(e, p)
      PROVE  QueuesListedOnce'
  <2>1. \E place \in {"top", "got"} : Goto(e, place)
    BY <1>3 DEF Deliver, Encache, Receive
  <2>2. /\ UNCHANGED <<recvIOQs, refEndPoint, life>>
        /\ \A f \in Epts : f # e => hand'[f] = hand[f]
    BY <1>0, <1>3, Shapes DEF Deliver, Encache, Receive
  <2> QED
    BY <1>1, <2>1, <2>2
<1>4. ASSUME NEW e \in Epts, Create(e) \/ DelegateRefused(e) \/ Delegate(e) PROVE QueuesListedOnce'
  <2>1. hand[e] \in Packets /\ hand[e] # None /\ life[hand[e]] \in {"none", "made"}
    BY <1>0, <1>4, InHand, Constants DEF Create, DelegateRefused, Delegate, LivesInStep, Making, Asked, Outside
  <2>2. \A f \in Epts : hand[e] \notin ToSet(recvIOQs[f])
    BY <1>0, <2>1 DEF QueuesListedOnce
  <2>3. PICK place : Goto(e, place)
    BY <1>4 DEF Create, DelegateRefused, Delegate
  <2>4. /\ UNCHANGED <<recvIOQs, hand>>
        /\ \A t \in Packets : t # hand[e] => refEndPoint'[t] = refEndPoint[t] /\ life'[t] = life[t]
    BY <1>0, <1>4, Shapes DEF Create, DelegateRefused, Delegate
  <2> QED
    BY <1>0, <2>1, <2>2, <2>3, <2>4, Shapes DEF QueuesListedOnce, Goto
<1>5. ASSUME NEW e \in Epts, Register(e) PROVE QueuesListedOnce'
  <2> DEFINE t == hand[e]
             f == refEndPoint[t]
  <2>1. /\ t \in Packets /\ life[t] = "listed" /\ f \in Epts
        /\ \A g \in Epts : t \notin ToSet(recvIOQs[g])
        /\ \A g \in Epts : g # e => pc[g] \notin Locked
    BY <1>0, <1>5, InHand DEF Register, LivesInStep, Locked, LockedOnce, QueuesListedOnce, Outside
  <2>2. \A g \in Epts : pc'[g] # "registering"
    BY <1>0, <1>5, <2>1, Shapes DEF Register, Goto, Locked
  <2>3. UNCHANGED <<refEndPoint, life, hand>>
    BY <1>5 DEF Register
  <2>4. CASE recvIOQs' = recvIOQs
    BY <1>0, <2>2, <2>3, <2>4 DEF QueuesListedOnce
  <2>5. CASE recvIOQs' = [recvIOQs EXCEPT ![f] = Append(@, t)]
    <3>1. /\ ToSet(Append(recvIOQs[f], t)) = ToSet(recvIOQs[f]) \cup {t}
          /\ IsInjective(Append(recvIOQs[f], t))
      BY <1>0, <2>1, AppendToInjective DEF QueuesListedOnce
    <3>2. \A g \in Epts : recvIOQs'[g] = IF g = f THEN Append(recvIOQs[f], t) ELSE recvIOQs[g]
      BY <1>0, <2>5, Shapes
    <3> QED
      BY <1>0, <2>1, <2>2, <2>3, <3>1, <3>2 DEF QueuesListedOnce
  <2> QED
    BY <1>5, <2>4, <2>5 DEF Register
<1>6. CASE Unregister
  <2> DEFINE f == refEndPoint[victim]
  <2>1. /\ victim \in Packets /\ UNCHANGED <<refEndPoint, hand, pc>>
        /\ \A t \in Packets : life'[t] \in {life[t], "removed"}
    BY <1>0, <1>6, Shapes DEF Unregister, TypeOK
  <2>2. CASE recvIOQs' = recvIOQs
    BY <1>0, <2>1, <2>2 DEF QueuesListedOnce
  <2>3. CASE recvIOQs' = [recvIOQs EXCEPT ![f] = RemoveFirst(@, victim)]
    <3>1. f \in Epts
      BY <1>0, <1>6, <2>1 DEF Unregister, LivesInStep
    <3>2. /\ ToSet(RemoveFirst(recvIOQs[f], victim)) \subseteq ToSet(recvIOQs[f])
          /\ IsInjective(RemoveFirst(recvIOQs[f], victim))
      BY <1>0, <3>1, RemoveFirstFromInjective DEF QueuesListedOnce
    <3>3. \A g \in Epts : recvIOQs'[g] = IF g = f THEN RemoveFirst(recvIOQs[f], victim) ELSE recvIOQs[g]
      BY <1>0, <2>3, Shapes
    <3> QED
      BY <1>0, <2>1, <3>1, <3>2, <3>3 DEF QueuesListedOnce
  <2> QED
    BY <1>6, <2>2, <2>3 DEF Unregister
<1>7. CASE DeleteQueue \/ DropEndPoint
  <2>1. /\ UNCHANGED <<recvIOQs, refEndPoint, hand, pc>> /\ victim \in Packets
        /\ \A t \in Packets : life'[t] \in {life[t], "deleted", "gone"}
    BY <1>0, <1>7, Shapes DEF DeleteQueue, DropEndPoint, TypeOK
  <2> QED
    BY <1>0, <2>1 DEF QueuesListedOnce
<1>8. ASSUME NEW id \in Ids, RaiseNew(id) PROVE QueuesListedOnce'
  <2>1. NextEpt \in Epts /\ Goto(NextEpt, "top")
    BY <1>8, Fresh DEF RaiseNew
  <2>2. UNCHANGED <<recvIOQs, refEndPoint, life, hand>>
    BY <1>8 DEF RaiseNew
  <2> QED
    BY <1>1, <2>1, <2>2
<1>9. CASE UNCHANGED <<recvIOQs, refEndPoint, life, pc, hand>>
  BY <1>0, <1>9 DEF QueuesListedOnce
<1>10. ASSUME \/ Call \/ Elsewhere \/ (\E e \in Epts : Flush(e))
              \/ (\E id \in Ids : RaiseShared(id)) \/ (\E t \in Packets : Silence(t) \/ Reclaim(t))
              \/ (\E s \in Sessions : ReleaseSession(s))
       PROVE  UNCHANGED <<recvIOQs, refEndPoint, life, pc, hand>>
  BY <1>10 DEF Flush, Call, ListEndPoint, Insert, Drop, Erase, Clear, Free, Elsewhere, RaiseShared,
    Silence, Reclaim, ReleaseSession
<1> QED
  BY <1>2, <1>3, <1>4, <1>5, <1>6, <1>7, <1>8, <1>9, <1>10, NextSteps DEF Steps, Handles, Delete

LEMMA SessionPlacesKept == IInv /\ [Next]_vars => SessionPlaces'
<1> SUFFICES ASSUME IInv, [Next]_vars PROVE SessionPlaces'
  OBVIOUS
<1>0. TypeOK /\ SessionPlaces /\ HoldersCounted
  BY DEF IInv
<1>1. ASSUME NEW e \in Epts, Trigger(e) \/ Create(e) PROVE SessionPlaces'
  <2>1. CASE Trigger(e)
    BY <1>0, <2>1, Shapes, Constants, LookedUp DEF SessionPlaces, Trigger, Active
  <2>2. CASE Create(e)
    BY <1>0, <2>2, Shapes, Constants DEF SessionPlaces, Create
  <2> QED
    BY <1>1, <2>1, <2>2
<1>2. ASSUME NEW id \in Ids, RaiseShared(id) \/ RaiseNew(id) PROVE SessionPlaces'
  <2> DEFINE s == NextSession
  <2>1. /\ s \in Sessions /\ session[s] = "new" /\ NextEpt \in Epts
        /\ apc = "idle" /\ who = None
    BY <1>0, <1>2, Fresh DEF RaiseShared, RaiseNew, SessionPlaces
  <2>2. /\ session' = [session EXCEPT ![s] = "made"] /\ who' = s
        /\ apc' \in {"pushing", "inserting"} /\ UNCHANGED asked
        /\ \E f \in Epts : pEpt' = [pEpt EXCEPT ![s] = f]
    BY <1>0, <1>2, <2>1 DEF RaiseShared, RaiseNew, TypeOK
  <2> HIDE DEF s
  <2> QED
    BY <1>0, <2>1, <2>2, Shapes, Constants DEF SessionPlaces, Releasing
<1>3. CASE ListEndPoint \/ Drop \/ Erase \/ Clear
  BY <1>0, <1>3, Constants DEF SessionPlaces, Releasing, ListEndPoint, Drop, Erase, Clear
<1>4. CASE Insert
  BY <1>0, <1>4, Shapes, Constants DEF SessionPlaces, Releasing, Insert
<1>5. CASE Free
  BY <1>0, <1>5, Shapes, Constants DEF SessionPlaces, Releasing, Free
<1>6. ASSUME NEW s \in Sessions, ReleaseSession(s) PROVE SessionPlaces'
  BY <1>0, <1>6, Shapes, Constants DEF SessionPlaces, Releasing, ReleaseSession
<1>7. CASE UNCHANGED <<apc, who, session, pEpt, asked>>
  BY <1>0, <1>7 DEF SessionPlaces
<1>8. ASSUME NEW e \in Epts,
             \/ LoopTest(e) \/ SelectEnds(e) \/ Deliver(e) \/ NotDelivered(e) \/ Moves(e)
             \/ DelegateRefused(e) \/ Delegate(e) \/ Register(e) \/ Flush(e) \/ FlushEnds(e)
             \/ EncacheTest(e) \/ Encache(e) \/ \E p \in Packets : Receive(e, p)
      PROVE  UNCHANGED <<apc, who, session, pEpt, asked>>
  BY <1>8 DEF LoopTest, SelectEnds, Deliver, NotDelivered, Moves, DelegateRefused, Delegate,
    Register, Flush, FlushEnds, EncacheTest, Encache, Receive
<1>9. ASSUME \/ Delete \/ Elsewhere \/ \E t \in Packets : Silence(t) \/ Reclaim(t)
      PROVE  UNCHANGED <<apc, who, session, pEpt, asked>>
  BY <1>9 DEF Delete, Unregister, DeleteQueue, DropEndPoint, Elsewhere, Silence, Reclaim
<1> QED
  BY <1>1, <1>2, <1>3, <1>4, <1>5, <1>6, <1>7, <1>8, <1>9, NextSteps DEF Steps, Handles, Call

LEMMA UsedInOrderKept == IInv /\ [Next]_vars => UsedInOrder'
<1> SUFFICES ASSUME IInv, [Next]_vars PROVE UsedInOrder'
  OBVIOUS
<1>0. TypeOK /\ UsedInOrder
  BY DEF IInv
\* A looper moves on, and no endpoint is used for the first time.
<1>1. ASSUME NEW e \in Epts, pc[e] # "none", NEW place, place # "none", Goto(e, place),
             UNCHANGED session,
             \A f \in Epts : ept[f] = "unused" <=> ept'[f] = "unused"
      PROVE  UsedInOrder'
  BY <1>0, <1>1, Shapes DEF UsedInOrder, Goto
<1>2. ASSUME NEW e \in Epts,
             \/ LoopTest(e) \/ SelectEnds(e) \/ Deliver(e) \/ NotDelivered(e) \/ Trigger(e)
             \/ Create(e) \/ Moves(e) \/ Delegate(e) \/ Register(e)
             \/ FlushEnds(e) \/ EncacheTest(e) \/ Encache(e) \/ \E p \in Packets : Receive(e, p)
      PROVE  UsedInOrder'
  <2>1. /\ pc[e] # "none" /\ UNCHANGED <<session, ept>>
    BY <1>2 DEF LoopTest, SelectEnds, Deliver, NotDelivered, Trigger, Create, Moves,
      Moving, Delegate, Register, FlushEnds, EncacheTest, Encache, Receive
  <2>2. \/ \E place \in {"top", "select", "ended", "got", "trigger", "testing"} : Goto(e, place)
        \/ \E place \in {"creating", "delegating", "registering", "flushing", "pushing", "replacing"} \cup Asked :
             Goto(e, place)
    <3>1. CASE LoopTest(e) \/ SelectEnds(e) \/ NotDelivered(e) \/ FlushEnds(e)
      BY <3>1 DEF LoopTest, SelectEnds, NotDelivered, FlushEnds
    <3>2. CASE Deliver(e) \/ Encache(e) \/ EncacheTest(e) \/ \E p \in Packets : Receive(e, p)
      BY <3>2 DEF Deliver, Encache, EncacheTest, Receive
    <3>3. CASE Trigger(e) \/ Create(e) \/ Moves(e) \/ Delegate(e) \/ Register(e)
      BY <3>3 DEF Trigger, Create, Moves, Delegate, Register
    <3> QED
      BY <1>2, <3>1, <3>2, <3>3
  <2> QED
    BY <1>1, <2>1, <2>2 DEF Asked
<1>3. ASSUME NEW e \in Epts, DelegateRefused(e) PROVE UsedInOrder'
  <2>1. /\ pc[e] # "none" /\ UNCHANGED session /\ Goto(e, "testing")
    BY <1>3 DEF DelegateRefused
  <2>2. ASSUME NEW f \in Epts PROVE ept[f] = "unused" <=> ept'[f] = "unused"
    <3>1. CASE ept' = ept
      BY <3>1
    <3>2. CASE ept' # ept
      <4> DEFINE g == refEndPoint[hand[e]]
      <4>1. ept' = [ept EXCEPT ![g] = "freed"] /\ (g = e \/ pc[g] = "ended")
        BY <1>3, <3>2 DEF DelegateRefused
      <4>2. g \in Epts => ept[g] # "unused"
        BY <1>0, <2>1, <4>1 DEF UsedInOrder
      <4> QED
        BY <1>0, <4>1, <4>2, Shapes
    <3> QED
      BY <3>1, <3>2
  <2> QED
    BY <1>1, <2>1, <2>2
<1>4. ASSUME UNCHANGED pc, NEW g \in Epts, pc[g] = "ended",
             ept' \in {ept, [ept EXCEPT ![g] = "freed"]},
             \A s \in Sessions : session[s] # "new" <=> session'[s] # "new"
      PROVE  UsedInOrder'
  <2>1. ept[g] # "unused"
    BY <1>0, <1>4 DEF UsedInOrder
  <2>2. \A f \in Epts : ept[f] = "unused" <=> ept'[f] = "unused"
    BY <1>0, <1>4, <2>1, Shapes
  <2> QED
    BY <1>0, <1>4, <2>2, Constants DEF UsedInOrder
<1>5. ASSUME UNCHANGED <<pc, ept>>,
             \A s \in Sessions : session[s] # "new" <=> session'[s] # "new"
      PROVE  UsedInOrder'
  BY <1>0, <1>5, Constants DEF UsedInOrder
<1>6. CASE DropEndPoint
  <2> DEFINE f == refEndPoint[victim]
  <2>1. f \in Epts
    BY <1>6 DEF DropEndPoint, IInv, LivesInStep, TypeOK
  <2>2. UNCHANGED <<pc, session>>
    BY <1>6 DEF DropEndPoint
  <2>3. CASE ept' = ept
    BY <1>5, <2>2, <2>3
  <2>4. CASE ept' # ept
    <3>1. pc[f] = "ended" /\ ept' = [ept EXCEPT ![f] = "freed"]
      BY <1>6, <2>4 DEF DropEndPoint
    <3> QED
      BY <1>4, <2>1, <2>2, <3>1
  <2> QED
    BY <2>3, <2>4
<1>7. CASE Free
  <2> DEFINE f == pEpt[who]
  <2>1. who \in Sessions /\ session[who] = "leaving" /\ f \in Epts
    BY <1>7, Constants DEF Free, Releasing, IInv, SessionPlaces, TypeOK
  <2>2. UNCHANGED pc /\ \A s \in Sessions : session[s] # "new" <=> session'[s] # "new"
    BY <1>0, <1>7, <2>1, Shapes DEF Free
  <2>3. CASE ept' = ept
    BY <1>5, <2>2, <2>3
  <2>4. CASE ept' # ept
    <3>1. pc[f] = "ended" /\ ept' = [ept EXCEPT ![f] = "freed"]
      BY <1>7, <2>4 DEF Free
    <3> QED
      BY <1>4, <2>1, <2>2, <3>1
  <2> QED
    BY <2>3, <2>4
<1>8. ASSUME Insert \/ \E s \in Sessions : ReleaseSession(s) PROVE UsedInOrder'
  <2>1. UNCHANGED <<pc, ept>>
    BY <1>8 DEF Insert, ReleaseSession
  <2>2. CASE Insert
    <3>1. who \in Sessions /\ session[who] = "made"
      BY <2>2, Constants DEF Insert, IInv, SessionPlaces, TypeOK
    <3>2. \A s \in Sessions : session[s] # "new" <=> session'[s] # "new"
      BY <1>0, <2>2, <3>1, Shapes DEF Insert
    <3> QED
      BY <1>5, <2>1, <3>2
  <2>3. ASSUME NEW s \in Sessions, ReleaseSession(s) PROVE UsedInOrder'
    <3>1. \A r \in Sessions : session[r] # "new" <=> session'[r] # "new"
      BY <1>0, <2>3, Shapes DEF ReleaseSession
    <3> QED
      BY <1>5, <2>1, <3>1
  <2> QED
    BY <1>8, <2>2, <2>3
<1>9. ASSUME NEW id \in Ids, RaiseShared(id) \/ RaiseNew(id) PROVE UsedInOrder'
  <2> DEFINE n == NextSession
             m == NextEpt
  <2>1. /\ n \in Sessions /\ m \in Epts /\ m <= n
        /\ \A s \in Sessions : session[s] # "new" <=> s < n
        /\ \A e \in Epts : ept[e] # "unused" <=> e < m
    BY <1>9, Fresh DEF RaiseShared, RaiseNew
  <2>2. session' = [session EXCEPT ![n] = "made"]
    BY <1>9 DEF RaiseShared, RaiseNew
  <2>3. \/ UNCHANGED <<pc, ept>>
        \/ ept' = [ept EXCEPT ![m] = "live"] /\ Goto(m, "top")
    BY <1>9 DEF RaiseShared, RaiseNew
  <2> HIDE DEF n, m
  <2>4. n \in Nat /\ m \in Nat /\ Epts \subseteq Nat /\ Sessions = Epts
    BY <2>1, Constants
  <2>5. \A s \in Sessions : session'[s] # "new" <=> s <= n
    BY <1>0, <2>1, <2>2, <2>4, Shapes
  <2>6. CASE UNCHANGED <<pc, ept>>
    BY <1>0, <2>1, <2>4, <2>5, <2>6 DEF UsedInOrder
  <2>7. CASE ept' = [ept EXCEPT ![m] = "live"] /\ Goto(m, "top")
    <3>1. \A e \in Epts : ept'[e] # "unused" <=> e <= m
      BY <1>0, <2>1, <2>4, <2>7, Shapes
    <3>2. \A e \in Epts : pc'[e] = IF e = m THEN "top" ELSE pc[e]
      BY <1>0, <2>7, Shapes DEF Goto
    <3>3. \A e \in Epts : ept'[e] = "unused" <=> pc'[e] = "none"
      BY <1>0, <2>1, <2>4, <3>1, <3>2 DEF UsedInOrder
    <3> QED
      BY <2>1, <2>4, <2>5, <3>1, <3>3 DEF UsedInOrder
  <2> QED
    BY <2>3, <2>6, <2>7
<1>10. CASE UNCHANGED <<session, ept, pc>>
  BY <1>5, <1>10
<1>11. ASSUME \/ Unregister \/ DeleteQueue \/ ListEndPoint \/ Drop \/ Erase \/ Clear \/ Elsewhere
              \/ (\E e \in Epts : Flush(e)) \/ (\E t \in Packets : Silence(t) \/ Reclaim(t))
       PROVE  UNCHANGED <<session, ept, pc>>
  BY <1>11 DEF Unregister, DeleteQueue, ListEndPoint, Drop, Erase, Clear, Elsewhere, Flush, Silence,
    Reclaim
<1> QED
  BY <1>2, <1>3, <1>6, <1>7, <1>8, <1>9, <1>10, <1>11, NextSteps DEF Steps, Handles, Delete, Call

LEMMA RefersToUsedKept == IInv /\ [Next]_vars => RefersToUsed'
<1> SUFFICES ASSUME IInv, [Next]_vars PROVE RefersToUsed'
  OBVIOUS
<1>0. TypeOK /\ RefersToUsed /\ SessionPlaces /\ LivesInStep
  BY DEF IInv
\* Endpoints stay used.
<1>1. \A e \in Epts : ept[e] # "unused" => ept'[e] # "unused"
  <2>1. ASSUME NEW g, ept' = [ept EXCEPT ![g] = "freed"] \/ ept' = [ept EXCEPT ![g] = "live"]
        PROVE  \A e \in Epts : ept[e] # "unused" => ept'[e] # "unused"
    BY <1>0, <2>1, Shapes
  <2>2. ASSUME NEW e \in Epts, DelegateRefused(e) PROVE \/ ept' = ept
                                                        \/ \E g : ept' = [ept EXCEPT ![g] = "freed"]
    BY <2>2 DEF DelegateRefused
  <2>3. ASSUME DropEndPoint \/ Free PROVE ept' = ept \/ \E g : ept' = [ept EXCEPT ![g] = "freed"]
    BY <2>3 DEF DropEndPoint, Free
  <2>4. ASSUME NEW id \in Ids, RaiseNew(id) PROVE \E g : ept' = [ept EXCEPT ![g] = "live"]
    BY <2>4 DEF RaiseNew
  <2>5. ASSUME NEW e \in Epts,
             \/ LoopTest(e) \/ SelectEnds(e) \/ Deliver(e) \/ NotDelivered(e) \/ Trigger(e)
             \/ Create(e) \/ Moves(e) \/ Delegate(e) \/ Register(e) \/ Flush(e)
             \/ FlushEnds(e) \/ EncacheTest(e) \/ Encache(e) \/ \E p \in Packets : Receive(e, p)
        PROVE  ept' = ept
    BY <2>5 DEF LoopTest, SelectEnds, Deliver, NotDelivered, Trigger, Create, Moves, Delegate,
      Register, Flush, FlushEnds, EncacheTest, Encache, Receive
  <2>6. ASSUME \/ Unregister \/ DeleteQueue \/ ListEndPoint \/ Insert \/ Drop \/ Erase \/ Clear \/ Elsewhere
               \/ (\E t \in Packets : Silence(t) \/ Reclaim(t)) \/ (\E id \in Ids : RaiseShared(id))
               \/ (\E s \in Sessions : ReleaseSession(s))
        PROVE  ept' = ept
    BY <2>6 DEF Unregister, DeleteQueue, ListEndPoint, Insert, Drop, Erase, Clear, Elsewhere, Silence,
      Reclaim, RaiseShared, ReleaseSession
  <2>7. CASE ept' = ept
    BY <2>7
  <2> QED
    BY <2>1, <2>2, <2>3, <2>4, <2>5, <2>6, <2>7, NextSteps DEF Steps, Handles, Delete, Call
<1>2. ASSUME \A s \in Sessions : session'[s] # "new" => session[s] # "new" /\ pEpt'[s] = pEpt[s],
             \A t \in Packets : life'[t] # "none" => life[t] # "none" /\ refEndPoint'[t] = refEndPoint[t]
      PROVE  RefersToUsed'
  BY <1>0, <1>1, <1>2 DEF RefersToUsed, SessionPlaces, LivesInStep
<1>3. ASSUME NEW e \in Epts, Create(e) PROVE RefersToUsed'
  <2> DEFINE s == asked[e]
  <2>1. s \in Sessions /\ session[s] # "new" /\ pEpt[s] \in Epts
    BY <1>0, <1>3 DEF Create, IInv, SessionPlaces, HandsInside, TypeOK
  <2>2. /\ UNCHANGED <<session, pEpt, ept>>
        /\ \A t \in Packets : t # hand[e] => life'[t] = life[t] /\ refEndPoint'[t] = refEndPoint[t]
        /\ hand[e] \in Packets => refEndPoint'[hand[e]] = pEpt[s]
    BY <1>0, <1>3, Shapes DEF Create
  <2> QED
    BY <1>0, <2>1, <2>2 DEF RefersToUsed
<1>4. ASSUME NEW e \in Epts, DelegateRefused(e) \/ Delegate(e) PROVE RefersToUsed'
  <2>1. hand[e] \in Packets /\ life[hand[e]] = "made"
    BY <1>0, <1>4, InHand DEF IInv, DelegateRefused, Delegate, LivesInStep, Making, Asked, Outside
  <2> QED
    BY <1>0, <1>2, <1>4, <2>1, Shapes DEF DelegateRefused, Delegate
<1>5. CASE Delete
  <2>1. victim \in Packets /\ life[victim] # "none"
    BY <1>0, <1>5 DEF TypeOK, LivesInStep, Delete, Unregister, DeleteQueue, DropEndPoint
  <2> QED
    BY <1>0, <1>2, <1>5, <2>1, Shapes DEF Delete, Unregister, DeleteQueue, DropEndPoint
<1>6. ASSUME NEW id \in Ids, RaiseShared(id) \/ RaiseNew(id) PROVE RefersToUsed'
  <2> DEFINE n == NextSession
  <2>1. n \in Sessions /\ NextEpt \in Epts
    BY <1>6, Fresh DEF RaiseShared, RaiseNew
  <2>2. /\ \A s \in Sessions : s # n => session'[s] = session[s] /\ pEpt'[s] = pEpt[s]
        /\ UNCHANGED <<life, refEndPoint>>
    BY <1>0, <1>6, <2>1, Shapes DEF RaiseShared, RaiseNew
  <2>3. ept'[pEpt'[n]] # "unused"
    <3>1. CASE RaiseShared(id)
      <4>1. inEpts # None /\ apc = "idle" /\ pEpt'[n] = inEpts
        BY <1>0, <2>1, <3>1, Shapes DEF RaiseShared
      <4>2. PICK h \in Sessions : pEpt[h] = inEpts /\ session[h] = "active"
        BY <1>6, <4>1 DEF IInv, HoldersCounted, Holders
      <4>3. inEpts \in Epts /\ ept[inEpts] # "unused"
        BY <1>0, <4>1, <4>2 DEF SessionPlaces, RefersToUsed
      <4> QED
        BY <1>1, <4>1, <4>3
    <3>2. CASE RaiseNew(id)
      BY <1>0, <2>1, <3>2, Shapes DEF RaiseNew
    <3> QED
      BY <1>6, <3>1, <3>2
  <2> QED
    BY <1>0, <1>1, <2>1, <2>2, <2>3 DEF RefersToUsed, SessionPlaces, LivesInStep
<1>7. CASE Call
  <2>1. CASE Insert \/ Free
    <3>1. who \in Sessions /\ session[who] \in {"made", "leaving"}
      BY <1>0, <2>1, Constants DEF Insert, Free, Releasing, SessionPlaces, TypeOK
    <3> QED
      BY <1>0, <1>2, <2>1, <3>1, Shapes DEF Insert, Free
  <2>2. CASE ListEndPoint \/ Drop \/ Erase \/ Clear
    BY <1>2, <2>2 DEF ListEndPoint, Drop, Erase, Clear
  <2> QED
    BY <1>7, <2>1, <2>2 DEF Call
<1>8. ASSUME NEW s \in Sessions, ReleaseSession(s) PROVE RefersToUsed'
  BY <1>0, <1>2, <1>8, Shapes DEF ReleaseSession
<1>9. CASE UNCHANGED <<session, pEpt, life, refEndPoint>>
  BY <1>2, <1>9
<1>10. ASSUME NEW e \in Epts,
              \/ LoopTest(e) \/ SelectEnds(e) \/ Deliver(e) \/ NotDelivered(e) \/ Trigger(e)
              \/ Moves(e) \/ Register(e) \/ Flush(e)
              \/ FlushEnds(e) \/ EncacheTest(e) \/ Encache(e) \/ \E p \in Packets : Receive(e, p)
       PROVE  UNCHANGED <<session, pEpt, life, refEndPoint>>
  BY <1>10 DEF LoopTest, SelectEnds, Deliver, NotDelivered, Trigger, Moves, Register, Flush,
    FlushEnds, EncacheTest, Encache, Receive
<1>11. ASSUME Elsewhere \/ \E t \in Packets : Silence(t) \/ Reclaim(t)
       PROVE  UNCHANGED <<session, pEpt, life, refEndPoint>>
  BY <1>11 DEF Elsewhere, Silence, Reclaim
<1> QED
  BY <1>3, <1>4, <1>5, <1>6, <1>7, <1>8, <1>9, <1>10, <1>11, NextSteps DEF Steps, Handles

\* Only what nobody has a pointer to is deleted, and that does not receive.
LEMMA FreedIsStopped ==
  ASSUME IInv, NEW f \in Epts, inEpts # f,
         \A s \in SessionsOn(f) : session[s] = "leaving"
  PROVE  ~recving[f]
<1>1. apc = "pushing" => who \in Sessions /\ session[who] = "made"
  BY Constants DEF IInv, SessionPlaces, TypeOK
<1> QED
  BY <1>1 DEF IInv, ReceivingIsListed, SessionsOn

LEMMA ReceivingIsListedKept == IInv /\ [Next]_vars => ReceivingIsListed'
<1> SUFFICES ASSUME IInv, [Next]_vars PROVE ReceivingIsListed'
  OBVIOUS
<1>0. TypeOK /\ ReceivingIsListed /\ SessionPlaces /\ LivesInStep /\ HoldersCounted
  BY DEF IInv
\* An endpoint is deleted that does not receive.
<1>1. ASSUME UNCHANGED <<recving, inEpts, pEpt>>, NEW f \in Epts, ~recving[f],
             ept' \in {ept, [ept EXCEPT ![f] = "freed"]},
             (apc' # "pushing" /\ apc # "pushing" /\ apc' # "erasing") \/ UNCHANGED <<apc, who>>,
             \A s \in Sessions : session'[s] # "new" => session[s] # "new",
             \A t \in Packets : life'[t] # "none" => life[t] # "none" /\ refEndPoint'[t] = refEndPoint[t]
      PROVE  ReceivingIsListed'
  <2>1. \A e \in Epts : recving'[e] => ept'[e] = "live"
    BY <1>0, <1>1, Shapes DEF ReceivingIsListed
  <2> QED
    BY <1>0, <1>1, <2>1 DEF ReceivingIsListed
<1>2. ASSUME UNCHANGED <<recving, inEpts, pEpt, ept, apc, who, session>>,
             \A t \in Packets : life'[t] # "none" => life[t] # "none" /\ refEndPoint'[t] = refEndPoint[t]
      PROVE  ReceivingIsListed'
  BY <1>0, <1>2 DEF ReceivingIsListed
<1>3. ASSUME NEW e \in Epts, Create(e) PROVE ReceivingIsListed'
  <2> DEFINE s == asked[e]
  <2>1. s \in Sessions /\ session[s] \notin {"new", "made"}
    BY <1>0, <1>3 DEF Create, IInv, SessionPlaces, HandsInside, TypeOK
  <2>2. /\ UNCHANGED <<session, pEpt, ept, recving, inEpts, apc, who>>
        /\ \A t \in Packets : t # hand[e] => life'[t] = life[t] /\ refEndPoint'[t] = refEndPoint[t]
        /\ hand[e] \in Packets => refEndPoint'[hand[e]] = pEpt[s]
    BY <1>0, <1>3, Shapes DEF Create
  <2>3. apc = "pushing" => session[who] = "made"
    BY <1>0, Constants DEF SessionPlaces, TypeOK
  <2>4. apc = "pushing" => pEpt[s] # pEpt[who]
    BY <1>0, <2>1, <2>3 DEF ReceivingIsListed
  <2> QED
    BY <1>0, <2>2, <2>4 DEF ReceivingIsListed
<1>4. ASSUME NEW e \in Epts, DelegateRefused(e) PROVE ReceivingIsListed'
  <2> DEFINE t == hand[e]
             f == refEndPoint[t]
  <2>1. t \in Packets /\ life[t] = "made" /\ f \in Epts
    BY <1>0, <1>4, InHand DEF IInv, DelegateRefused, LivesInStep, Making, Asked, Outside
  <2>2. /\ UNCHANGED <<session, pEpt, recving, inEpts, apc, who, refEndPoint>>
        /\ \A u \in Packets : life'[u] # "none" => life[u] # "none"
    BY <1>0, <1>4, <2>1, Shapes DEF DelegateRefused
  <2>3. CASE ept' = ept
    BY <1>2, <2>2, <2>3
  <2>4. CASE ept' # ept
    <3>1. ept' = [ept EXCEPT ![f] = "freed"] /\ SessionsOn(f) = {} /\ inEpts # f
      BY <1>4, <2>4 DEF DelegateRefused
    <3>2. ~recving[f]
      BY <2>1, <3>1, FreedIsStopped
    <3> QED
      BY <1>1, <2>1, <2>2, <3>1, <3>2
  <2> QED
    BY <2>3, <2>4
<1>5. CASE DropEndPoint
  <2> DEFINE f == refEndPoint[victim]
  <2>1. victim \in Packets /\ life[victim] # "none" /\ f \in Epts
    BY <1>0, <1>5 DEF DropEndPoint, LivesInStep, TypeOK
  <2>2. /\ UNCHANGED <<session, pEpt, recving, inEpts, apc, who, refEndPoint>>
        /\ \A u \in Packets : life'[u] # "none" => life[u] # "none"
    BY <1>0, <1>5, <2>1, Shapes DEF DropEndPoint
  <2>3. CASE ept' = ept
    BY <1>2, <2>2, <2>3
  <2>4. CASE ept' # ept
    <3>1. ept' = [ept EXCEPT ![f] = "freed"] /\ SessionsOn(f) = {} /\ inEpts # f
      BY <1>5, <2>4 DEF DropEndPoint
    <3>2. ~recving[f]
      BY <2>1, <3>1, FreedIsStopped
    <3> QED
      BY <1>1, <2>1, <2>2, <3>1, <3>2
  <2> QED
    BY <2>3, <2>4
<1>6. CASE Free
  <2> DEFINE f == pEpt[who]
  <2>1. who \in Sessions /\ session[who] = "leaving" /\ f \in Epts
    BY <1>0, <1>6, Constants DEF Free, Releasing, SessionPlaces, TypeOK
  <2>2. /\ UNCHANGED <<pEpt, recving, inEpts, life, refEndPoint>>
        /\ \A s \in Sessions : session'[s] # "new" => session[s] # "new"
        /\ apc = "freeing" /\ apc' = "idle"
    BY <1>0, <1>6, <2>1, Shapes DEF Free
  <2>3. CASE ept' = ept
    BY <1>0, <2>2, <2>3 DEF ReceivingIsListed
  <2>4. CASE ept' # ept
    <3>1. ept' = [ept EXCEPT ![f] = "freed"] /\ SessionsOn(f) = {who} /\ inEpts # f
      BY <1>6, <2>4 DEF Free
    <3>2. ~recving[f]
      BY <2>1, <3>1, FreedIsStopped
    <3> QED
      BY <1>1, <2>1, <2>2, <3>1, <3>2
  <2> QED
    BY <2>3, <2>4
<1>7. CASE Drop
  <2>1. who \in Sessions /\ session[who] = "leaving" /\ who \in Holders /\ pEpt[who] = inEpts
    BY <1>0, <1>7, Constants DEF Drop, Releasing, SessionPlaces, TypeOK, Holders, HoldersCounted
  <2>2. UNCHANGED <<ept, inEpts, pEpt, who, session, life, refEndPoint>> /\ apc = "dropping"
    BY <1>7 DEF Drop
  <2>3. CASE recving' = [recving EXCEPT ![inEpts] = FALSE] /\ apc' = "erasing"
    BY <1>0, <2>2, <2>3, Shapes DEF ReceivingIsListed
  <2>4. CASE UNCHANGED recving /\ apc' = "clearing"
    BY <1>0, <2>2, <2>4 DEF ReceivingIsListed
  <2> QED
    BY <1>7, <2>1, <2>3, <2>4 DEF Drop
<1>8. ASSUME NEW id \in Ids, RaiseNew(id) PROVE ReceivingIsListed'
  <2> DEFINE n == NextSession
             m == NextEpt
  <2>1. /\ n \in Sessions /\ m \in Epts /\ session[n] = "new"
        /\ \A s \in Sessions : session[s] # "new" => pEpt[s] # m
        /\ \A t \in Packets : life[t] # "none" => refEndPoint[t] # m
    BY <1>8, Fresh DEF RaiseNew
  <2>2. /\ apc = "idle" /\ apc' = "pushing" /\ who' = n /\ inEpts = None
        /\ UNCHANGED <<inEpts, life, refEndPoint>>
        /\ ept' = [ept EXCEPT ![m] = "live"] /\ recving' = [recving EXCEPT ![m] = TRUE]
        /\ session' = [session EXCEPT ![n] = "made"] /\ pEpt' = [pEpt EXCEPT ![n] = m]
    BY <1>8 DEF RaiseNew
  <2> HIDE DEF n, m
  <2>3. \A e \in Epts : recving[e] => FALSE
    BY <1>0, <2>2, Constants DEF ReceivingIsListed
  <2> QED
    BY <1>0, <2>1, <2>2, <2>3, Shapes DEF ReceivingIsListed
<1>9. ASSUME NEW id \in Ids, RaiseShared(id) PROVE ReceivingIsListed'
  <2>1. apc = "idle" /\ apc' = "inserting" /\ UNCHANGED <<recving, ept, inEpts>>
    BY <1>9 DEF RaiseShared
  <2> QED
    BY <1>0, <2>1 DEF ReceivingIsListed
<1>10. CASE ListEndPoint
  BY <1>0, <1>10, Constants DEF ReceivingIsListed, HoldersCounted, ListEndPoint
<1>11. CASE Insert \/ Clear
  BY <1>0, <1>11 DEF ReceivingIsListed, Insert, Clear
<1>12. CASE Erase
  <2>1. \A e \in Epts : ~recving[e]
    BY <1>0, <1>12 DEF ReceivingIsListed, Erase
  <2> QED
    BY <1>12, <2>1 DEF ReceivingIsListed, Erase
<1>13. ASSUME NEW s \in Sessions, ReleaseSession(s) PROVE ReceivingIsListed'
  BY <1>0, <1>13 DEF ReceivingIsListed, ReleaseSession
<1>14. CASE Unregister \/ DeleteQueue \/ \E e \in Epts : Delegate(e)
  <2>1. UNCHANGED <<recving, inEpts, pEpt, ept, apc, who, session, refEndPoint>>
    BY <1>14 DEF Unregister, DeleteQueue, Delegate
  <2>2. CASE Unregister \/ DeleteQueue
    <3>1. victim \in Packets /\ life[victim] # "none"
      BY <1>0, <2>2 DEF TypeOK, LivesInStep, Unregister, DeleteQueue
    <3> QED
      BY <1>0, <1>2, <2>1, <2>2, <3>1, Shapes DEF Unregister, DeleteQueue
  <2>3. ASSUME NEW e \in Epts, Delegate(e) PROVE ReceivingIsListed'
    <3>1. hand[e] \in Packets /\ life[hand[e]] = "made"
      BY <1>0, <2>3, InHand DEF IInv, Delegate, LivesInStep, Making, Asked, Outside
    <3> QED
      BY <1>0, <1>2, <2>1, <2>3, <3>1, Shapes DEF Delegate
  <2> QED
    BY <1>14, <2>2, <2>3
<1>15. CASE UNCHANGED <<recving, inEpts, pEpt, ept, apc, who, session, life, refEndPoint>>
  BY <1>2, <1>15
<1>16. ASSUME NEW e \in Epts,
              \/ LoopTest(e) \/ SelectEnds(e) \/ Deliver(e) \/ NotDelivered(e) \/ Trigger(e)
              \/ Moves(e) \/ Register(e) \/ Flush(e)
              \/ FlushEnds(e) \/ EncacheTest(e) \/ Encache(e) \/ \E p \in Packets : Receive(e, p)
       PROVE  UNCHANGED <<recving, inEpts, pEpt, ept, apc, who, session, life, refEndPoint>>
  BY <1>16 DEF LoopTest, SelectEnds, Deliver, NotDelivered, Trigger, Moves, Register, Flush,
    FlushEnds, EncacheTest, Encache, Receive
<1>17. ASSUME Elsewhere \/ \E t \in Packets : Silence(t) \/ Reclaim(t)
       PROVE  UNCHANGED <<recving, inEpts, pEpt, ept, apc, who, session, life, refEndPoint>>
  BY <1>17 DEF Elsewhere, Silence, Reclaim
<1> QED
  BY <1>3, <1>4, <1>5, <1>6, <1>7, <1>8, <1>9, <1>10, <1>11, <1>12, <1>13, <1>14, <1>15, <1>16, <1>17, NextSteps
  DEF Steps, Handles, Delete, Call

LEMMA StaleIsStoppedKept == IInv /\ [Next]_vars => StaleIsStopped'
<1> SUFFICES ASSUME IInv, [Next]_vars PROVE StaleIsStopped'
  OBVIOUS
<1>0. /\ TypeOK /\ StaleIsStopped /\ QueuesListedOnce /\ LivesInStep /\ ReceivingIsListed
      /\ victim # None => victim \in Packets
      /\ \A e \in Epts : recvIOQs[e] \in Seq(Packets) /\ ToSet(recvIOQs[e]) \subseteq Packets
  BY DEF IInv, TypeOK, ToSet
\* No stopped endpoint receives again.
<1>1. ASSUME \A e \in Epts : recving'[e] => recving[e] \/ ept[e] = "unused",
             UNCHANGED <<recvIOQs, victim, vnode, refEndPoint, life>>
      PROVE  StaleIsStopped'
  <2>1. \A t \in Packets : life[t] # "none" => ept[refEndPoint[t]] # "unused"
    BY DEF IInv, RefersToUsed
  <2>2. \A e \in Epts : \A t \in ToSet(recvIOQs[e]) : life[t] # "none" /\ refEndPoint[t] = e
    BY <1>0 DEF QueuesListedOnce
  <2>3. victim # None => life[victim] # "none" /\ refEndPoint[victim] \in Epts
    BY <1>0 DEF LivesInStep
  <2> QED
    BY <1>0, <1>1, <2>1, <2>2, <2>3 DEF StaleIsStopped
<1>2. CASE Drop
  <2>1. \A e \in Epts : recving'[e] => recving[e]
    BY <1>0, <1>2, Shapes DEF Drop
  <2>2. UNCHANGED <<recvIOQs, victim, vnode, refEndPoint, life>>
    BY <1>2 DEF Drop
  <2> QED
    BY <1>1, <2>1, <2>2
<1>3. ASSUME NEW id \in Ids, RaiseNew(id) PROVE StaleIsStopped'
  <2>1. NextEpt \in Epts /\ ept[NextEpt] = "unused"
    BY <1>3, Fresh DEF RaiseNew
  <2>2. \A e \in Epts : recving'[e] => recving[e] \/ ept[e] = "unused"
    BY <1>0, <1>3, <2>1, Shapes DEF RaiseNew
  <2>3. UNCHANGED <<recvIOQs, victim, vnode, refEndPoint, life>>
    BY <1>3 DEF RaiseNew
  <2> QED
    BY <1>1, <2>2, <2>3
<1>4. ASSUME NEW e \in Epts, Create(e) \/ DelegateRefused(e) \/ Delegate(e) PROVE StaleIsStopped'
  <2>1. hand[e] \in Packets /\ life[hand[e]] \in {"none", "made"}
    BY <1>0, <1>4, InHand DEF IInv, Create, DelegateRefused, Delegate, LivesInStep, Making, Asked, Outside
  <2>2. \A f \in Epts : hand[e] \notin ToSet(recvIOQs[f])
    BY <1>0, <2>1 DEF QueuesListedOnce
  <2>3. hand[e] # victim \/ victim = None
    BY <1>0, <2>1 DEF LivesInStep
  <2>4. /\ UNCHANGED <<recvIOQs, victim, vnode, recving>>
        /\ \A t \in Packets : t # hand[e] => refEndPoint'[t] = refEndPoint[t] /\ life'[t] = life[t]
    BY <1>0, <1>4, Shapes DEF Create, DelegateRefused, Delegate
  <2> QED
    BY <1>0, <2>2, <2>3, <2>4 DEF StaleIsStopped
<1>5. ASSUME NEW e \in Epts, Register(e) PROVE StaleIsStopped'
  <2> DEFINE t == hand[e]
             f == refEndPoint[t]
  <2>1. t \in Packets /\ life[t] = "listed" /\ f \in Epts
    BY <1>0, <1>5, InHand DEF IInv, Register, LivesInStep, Locked, Outside
  <2>2. UNCHANGED <<victim, vnode, recving, refEndPoint, life>>
    BY <1>5 DEF Register
  <2>3. CASE recvIOQs' = recvIOQs
    BY <1>0, <2>2, <2>3 DEF StaleIsStopped
  <2>4. CASE recvIOQs' = [recvIOQs EXCEPT ![f] = Append(@, t)]
    <3>1. ToSet(Append(recvIOQs[f], t)) = ToSet(recvIOQs[f]) \cup {t}
      BY <1>0, <2>1, AppendToInjective
    <3>2. \A g \in Epts : recvIOQs'[g] = IF g = f THEN Append(recvIOQs[f], t) ELSE recvIOQs[g]
      BY <1>0, <2>4, Shapes
    <3> QED
      BY <1>0, <2>1, <2>2, <3>1, <3>2 DEF StaleIsStopped
  <2> QED
    BY <1>5, <2>3, <2>4 DEF Register
<1>6. ASSUME NEW t \in Packets, Reclaim(t) PROVE StaleIsStopped'
  <2>1. /\ life[t] = "listed" /\ victim' = t /\ vnode' = inEpts
        /\ UNCHANGED <<recvIOQs, recving, refEndPoint, life>>
    BY <1>6 DEF Reclaim
  <2>2. refEndPoint[t] \in Epts
    BY <1>0, <2>1 DEF LivesInStep
  <2>3. recving[refEndPoint[t]] => refEndPoint[t] = inEpts
    BY <1>0, <2>1, <2>2 DEF ReceivingIsListed
  <2> QED
    BY <1>0, <2>1, <2>3 DEF StaleIsStopped
<1>7. CASE Unregister
  <2> DEFINE f == refEndPoint[victim]
  <2>1. /\ victim \in Packets /\ f \in Epts
        /\ UNCHANGED <<refEndPoint, recving, victim, vnode>>
        /\ \A t \in Packets : life'[t] = IF t = victim THEN "removed" ELSE life[t]
    BY <1>0, <1>7, Shapes DEF Unregister, LivesInStep
  <2>2. CASE vnode = f
    <3>1. ToSet(RemoveFirst(recvIOQs[f], victim)) = ToSet(recvIOQs[f]) \ {victim}
      BY <1>0, <2>1, RemoveFirstFromInjective DEF QueuesListedOnce
    <3>2. \A g \in Epts : recvIOQs'[g] = IF g = f THEN RemoveFirst(recvIOQs[f], victim) ELSE recvIOQs[g]
      BY <1>0, <1>7, <2>2, Shapes DEF Unregister
    <3>3. \A g \in Epts : victim \in ToSet(recvIOQs[g]) => g = f
      BY <1>0 DEF QueuesListedOnce
    <3>4. \A g \in Epts : \A t \in ToSet(recvIOQs'[g]) : t \in ToSet(recvIOQs[g]) /\ t # victim
      BY <3>1, <3>2, <3>3
    <3> QED
      BY <1>0, <2>1, <3>4 DEF StaleIsStopped
  <2>3. CASE vnode # f
    <3>1. ~recving[f]
      BY <1>0, <1>7, <2>3 DEF Unregister, StaleIsStopped
    <3>2. UNCHANGED recvIOQs
      BY <1>7, <2>3 DEF Unregister
    <3>3. \A g \in Epts : victim \in ToSet(recvIOQs[g]) => g = f
      BY <1>0 DEF QueuesListedOnce
    <3> QED
      BY <1>0, <2>1, <3>1, <3>2, <3>3 DEF StaleIsStopped
  <2> QED
    BY <2>2, <2>3
<1>8. CASE DeleteQueue \/ DropEndPoint
  <2>1. /\ UNCHANGED <<recvIOQs, refEndPoint, recving>> /\ victim \in Packets
        /\ life[victim] # "listed" /\ life[victim] # "none"
        /\ victim' \in {victim, None}
        /\ life'[victim] # "listed"
        /\ \A t \in Packets : t # victim => life'[t] = life[t]
    BY <1>0, <1>8, Shapes DEF DeleteQueue, DropEndPoint, TypeOK
  <2> QED
    BY <1>0, <2>1 DEF StaleIsStopped
<1>9. CASE UNCHANGED <<recvIOQs, life, recving, victim, vnode, refEndPoint>>
  BY <1>0, <1>9 DEF StaleIsStopped
<1>10. ASSUME NEW e \in Epts,
              \/ LoopTest(e) \/ SelectEnds(e) \/ Deliver(e) \/ NotDelivered(e) \/ Trigger(e)
              \/ Moves(e) \/ Flush(e)
              \/ FlushEnds(e) \/ EncacheTest(e) \/ Encache(e) \/ \E p \in Packets : Receive(e, p)
       PROVE  UNCHANGED <<recvIOQs, life, recving, victim, vnode, refEndPoint>>
  BY <1>10 DEF LoopTest, SelectEnds, Deliver, NotDelivered, Trigger, Moves, Flush,
    FlushEnds, EncacheTest, Encache, Receive
<1>11. ASSUME \/ Elsewhere \/ ListEndPoint \/ Insert \/ Erase \/ Clear \/ Free
              \/ (\E t \in Packets : Silence(t)) \/ (\E id \in Ids : RaiseShared(id))
              \/ (\E s \in Sessions : ReleaseSession(s))
       PROVE  UNCHANGED <<recvIOQs, life, recving, victim, vnode, refEndPoint>>
  BY <1>11 DEF Elsewhere, ListEndPoint, Insert, Erase, Clear, Free, Silence, RaiseShared, ReleaseSession
<1> QED
  BY <1>2, <1>3, <1>4, <1>5, <1>6, <1>7, <1>8, <1>9, <1>10, <1>11, NextSteps DEF Steps, Handles, Delete, Call

LEMMA CachesBoundedKept == IInv /\ [Next]_vars => CachesBounded'
<1> SUFFICES ASSUME IInv, [Next]_vars PROVE CachesBounded'
  OBVIOUS
<1>0. /\ TypeOK /\ CachesBounded /\ HandsInside /\ LivesInStep /\ LockedOnce
      /\ \A e, f \in Epts : hand[e] = hand[f] /\ hand[e] # None => e = f
      /\ \A e \in Epts : Len(recvCache[e]) \in Nat /\ recvCache[e] \in Seq(Packets)
                         /\ walk[e] \in Nat
  <2>1. TypeOK /\ CachesBounded /\ HandsInside /\ LivesInStep /\ LockedOnce /\ OwnedOnce
    BY DEF IInv
  <2>2. \A e, f \in Epts : hand[e] = hand[f] /\ hand[e] # None => e = f
    BY <2>1 DEF OwnedOnce
  <2>3. \A e \in Epts : recvCache[e] \in Seq(Packets) /\ walk[e] \in Nat
    BY <2>1, Constants DEF TypeOK
  <2> QED
    BY <2>1, <2>2, <2>3
<1>1. ASSUME NEW e \in Epts, NEW place, Goto(e, place), place \notin {"pushing", "flushing"},
             UNCHANGED recvCache,
             \A f \in Epts : f # e => hand'[f] = hand[f] /\ walk'[f] = walk[f],
             \A t \in Packets : refEndPoint'[t] = refEndPoint[t] \/ t = hand[e]
      PROVE  CachesBounded'
  <2>1. \A f \in Epts : pc[f] = "flushing" => hand[f] \in Packets /\ hand[f] # None
    BY <1>0, InHand, Constants DEF Outside
  <2>2. ASSUME NEW f \in Epts, pc'[f] = "flushing"
        PROVE  /\ pc[f] = "flushing" /\ f # e /\ walk'[f] = walk[f]
               /\ refEndPoint'[hand'[f]] = refEndPoint[hand[f]]
    BY <1>0, <1>1, <2>1, <2>2, Shapes DEF Goto
  <2> QED
    BY <1>0, <1>1, <2>2, Shapes DEF CachesBounded, Goto
<1>2. ASSUME NEW e \in Epts,
             \/ LoopTest(e) \/ SelectEnds(e) \/ NotDelivered(e) \/ Trigger(e) \/ Moves(e)
             \/ Create(e) \/ DelegateRefused(e) \/ Delegate(e) \/ Deliver(e)
             \/ FlushEnds(e) \/ \E p \in Packets : Receive(e, p)
      PROVE  CachesBounded'
  <2>1. \/ \E place \in {"top", "select", "ended", "got", "trigger", "testing"} : Goto(e, place)
        \/ \E place \in {"creating", "delegating", "registering"} \cup Asked : Goto(e, place)
    <3>1. CASE LoopTest(e) \/ SelectEnds(e) \/ NotDelivered(e) \/ FlushEnds(e) \/ DelegateRefused(e)
      BY <3>1 DEF LoopTest, SelectEnds, NotDelivered, FlushEnds, DelegateRefused
    <3>2. CASE Deliver(e) \/ \E p \in Packets : Receive(e, p)
      BY <3>2 DEF Deliver, Receive
    <3>3. CASE Trigger(e) \/ Create(e) \/ Moves(e) \/ Delegate(e)
      BY <3>3 DEF Trigger, Create, Moves, Delegate
    <3> QED
      BY <1>2, <3>1, <3>2, <3>3
  <2>2. UNCHANGED recvCache
    BY <1>2 DEF LoopTest, SelectEnds, Deliver, NotDelivered, Trigger, Create, Moves,
      DelegateRefused, Delegate, FlushEnds, Receive
  <2>3. /\ \A f \in Epts : f # e => hand'[f] = hand[f] /\ walk'[f] = walk[f]
        /\ \A t \in Packets : refEndPoint'[t] = refEndPoint[t] \/ t = hand[e]
    BY <1>0, <1>2, Shapes DEF LoopTest, SelectEnds, Deliver, NotDelivered, Trigger, Create,
      Moves, DelegateRefused, Delegate, FlushEnds, Receive
  <2> QED
    BY <1>1, <2>1, <2>2, <2>3 DEF Asked
<1>3. ASSUME NEW id \in Ids, RaiseNew(id) PROVE CachesBounded'
  <2>1. NextEpt \in Epts /\ Goto(NextEpt, "top") /\ UNCHANGED <<recvCache, hand, walk, refEndPoint>>
    BY <1>3, Fresh DEF RaiseNew
  <2> QED
    BY <1>1, <2>1
<1>4. ASSUME NEW e \in Epts, Register(e) PROVE CachesBounded'
  BY <1>0, <1>4, Shapes DEF CachesBounded, Register, Goto
<1>5. ASSUME NEW e \in Epts, EncacheTest(e) PROVE CachesBounded'
  BY <1>0, <1>5, Shapes DEF CachesBounded, EncacheTest, Goto
<1>6. ASSUME NEW e \in Epts, Flush(e) PROVE CachesBounded'
  <2> DEFINE f == refEndPoint[hand[e]]
             rest == RemoveAt(recvCache[f], walk[e])
  <2>1. f \in Epts /\ pc[e] = "flushing" /\ walk[e] \in 1 .. Len(recvCache[f])
    BY <1>0, <1>6, InHand DEF Flush, LivesInStep, Locked, Outside
  <2>2. Len(rest) = Len(recvCache[f]) - 1
    BY <1>0, <2>1, RemoveAtIndices
  <2>3. UNCHANGED <<pc, hand, refEndPoint>>
    BY <1>6 DEF Flush
  <2>4. \A g \in Epts : pc[g] = "flushing" => g = e
    BY <1>0, <2>1 DEF LockedOnce, Locked
  <2>5. CASE recvCache' = [recvCache EXCEPT ![f] = rest]
             /\ walk' = [walk EXCEPT ![e] = IF @ > Len(rest) THEN 1 ELSE @ + 1]
    <3>1. \A g \in Epts : Len(recvCache'[g]) = IF g = f THEN Len(recvCache[f]) - 1 ELSE Len(recvCache[g])
      BY <1>0, <2>2, <2>5, Shapes
    <3>2. walk'[e] = IF walk[e] > Len(recvCache[f]) - 1 THEN 1 ELSE walk[e] + 1
      BY <1>0, <2>2, <2>5, Shapes
    <3>3. walk'[e] <= Len(recvCache'[f]) + 1
      BY <1>0, <2>1, <3>1, <3>2
    <3>4. \A g \in Epts : Len(recvCache[g]) \in Nat /\ Len(recvCache'[g]) <= Len(recvCache[g])
      BY <1>0, <3>1
    <3>5. ASSUME NEW g \in Epts, pc'[g] = "pushing" PROVE Len(recvCache'[g]) < CacheSize
      <4>1. Len(recvCache[g]) < CacheSize /\ Len(recvCache'[g]) \in Int
        BY <1>0, <2>3, <3>1, <3>4, <3>5 DEF CachesBounded
      <4> QED
        BY <3>4, <4>1, Constants
    <3> QED
      BY <1>0, <2>1, <2>3, <2>4, <3>3, <3>5 DEF CachesBounded
  <2>6. CASE walk' = [walk EXCEPT ![e] = @ + 1] /\ UNCHANGED recvCache
    <3>1. walk'[e] <= Len(recvCache'[f]) + 1
      BY <1>0, <2>1, <2>6, Shapes
    <3> QED
      BY <1>0, <2>1, <2>3, <2>4, <2>6, <3>1 DEF CachesBounded
  <2> QED
    BY <1>6, <2>5, <2>6 DEF Flush
<1>7. ASSUME NEW e \in Epts, Encache(e) PROVE CachesBounded'
  <2> DEFINE gone == IF pc[e] = "replacing" THEN 1 ELSE 0
             kept == SubSeq(recvCache[e], 1 + gone, Len(recvCache[e]))
  <2>1. /\ gone \in {0, 1} /\ gone <= Len(recvCache[e]) /\ hand[e] \in Packets
        /\ Goto(e, "top") /\ hand' = [hand EXCEPT ![e] = None] /\ UNCHANGED refEndPoint
    BY <1>0, <1>7, InHand DEF Encache, Outside
  <2>2. kept \in Seq(Packets) /\ Len(kept) = Len(recvCache[e]) - gone
    BY <1>0, <2>1, DropFirst
  <2>3. Len(Append(kept, hand[e])) = Len(recvCache[e]) - gone + 1
    <3> HIDE DEF gone, kept
    <3> QED
      BY <2>1, <2>2, AppendProperties
  <2>4. /\ recvCache' = [recvCache EXCEPT ![e] = Append(kept, hand[e])]
        /\ walk' = [f \in Epts |->
                      IF f \notin Walking(e) THEN walk[f]
                      ELSE IF walk[f] = Len(recvCache[e]) + 1 THEN Len(kept) + 2
                      ELSE IF walk[f] > gone THEN walk[f] - gone ELSE 0]
    BY <1>7 DEF Encache
  <2> HIDE DEF gone, kept
  <2>5. \A g \in Epts : recvCache'[g] = IF g = e THEN Append(kept, hand[e]) ELSE recvCache[g]
    BY <1>0, <2>4, Shapes
  <2>6. \A g \in Epts : Len(recvCache'[g]) = IF g = e THEN Len(recvCache[e]) - gone + 1 ELSE Len(recvCache[g])
    BY <2>3, <2>5
  <2>7. ASSUME NEW f \in Epts, pc'[f] = "flushing"
        PROVE  walk'[f] <= Len(recvCache'[refEndPoint'[hand'[f]]]) + 1
    <3> DEFINE g == refEndPoint[hand[f]]
    <3>1. f # e /\ pc[f] = "flushing" /\ hand'[f] = hand[f]
      BY <1>0, <2>1, <2>7, Shapes DEF Goto
    <3>2. g \in Epts /\ walk[f] <= Len(recvCache[g]) + 1
      BY <1>0, <3>1, InHand DEF CachesBounded, LivesInStep, Locked, Outside
    <3>3. CASE g = e
      <4>1. f \in Walking(e)
        BY <3>1, <3>3 DEF Walking
      <4>2. walk'[f] = IF walk[f] = Len(recvCache[e]) + 1 THEN Len(kept) + 2
                       ELSE IF walk[f] > gone THEN walk[f] - gone ELSE 0
        BY <2>4, <4>1
      <4>3. walk[f] \in Nat /\ Len(recvCache[e]) \in Nat /\ gone \in {0, 1}
        BY <1>0, <2>1
      <4>4. walk'[f] <= Len(recvCache[e]) - gone + 2
        BY <2>1, <2>2, <3>2, <3>3, <4>2, <4>3
      <4>5. refEndPoint'[hand'[f]] = e
        BY <2>1, <3>1, <3>3
      <4>6. Len(recvCache'[e]) = Len(recvCache[e]) - gone + 1
        BY <2>6
      <4> QED
        BY <4>3, <4>4, <4>5, <4>6
    <3>4. CASE g # e
      <4>1. f \notin Walking(e)
        BY <3>4 DEF Walking
      <4> QED
        BY <2>1, <2>4, <2>6, <3>1, <3>2, <3>4, <4>1
    <3> QED
      BY <3>3, <3>4
  <2>8. \A f \in Epts : pc'[f] = "pushing" => f # e /\ pc[f] = "pushing"
    BY <1>0, <2>1, Shapes DEF Goto
  <2> QED
    BY <1>0, <2>6, <2>7, <2>8 DEF CachesBounded
<1>8. CASE UNCHANGED <<pc, recvCache, walk, hand>> /\ UNCHANGED refEndPoint
  BY <1>0, <1>8 DEF CachesBounded
<1>9. ASSUME \/ Delete \/ Call \/ Elsewhere \/ (\E id \in Ids : RaiseShared(id))
             \/ (\E t \in Packets : Silence(t) \/ Reclaim(t)) \/ (\E s \in Sessions : ReleaseSession(s))
      PROVE  UNCHANGED <<pc, recvCache, walk, hand>> /\ UNCHANGED refEndPoint
  BY <1>9 DEF Delete, Unregister, DeleteQueue, DropEndPoint, Call, ListEndPoint, Insert, Drop, Erase,
    Clear, Free, Elsewhere, RaiseShared, Silence, Reclaim, ReleaseSession
<1> QED
  BY <1>2, <1>3, <1>4, <1>5, <1>6, <1>7, <1>8, <1>9, NextSteps DEF Steps, Handles

LEMMA HoldersFinite ==
  ASSUME TypeOK
  PROVE  /\ Holders \subseteq Sessions /\ IsFiniteSet(Holders)
         /\ Cardinality(Holders) \in 0 .. Cardinality(Sessions)
<1>1. Holders \in SUBSET Sessions
  BY DEF Holders
<1>2. IsFiniteSet(Holders) /\ Cardinality(Holders) <= Cardinality(Sessions)
  BY <1>1, Constants, FS_Subset
<1>3. Cardinality(Holders) \in Nat /\ Cardinality(Sessions) \in Nat
  BY <1>2, Constants, FS_CardinalityType
<1> QED
  BY <1>1, <1>2, <1>3

LEMMA HoldersCountedKept == IInv /\ [Next]_vars => HoldersCounted'
<1> SUFFICES ASSUME IInv, [Next]_vars PROVE HoldersCounted'
  OBVIOUS
<1>0. TypeOK /\ HoldersCounted /\ SessionPlaces /\ ReceivingIsListed
  BY DEF IInv
<1>1. Holders \subseteq Sessions /\ IsFiniteSet(Holders)
  BY <1>0, HoldersFinite
\* The holders stay, and so does the endpoint they have.
<1>2. ASSUME Holders' = Holders, UNCHANGED <<refCount, inEpts>>,
             \A s \in Holders : pEpt'[s] = pEpt[s],
             apc' # "pushing" \/ UNCHANGED apc, apc' = "erasing" <=> apc = "erasing"
      PROVE  HoldersCounted'
  BY <1>0, <1>2 DEF HoldersCounted
<1>3. CASE UNCHANGED <<refCount, inEpts, session, who, apc, pEpt>>
  BY <1>0, <1>2, <1>3 DEF Holders
<1>4. CASE Insert
  <2>1. Holders' = Holders
    BY <1>0, <1>4, Shapes, Constants DEF Insert, Holders, SessionPlaces, TypeOK
  <2> QED
    BY <1>2, <1>4, <2>1 DEF Insert
<1>5. CASE Clear
  <2>1. Holders' = Holders
    BY <1>5 DEF Clear, Holders
  <2> QED
    BY <1>2, <1>5, <2>1 DEF Clear
<1>6. CASE Free
  <2>1. who \in Sessions /\ session[who] = "leaving"
    BY <1>0, <1>6, Constants DEF Free, Releasing, SessionPlaces, TypeOK
  <2>2. Holders' = Holders
    BY <1>0, <1>6, <2>1, Shapes DEF Free, Holders
  <2> QED
    BY <1>2, <1>6, <2>2 DEF Free
<1>7. ASSUME NEW s \in Sessions, ReleaseSession(s) PROVE HoldersCounted'
  <2>1. Holders' = Holders
    BY <1>0, <1>7, Shapes, Constants DEF ReleaseSession, Holders, SessionPlaces, TypeOK
  <2> QED
    BY <1>2, <1>7, <2>1 DEF ReleaseSession
<1>8. CASE Erase
  <2>1. Holders' = Holders /\ Holders = {}
    BY <1>0, <1>8 DEF Erase, Holders, HoldersCounted
  <2> QED
    BY <1>0, <1>8, <2>1 DEF Erase, HoldersCounted
<1>9. CASE Drop
  <2>1. who \in Sessions /\ session[who] = "leaving" /\ who \in Holders /\ apc = "dropping"
    BY <1>0, <1>9, Constants DEF Drop, Releasing, SessionPlaces, TypeOK, Holders
  <2>2. UNCHANGED <<inEpts, pEpt, who, session>> /\ apc' \in {"erasing", "clearing"}
    BY <1>9 DEF Drop
  <2>3. Holders' = Holders \ {who}
    BY <1>0, <2>1, <2>2 DEF Holders
  <2>4. Cardinality(Holders') = Cardinality(Holders) - 1 /\ IsFiniteSet(Holders')
    BY <1>1, <2>1, <2>3, FS_RemoveElement
  <2>5. refCount' = Cardinality(Holders')
    BY <1>0, <1>9, <2>4 DEF Drop, HoldersCounted
  <2>6. refCount' = 0 <=> Holders' = {}
    BY <2>4, <2>5, FS_EmptySet
  <2>7. apc' = "erasing" <=> Holders' = {}
    BY <1>9, <2>6 DEF Drop
  <2>8. \A s \in Holders' : pEpt'[s] = inEpts'
    BY <1>0, <2>2, <2>3 DEF HoldersCounted
  <2> QED
    BY <2>2, <2>5, <2>7, <2>8 DEF HoldersCounted
<1>10. CASE ListEndPoint
  <2>1. /\ who \in Sessions /\ session[who] = "made" /\ apc = "pushing" /\ apc' = "inserting"
        /\ inEpts' = pEpt[who] /\ refCount' = 1 /\ UNCHANGED <<session, who, pEpt>>
    BY <1>0, <1>10, Constants DEF ListEndPoint, SessionPlaces, TypeOK
  <2>2. Holders = {}
    <3>1. inEpts = None
      BY <1>0, <2>1 DEF HoldersCounted
    <3>2. ASSUME NEW s \in Holders PROVE FALSE
      <4>1. s \in Sessions /\ session[s] = "active" /\ pEpt[s] = None
        BY <1>0, <2>1, <3>1, <3>2 DEF Holders, HoldersCounted
      <4> QED
        BY <1>0, <4>1, Constants DEF SessionPlaces
    <3> QED
      BY <3>2
  <2>3. Holders' = {who}
    BY <2>1, <2>2 DEF Holders
  <2>4. Cardinality(Holders') = 1
    BY <2>3, FS_Singleton
  <2> QED
    BY <2>1, <2>3, <2>4 DEF HoldersCounted
<1>11. ASSUME NEW id \in Ids, RaiseShared(id) PROVE HoldersCounted'
  <2> DEFINE n == NextSession
  <2>1. n \in Sessions /\ session[n] = "new" /\ n # who
    BY <1>11, Fresh DEF RaiseShared
  <2>2. /\ apc = "idle" /\ apc' = "inserting" /\ who' = n /\ refCount' = refCount + 1
        /\ session' = [session EXCEPT ![n] = "made"] /\ pEpt' = [pEpt EXCEPT ![n] = inEpts]
        /\ UNCHANGED inEpts
    BY <1>11 DEF RaiseShared
  <2> HIDE DEF n
  <2>3. Holders' = Holders \cup {n} /\ n \notin Holders
    BY <1>0, <2>1, <2>2, Shapes DEF Holders
  <2>4. Cardinality(Holders') = Cardinality(Holders) + 1
    BY <1>1, <2>3, FS_AddElement
  <2>5. \A s \in Holders' : pEpt'[s] = inEpts'
    BY <1>0, <2>1, <2>2, <2>3, Shapes DEF HoldersCounted
  <2> QED
    BY <1>0, <2>2, <2>3, <2>4, <2>5 DEF HoldersCounted
<1>12. ASSUME NEW id \in Ids, RaiseNew(id) PROVE HoldersCounted'
  <2> DEFINE n == NextSession
  <2>1. n \in Sessions /\ session[n] = "new" /\ n # who
    BY <1>12, Fresh DEF RaiseNew
  <2>2. /\ apc = "idle" /\ apc' = "pushing" /\ who' = n /\ inEpts = None
        /\ session' = [session EXCEPT ![n] = "made"] /\ pEpt' = [pEpt EXCEPT ![n] = NextEpt]
        /\ UNCHANGED <<inEpts, refCount>>
    BY <1>12 DEF RaiseNew
  <2> HIDE DEF n
  <2>3. Holders' = Holders /\ n \notin Holders
    BY <1>0, <2>1, <2>2, Shapes DEF Holders
  <2>4. \A s \in Holders' : pEpt'[s] = inEpts'
    BY <1>0, <2>1, <2>2, <2>3, Shapes DEF HoldersCounted
  <2> QED
    BY <1>0, <2>2, <2>3, <2>4 DEF HoldersCounted
<1>13. ASSUME NEW e \in Epts, Handles(e) \/ \E p \in Packets : Receive(e, p)
       PROVE  UNCHANGED <<refCount, inEpts, session, who, apc, pEpt>>
  BY <1>13 DEF Handles, LoopTest, SelectEnds, Deliver, NotDelivered, Trigger, Create, Moves,
    DelegateRefused, Delegate, Register, Flush, FlushEnds, EncacheTest, Encache, Receive
<1>14. ASSUME Delete \/ Elsewhere \/ \E t \in Packets : Silence(t) \/ Reclaim(t)
       PROVE  UNCHANGED <<refCount, inEpts, session, who, apc, pEpt>>
  BY <1>14 DEF Delete, Unregister, DeleteQueue, DropEndPoint, Elsewhere, Silence, Reclaim
<1> QED
  BY <1>3, <1>4, <1>5, <1>6, <1>7, <1>8, <1>9, <1>10, <1>11, <1>12, <1>13, <1>14, NextSteps DEF Steps, Call

\* A packet moves from one place to another.
LEMMA OwnedOnceKept == IInv /\ [Next]_vars => OwnedOnce'
<1> SUFFICES ASSUME IInv, [Next]_vars PROVE OwnedOnce'
  OBVIOUS
<1>0. TypeOK /\ OwnedOnce /\ HandsInside
  BY DEF IInv
<1>1. CASE UNCHANGED <<hand, recvCache, got, arrived>>
  BY <1>0, <1>1 DEF OwnedOnce
<1>2. ASSUME NEW e \in Epts, NEW p \in Packets, Receive(e, p) PROVE OwnedOnce'
  <2>1. p \notin arrived /\ hand' = [hand EXCEPT ![e] = p] /\ arrived' = arrived \cup {p}
        /\ UNCHANGED <<recvCache, got>>
    BY <1>2 DEF Receive
  <2>2. \A f \in Epts : hand'[f] = IF f = e THEN p ELSE hand[f]
    BY <1>0, <2>1, Shapes
  <2>3. \A f \in Epts : hand[f] # p
    BY <1>0, <2>1, Constants DEF HandsInside, TypeOK
  <2> QED
    BY <1>0, <2>1, <2>2, <2>3 DEF OwnedOnce
\* What a queue takes is in no other place.
<1>3. ASSUME NEW p \in arrived,
             \A u \in Packets : \A x \in got'[u] : x \in got[u] \/ x = p,
             \A u, v \in Packets : p \in got'[u] /\ p \in got'[v] => u = v,
             \A u \in Packets : p \notin got[u],
             \A f \in Epts : hand'[f] \in {hand[f], None} /\ hand'[f] # p,
             \A f \in Epts : IsInjective(recvCache'[f]) /\ ToSet(recvCache'[f]) \subseteq ToSet(recvCache[f]) \ {p},
             UNCHANGED arrived
      PROVE  OwnedOnce'
  <2>1. \A f \in Epts : None \notin ToSet(recvCache[f])
    BY <1>0, Constants DEF ToSet, TypeOK
  <2>2. \A u \in Packets : None \notin got[u]
    BY <1>0, Constants DEF TypeOK
  <2>3. p # None
    BY <1>0, <1>3, Constants DEF TypeOK
  <2>4. \A f, g \in Epts : f # g => ToSet(recvCache'[f]) \cap ToSet(recvCache'[g]) = {}
    BY <1>0, <1>3 DEF OwnedOnce
  <2>5. \A f, g \in Epts : hand'[f] = hand'[g] /\ hand'[f] # None => f = g
    BY <1>0, <1>3 DEF OwnedOnce
  <2>6. \A f, g \in Epts : hand'[f] \notin ToSet(recvCache'[g])
    BY <1>0, <1>3, <2>1 DEF OwnedOnce
  <2>7. \A u, v \in Packets : u # v => got'[u] \cap got'[v] = {}
    <3> SUFFICES ASSUME NEW u \in Packets, NEW v \in Packets, u # v, NEW x \in got'[u], x \in got'[v]
                 PROVE  FALSE
      OBVIOUS
    <3>1. (x \in got[u] \/ x = p) /\ (x \in got[v] \/ x = p) /\ x # p
      BY <1>3
    <3>2. ~(x \in got[u] /\ x \in got[v]) /\ p \notin got[u] /\ p \notin got[v]
      BY <1>0, <1>3 DEF OwnedOnce
    <3> QED
      BY <3>1, <3>2
  <2>8. \A f \in Epts, u \in Packets : hand'[f] \notin got'[u] /\ ToSet(recvCache'[f]) \cap got'[u] = {}
    <3> TAKE f \in Epts, u \in Packets
    <3>1. hand'[f] \notin got'[u]
      <4>1. hand[f] \notin got[u] /\ None \notin got[u]
        BY <1>0, <2>2 DEF OwnedOnce
      <4>2. hand'[f] \notin got[u] /\ hand'[f] # p
        BY <1>3, <4>1
      <4> QED
        BY <1>3, <4>2
    <3>2. ToSet(recvCache'[f]) \cap got'[u] = {}
      BY <1>0, <1>3 DEF OwnedOnce
    <3> QED
      BY <3>1, <3>2
  <2>9. (\A f \in Epts : ToSet(recvCache'[f]) \subseteq arrived') /\ \A u \in Packets : got'[u] \subseteq arrived'
    <3>1. \A f \in Epts : ToSet(recvCache'[f]) \subseteq arrived
      BY <1>0, <1>3 DEF OwnedOnce
    <3>2. \A u \in Packets : got'[u] \subseteq arrived
      BY <1>0, <1>3 DEF OwnedOnce
    <3> QED
      BY <1>3, <3>1, <3>2
  <2> QED
    BY <1>3, <2>4, <2>5, <2>6, <2>7, <2>8, <2>9 DEF OwnedOnce
<1>4. ASSUME NEW e \in Epts, Deliver(e) PROVE OwnedOnce'
  <2> DEFINE t == recvIOQs[e][Accepting(e, hand[e])]
  <2>1. hand[e] \in arrived /\ hand[e] # None
    BY <1>0, <1>4, InHand, Constants DEF Deliver, Outside
  <2>2. /\ got' = [got EXCEPT ![t] = @ \cup {hand[e]}] /\ hand' = [hand EXCEPT ![e] = None]
        /\ UNCHANGED <<recvCache, arrived>>
    BY <1>4 DEF Deliver, Write
  <2> HIDE DEF t
  <2>3. \A u \in Packets : hand[e] \notin got[u]
    BY <1>0 DEF OwnedOnce
  <2>4. /\ \A u \in Packets : \A x \in got'[u] : x \in got[u] \/ x = hand[e]
        /\ \A u, v \in Packets : hand[e] \in got'[u] /\ hand[e] \in got'[v] => u = v
    BY <1>0, <2>2, <2>3, Shapes
  <2>5. \A f \in Epts : hand'[f] = IF f = e THEN None ELSE hand[f]
    BY <1>0, <2>2, Shapes
  <2>6. /\ \A u \in Packets : hand[e] \notin got[u]
        /\ \A f \in Epts : hand'[f] \in {hand[f], None} /\ hand'[f] # hand[e]
        /\ \A f \in Epts : IsInjective(recvCache[f]) /\ hand[e] \notin ToSet(recvCache[f])
    BY <1>0, <2>1, <2>5 DEF OwnedOnce
  <2>7. \A f \in Epts : IsInjective(recvCache'[f]) /\ ToSet(recvCache'[f]) \subseteq ToSet(recvCache[f]) \ {hand[e]}
    BY <2>2, <2>6
  <2> QED
    BY <1>3, <2>1, <2>2, <2>4, <2>6, <2>7
<1>5. ASSUME NEW e \in Epts, Flush(e) PROVE OwnedOnce'
  <2> DEFINE f == refEndPoint[hand[e]]
             cache == recvCache[f]
             p == cache[walk[e]]
             rest == RemoveAt(cache, walk[e])
  <2>1. f \in Epts /\ walk[e] \in 1 .. Len(cache) /\ cache \in Seq(Packets) /\ IsInjective(cache)
    BY <1>0, <1>5, InHand DEF Flush, LivesInStep, Locked, Outside, IInv, TypeOK, OwnedOnce
  <2>2. p \in ToSet(cache)
    BY <2>1 DEF ToSet
  <2>3. IsInjective(rest) /\ ToSet(rest) = ToSet(cache) \ {p}
    BY <2>1, RemoveAtFromInjective
  <2>4. UNCHANGED <<hand, arrived>>
    BY <1>5 DEF Flush
  <2>5. CASE Write(hand[e], p) /\ recvCache' = [recvCache EXCEPT ![f] = rest]
    <3>1. \A u \in Packets : p \notin got[u]
      BY <1>0, <2>1, <2>2 DEF OwnedOnce
    <3>2. /\ \A u \in Packets : \A x \in got'[u] : x \in got[u] \/ x = p
          /\ \A u, v \in Packets : p \in got'[u] /\ p \in got'[v] => u = v
      BY <1>0, <2>5, <3>1, Shapes DEF Write
    <3>3. \A g \in Epts : recvCache'[g] = IF g = f THEN rest ELSE recvCache[g]
      BY <1>0, <2>5, Shapes
    <3> HIDE DEF rest, p
    <3>4. /\ p \in arrived
          /\ \A u \in Packets : p \notin got[u]
          /\ \A g \in Epts : hand'[g] = hand[g] /\ hand[g] # p
      BY <1>0, <2>1, <2>2, <2>4 DEF OwnedOnce
    <3>5. \A g \in Epts : IsInjective(recvCache'[g]) /\ ToSet(recvCache'[g]) \subseteq ToSet(recvCache[g]) \ {p}
      <4> TAKE g \in Epts
      <4>1. CASE g = f
        BY <2>3, <3>3, <4>1
      <4>2. CASE g # f
        BY <1>0, <2>1, <2>2, <3>3, <4>2 DEF OwnedOnce
      <4> QED
        BY <4>1, <4>2
    <3>6. \A g \in Epts : hand'[g] \in {hand[g], None} /\ hand'[g] # p
      BY <3>4
    <3>7. UNCHANGED arrived
      BY <2>4
    <3>8. p \in arrived /\ \A u \in Packets : p \notin got[u]
      BY <3>4
    <3> QED
      BY <1>3, <3>2, <3>5, <3>6, <3>7, <3>8
  <2>6. CASE UNCHANGED <<recvCache, got>>
    BY <1>1, <2>4, <2>6
  <2> QED
    BY <1>5, <2>5, <2>6 DEF Flush
<1>6. ASSUME NEW e \in Epts, Encache(e) PROVE OwnedOnce'
  <2> DEFINE gone == IF pc[e] = "replacing" THEN 1 ELSE 0
             kept == SubSeq(recvCache[e], 1 + gone, Len(recvCache[e]))
  <2>1. /\ gone \in {0, 1} /\ gone <= Len(recvCache[e]) /\ hand[e] \in Packets /\ hand[e] \in arrived
        /\ recvCache' = [recvCache EXCEPT ![e] = Append(kept, hand[e])]
        /\ hand' = [hand EXCEPT ![e] = None] /\ UNCHANGED <<arrived, got>>
    BY <1>0, <1>6, InHand DEF Encache, Outside
  <2>2. kept \in Seq(Packets) /\ ToSet(kept) \subseteq ToSet(recvCache[e]) /\ IsInjective(kept)
    <3>1. recvCache[e] \in Seq(Packets) /\ IsInjective(recvCache[e])
      BY <1>0 DEF OwnedOnce, TypeOK
    <3> HIDE DEF gone
    <3> QED
      BY <2>1, <3>1, DropFirst
  <2> HIDE DEF gone, kept
  <2>3. ToSet(Append(kept, hand[e])) = ToSet(kept) \cup {hand[e]} /\ IsInjective(Append(kept, hand[e]))
    BY <1>0, <2>1, <2>2, AppendToInjective DEF OwnedOnce
  <2>4. \A f \in Epts : hand'[f] = IF f = e THEN None ELSE hand[f]
    BY <1>0, <2>1, Shapes
  <2>5. /\ \A f \in Epts : f # e => recvCache'[f] = recvCache[f]
        /\ ToSet(recvCache'[e]) \subseteq ToSet(recvCache[e]) \cup {hand[e]} /\ IsInjective(recvCache'[e])
    BY <1>0, <2>1, <2>2, <2>3, Shapes
  <2>6. \A f \in Epts : None \notin ToSet(recvCache[f])
    BY <1>0, Constants DEF ToSet, TypeOK
  <2>7. \A u \in Packets : None \notin got[u]
    BY <1>0, Constants DEF TypeOK
  <2>8. hand[e] # None
    BY <2>1, Constants
  <2>9. \A f \in Epts : f # e => ToSet(recvCache'[e]) \cap ToSet(recvCache'[f]) = {}
    BY <1>0, <2>1, <2>5 DEF OwnedOnce
  <2>10. \A f, g \in Epts : hand'[f] \notin ToSet(recvCache'[g])
    BY <1>0, <2>1, <2>4, <2>5, <2>6, <2>8 DEF OwnedOnce
  <2>11. \A f \in Epts, u \in Packets : hand'[f] \notin got'[u] /\ ToSet(recvCache'[f]) \cap got'[u] = {}
    BY <1>0, <2>1, <2>4, <2>5, <2>7 DEF OwnedOnce
  <2>12. /\ \A f, g \in Epts : f # g => ToSet(recvCache'[f]) \cap ToSet(recvCache'[g]) = {}
         /\ \A f \in Epts : IsInjective(recvCache'[f]) /\ ToSet(recvCache'[f]) \subseteq arrived'
    BY <1>0, <2>1, <2>5, <2>9 DEF OwnedOnce
  <2>13. \A f, g \in Epts : hand'[f] = hand'[g] /\ hand'[f] # None => f = g
    BY <1>0, <2>4 DEF OwnedOnce
  <2>14. (\A t, u \in Packets : t # u => got'[t] \cap got'[u] = {}) /\ \A t \in Packets : got'[t] \subseteq arrived'
    BY <1>0, <2>1 DEF OwnedOnce
  <2> QED
    BY <2>10, <2>11, <2>12, <2>13, <2>14 DEF OwnedOnce
<1>7. CASE DeleteQueue
  <2>1. \A t \in Packets : got'[t] \subseteq got[t]
    BY <1>0, <1>7, Shapes DEF DeleteQueue
  <2>2. UNCHANGED <<hand, recvCache, arrived>>
    BY <1>7 DEF DeleteQueue
  <2> QED
    BY <1>0, <2>1, <2>2 DEF OwnedOnce
<1>8. ASSUME NEW e \in Epts,
             \/ LoopTest(e) \/ SelectEnds(e) \/ NotDelivered(e) \/ Trigger(e) \/ Create(e)
             \/ Moves(e) \/ DelegateRefused(e) \/ Delegate(e) \/ Register(e)
             \/ FlushEnds(e) \/ EncacheTest(e)
      PROVE  UNCHANGED <<hand, recvCache, got, arrived>>
  BY <1>8 DEF LoopTest, SelectEnds, NotDelivered, Trigger, Create, Moves, DelegateRefused,
    Delegate, Register, FlushEnds, EncacheTest
<1>9. ASSUME \/ Unregister \/ DropEndPoint \/ Call \/ Elsewhere
             \/ (\E id \in Ids : RaiseShared(id) \/ RaiseNew(id))
             \/ (\E t \in Packets : Silence(t) \/ Reclaim(t)) \/ (\E s \in Sessions : ReleaseSession(s))
      PROVE  UNCHANGED <<hand, recvCache, got, arrived>>
  BY <1>9 DEF Unregister, DropEndPoint, Call, ListEndPoint, Insert, Drop, Erase, Clear, Free, Elsewhere,
    RaiseShared, RaiseNew, Silence, Reclaim, ReleaseSession
<1> QED
  BY <1>1, <1>2, <1>4, <1>5, <1>6, <1>7, <1>8, <1>9, NextSteps DEF Steps, Handles, Delete

\* Until then nobody goes through a freed pointer.
LEMMA UnracedTouchesNothing ==
  ASSUME IInv, Unraced
  PROVE  ~TouchesFreed
<1>0. TypeOK
  BY DEF IInv
<1> SUFFICES ASSUME TouchesFreed PROVE FALSE
  OBVIOUS
<1>1. \A e \in Epts : Inside(e) => recving[e] /\ ept[e] = "live"
  BY DEF Unraced, IInv, ReceivingIsListed
<1>2. ASSUME NEW e \in Epts, pc[e] = "got", NEW t \in ToSet(recvIOQs[e]), Deleted(t) PROVE FALSE
  BY <1>1, <1>2 DEF IInv, StaleIsStopped, Inside, Outside, Deleted
<1>3. ASSUME NEW e \in Epts, pc[e] = "creating" /\ session[asked[e]] = "dead" PROVE FALSE
  BY <1>3 DEF Unraced
<1>4. ASSUME NEW e \in Epts, pc[e] = "registering" /\ node[e] \notin {None, inEpts} PROVE FALSE
  BY <1>4 DEF Unraced
<1>5. ASSUME NEW e \in Epts, pc[e] = "flushing" /\ walk[e] = 0 PROVE FALSE
  BY <1>0, <1>5 DEF Unraced, TypeOK
<1>6. ASSUME NEW e \in Epts, pc[e] = "testing" /\ ept[e] = "freed" PROVE FALSE
  BY <1>1, <1>6 DEF Inside, Outside
<1>7. ASSUME NEW e \in Epts, pc[e] = "replacing" /\ recvCache[e] = <<>> PROVE FALSE
  BY <1>7 DEF Unraced
<1>8. ASSUME victim # None, vnode \notin {None, inEpts} PROVE FALSE
  BY <1>8 DEF Unraced
<1> QED
  BY <1>2, <1>3, <1>4, <1>5, <1>6, <1>7, <1>8 DEF TouchesFreed

LEMMA UnracedKept == IInv /\ [Next]_vars => (~raced' => Unraced')
<1> SUFFICES ASSUME IInv, [Next]_vars, ~raced' PROVE Unraced'
  OBVIOUS
<1>0. /\ TypeOK /\ HandsInside /\ LivesInStep /\ LockedOnce /\ SessionPlaces /\ HoldersCounted
      /\ ReceivingIsListed /\ OwnedOnce
  BY DEF IInv
<1>1. ~raced /\ Unraced
  <2>1. raced => raced'
    BY <1>0, NextSteps DEF Steps, Handles, LoopTest, SelectEnds, Deliver, NotDelivered, Trigger, Create, Moves,
      DelegateRefused, Delegate, Register, Flush, FlushEnds, EncacheTest, Encache, Receive, Silence,
      Reclaim, Delete, Unregister, DeleteQueue, DropEndPoint, RaiseShared, RaiseNew, Call, ListEndPoint,
      Insert, Drop, Erase, Clear, Free, ReleaseSession, Elsewhere
  <2> QED
    BY <2>1 DEF IInv
<1>2. ASSUME NEW e \in Epts, NEW p \in Packets, Receive(e, p) PROVE Unraced'
  BY <1>0, <1>1, <1>2, Shapes DEF Receive, Goto, Unraced, Inside, Outside, Making, Moving, Asked, Locked
<1>3. ASSUME NEW e \in Epts, Trigger(e) PROVE Unraced'
  <2>1. asked'[e] = IF Active(Me) = {} THEN None ELSE CHOOSE s \in Active(Me) : TRUE
    BY <1>0, <1>3, Shapes DEF Trigger
  <2>2. asked'[e] # None => session[asked'[e]] = "active"
    BY <2>1 DEF Active
  <2>3. /\ pc[e] = "trigger" /\ pc' = [pc EXCEPT ![e] = IF asked'[e] = None THEN "testing" ELSE "creating"]
        /\ \A f \in Epts : f # e => asked'[f] = asked[f]
    BY <1>0, <1>3, Shapes DEF Trigger, Goto
  <2>4. UNCHANGED <<apc, victim, vnode, recving, session, node, inEpts, refEndPoint, hand, walk, recvCache>>
    BY <1>3 DEF Trigger
  <2> QED
    BY <1>0, <1>1, <2>2, <2>3, <2>4, Shapes DEF Unraced, Inside, Outside, Making, Moving, Asked, Locked
<1>4. ASSUME NEW e \in Epts, Create(e) PROVE Unraced'
  <2> DEFINE s == asked[e]
  <2>1. /\ pc[e] = "creating" /\ hand[e] \in Packets /\ hand[e] # None /\ s \in Sessions /\ session[s] = "active"
        /\ Inside(e)
    <3>1. pc[e] = "creating" /\ Inside(e)
      BY <1>4 DEF Create, Inside, Outside
    <3>2. hand[e] \in Packets /\ hand[e] # None
      BY <1>0, <3>1, InHand, Constants DEF Inside
    <3>3. s \in Sessions /\ session[s] = "active"
      BY <1>0, <1>1, <3>1 DEF Unraced, HandsInside, TypeOK
    <3> QED
      BY <3>1, <3>2, <3>3
  <2>2. pEpt[s] = inEpts /\ pEpt[s] \in Epts
    BY <1>0, <2>1 DEF HoldersCounted, Holders, SessionPlaces
  <2>3. e = inEpts
    BY <1>0, <1>1, <2>1, <2>2, Constants DEF Unraced, ReceivingIsListed, HoldersCounted
  <2>4. /\ pc' = [pc EXCEPT ![e] = "delegating"]
        /\ \A f \in Epts : f # e => asked'[f] = asked[f]
        /\ \A t \in Packets : refEndPoint'[t] = IF t = hand[e] THEN e ELSE refEndPoint[t]
    BY <1>0, <1>4, <2>2, <2>3, Shapes DEF Create, Goto
  <2>5. UNCHANGED <<apc, victim, vnode, recving, session, node, inEpts, hand, walk, recvCache>>
    BY <1>4 DEF Create
  <2>6. \A f \in Epts : pc'[f] \in Making \cup Locked => refEndPoint'[hand'[f]] = f
    <3>1. \A f \in Epts : f # e => pc'[f] = pc[f] /\ hand[f] # hand[e]
      BY <1>0, <2>1, <2>4, Shapes DEF OwnedOnce
    <3>2. \A f \in Epts : pc[f] \in Making \cup Locked => hand[f] \in Packets
      BY <1>0, InHand DEF Making, Moving, Asked, Locked, Outside
    <3> QED
      BY <1>1, <2>1, <2>4, <2>5, <3>1, <3>2 DEF Unraced
  <2> QED
    BY <1>0, <1>1, <2>1, <2>4, <2>5, <2>6, Shapes DEF Unraced, Inside, Outside, Making, Moving, Asked, Locked
<1>5. ASSUME NEW e \in Epts, Encache(e) PROVE Unraced'
  <2>1. /\ pc' = [pc EXCEPT ![e] = "top"] /\ hand' = [hand EXCEPT ![e] = None]
        /\ \A f \in Epts : f # e => recvCache'[f] = recvCache[f]
        /\ \A f \in Epts : f \notin Walking(e) => walk'[f] = walk[f]
        /\ UNCHANGED <<apc, victim, vnode, recving, session, asked, node, inEpts, refEndPoint>>
    BY <1>0, <1>5, Shapes DEF Encache, Goto
  <2>2. \A f \in Epts : f # e => f \notin Walking(e)
    BY <1>1 DEF Walking, Unraced, Locked
  <2> QED
    BY <1>0, <1>1, <2>1, <2>2, Shapes DEF Unraced, Inside, Outside, Making, Moving, Asked, Locked
<1>6. ASSUME NEW e \in Epts, Flush(e) PROVE Unraced'
  <2> DEFINE f == refEndPoint[hand[e]]
  <2>1. pc[e] = "flushing" /\ f = e
    BY <1>1, <1>6 DEF Flush, Unraced, Locked
  <2>2. /\ \A g \in Epts : g # e => recvCache'[g] = recvCache[g] /\ walk'[g] = walk[g]
        /\ walk'[e] >= 1
    BY <1>0, <1>1, <1>6, <2>1, Shapes DEF Flush, Unraced, TypeOK
  <2>3. UNCHANGED <<pc, hand, apc, victim, vnode, recving, session, asked, node, inEpts, refEndPoint>>
    BY <1>6 DEF Flush
  <2> QED
    BY <1>0, <1>1, <2>1, <2>2, <2>3 DEF Unraced, Inside, Outside, Making, Moving, Asked, Locked
<1>7. ASSUME NEW e \in Epts,
             \/ LoopTest(e) \/ SelectEnds(e) \/ Deliver(e) \/ NotDelivered(e)
             \/ Moves(e) \/ DelegateRefused(e) \/ Delegate(e) \/ FlushEnds(e)
      PROVE  Unraced'
  <2>1. /\ UNCHANGED <<apc, victim, vnode, recving, session, asked, inEpts, refEndPoint, recvCache>>
        /\ \A f \in Epts : f # e => pc'[f] = pc[f] /\ hand'[f] = hand[f] /\ node'[f] = node[f] /\ walk'[f] = walk[f]
    BY <1>0, <1>7, Shapes DEF LoopTest, SelectEnds, Deliver, NotDelivered, Moves, DelegateRefused,
      Delegate, FlushEnds, Goto
  <2>2. CASE pc'[e] \in Outside
    BY <1>0, <1>1, <2>1, <2>2 DEF Unraced, Inside, Outside, Making, Moving, Asked, Locked
  <2>3. CASE /\ Inside(e) /\ hand'[e] = hand[e]
             /\ \/ pc'[e] \in {"testing", "trigger"}
                \/ pc[e] \in Moving /\ pc'[e] \in Asked
                \/ pc[e] = "locking" /\ pc'[e] = "registering" /\ node'[e] = inEpts
    BY <1>0, <1>1, <2>1, <2>3 DEF Unraced, Inside, Outside, Making, Moving, Asked, Locked
  <2> QED
    BY <1>0, <1>7, <2>2, <2>3, Shapes DEF LoopTest, SelectEnds, Deliver, NotDelivered, Moves,
      DelegateRefused, Delegate, FlushEnds, Goto, Inside, Outside, Moving, Asked
<1>8. ASSUME NEW e \in Epts, Register(e) \/ EncacheTest(e) PROVE Unraced'
  <2>1. CASE Register(e)
    BY <1>0, <1>1, <2>1, Shapes DEF Register, Goto, Unraced, Inside, Outside, Making, Moving, Asked, Locked
  <2>2. CASE EncacheTest(e)
    BY <1>0, <1>1, <2>2, Shapes, Constants DEF EncacheTest, Goto, Unraced, Inside, Outside, Making, Moving, Asked, Locked
  <2> QED
    BY <1>8, <2>1, <2>2
<1>9. ASSUME NEW t \in Packets, Silence(t) \/ Reclaim(t) PROVE Unraced'
  <2>1. UNCHANGED <<pc, hand, apc, recving, session, asked, node, inEpts, refEndPoint, walk, recvCache>>
    BY <1>9 DEF Silence, Reclaim
  <2>2. victim' # None => vnode' \in {None, inEpts}
    BY <1>1, <1>9 DEF Silence, Reclaim, Unraced
  <2>3. apc \in Releasing => victim' = None
    BY <1>1, <1>9 DEF Silence, Reclaim, Unraced
  <2> QED
    BY <1>1, <2>1, <2>2, <2>3 DEF Unraced, Inside
<1>10. CASE Delete
  BY <1>0, <1>1, <1>10 DEF Delete, Unregister, DeleteQueue, DropEndPoint, Unraced, Inside
<1>11. ASSUME NEW id \in Ids, RaiseShared(id) PROVE Unraced'
  <2>1. NextSession \in Sessions /\ session[NextSession] = "new"
    BY <1>11, Fresh DEF RaiseShared
  <2>2. /\ apc' = "inserting" /\ \A s \in Sessions : s # NextSession => session'[s] = session[s]
        /\ UNCHANGED <<pc, hand, victim, vnode, recving, asked, node, inEpts, refEndPoint, walk, recvCache>>
    BY <1>0, <1>11, Shapes DEF RaiseShared
  <2>3. \A e \in Epts : pc[e] = "creating" => asked[e] \in Sessions
    BY <1>0 DEF HandsInside, TypeOK
  <2> QED
    BY <1>0, <1>1, <2>1, <2>2, <2>3 DEF Unraced, Inside, Releasing
<1>12. ASSUME NEW id \in Ids, RaiseNew(id) PROVE Unraced'
  <2>1. NextSession \in Sessions /\ session[NextSession] = "new" /\ NextEpt \in Epts
    BY <1>12, Fresh DEF RaiseNew
  <2>2. /\ apc' = "pushing" /\ \A s \in Sessions : s # NextSession => session'[s] = session[s]
        /\ pc' = [pc EXCEPT ![NextEpt] = "top"] /\ recving' = [recving EXCEPT ![NextEpt] = TRUE]
        /\ UNCHANGED <<hand, victim, vnode, asked, node, inEpts, refEndPoint, walk, recvCache>>
    BY <1>0, <1>12, Shapes DEF RaiseNew, Goto
  <2>3. \A e \in Epts : pc[e] = "creating" => asked[e] \in Sessions
    BY <1>0 DEF HandsInside, TypeOK
  <2> QED
    BY <1>0, <1>1, <2>1, <2>2, <2>3, Shapes DEF Unraced, Inside, Outside, Releasing, Making, Moving, Asked, Locked
<1>13. CASE Call
  <2>1. UNCHANGED <<pc, hand, victim, vnode, asked, node, refEndPoint, walk, recvCache>>
    BY <1>13 DEF Call, ListEndPoint, Insert, Drop, Erase, Clear, Free
  <2>2. apc' \in Releasing => apc \in Releasing
    BY <1>13 DEF Call, ListEndPoint, Insert, Drop, Erase, Clear, Free, Releasing
  <2>3. CASE apc \in Releasing
    <3>1. victim = None /\ \A e \in Epts : ~Inside(e)
      BY <1>1, <2>3 DEF Unraced
    <3> QED
      BY <1>1, <2>1, <3>1 DEF Unraced, Inside, Outside, Making, Moving, Asked, Locked
  <2>4. CASE ListEndPoint
    BY <1>0, <1>1, <2>1, <2>2, <2>4 DEF ListEndPoint, Unraced, HoldersCounted, Inside
  <2>5. CASE Insert
    <3>1. \A s \in Sessions : session[s] = "active" => session'[s] = "active"
      BY <1>0, <2>5, Shapes DEF Insert
    <3>2. \A e \in Epts : pc[e] = "creating" => asked[e] \in Sessions
      BY <1>0 DEF HandsInside, TypeOK
    <3> QED
      BY <1>0, <1>1, <2>1, <2>2, <2>5, <3>1, <3>2 DEF Insert, Unraced, Inside
  <2> QED
    BY <1>13, <2>3, <2>4, <2>5 DEF Call, Drop, Erase, Clear, Free, Releasing
<1>14. ASSUME NEW s \in Sessions, ReleaseSession(s) PROVE Unraced'
  <2>1. victim = None /\ \A e \in Epts : ~Inside(e)
    BY <1>14 DEF ReleaseSession
  <2> QED
    BY <1>1, <1>14, <2>1 DEF ReleaseSession, Unraced, Inside, Outside, Making, Moving, Asked, Locked
<1>15. CASE Elsewhere
  BY <1>1, <1>15 DEF Elsewhere, Unraced, Inside
<1> QED
  BY <1>2, <1>3, <1>4, <1>5, <1>6, <1>7, <1>8, <1>9, <1>10, <1>11, <1>12, <1>13, <1>14, <1>15, NextSteps
  DEF Steps, Handles

\* A looper that has read a pointer to the talk has the talk that is there, or one
\* was deleted since it began to look.
LEMMA LooksAreLiveKept == IInv /\ [Next]_vars => LooksAreLive'
<1> SUFFICES ASSUME IInv, [Next]_vars PROVE LooksAreLive'
  OBVIOUS
<1>0. TypeOK /\ LooksAreLive
  BY DEF IInv
<1> DEFINE Looks == {"looking", "asking"}
<1>1. ASSUME UNCHANGED <<talk, crashed>>, ~crashed, \A e \in Epts : pc'[e] \in Looks <=> pc[e] \in Looks
      PROVE  LooksAreLive'
  BY <1>0, <1>1 DEF LooksAreLive
<1>2. ASSUME NEW e \in Epts, pc[e] \notin Looks, NEW place, place \notin Looks, Goto(e, place),
             UNCHANGED <<talk, crashed>>, ~crashed
      PROVE  LooksAreLive'
  <2>1. \A f \in Epts : pc'[f] \in Looks <=> pc[f] \in Looks
    BY <1>0, <1>2, Shapes DEF Goto
  <2> QED
    BY <1>1, <1>2, <2>1
<1>3. ASSUME NEW e \in Epts, ~crashed,
             \/ LoopTest(e) \/ SelectEnds(e) \/ Deliver(e) \/ NotDelivered(e) \/ Trigger(e)
             \/ Create(e) \/ DelegateRefused(e) \/ Delegate(e) \/ Register(e)
             \/ FlushEnds(e) \/ EncacheTest(e) \/ Encache(e) \/ \E p \in Packets : Receive(e, p)
      PROVE  LooksAreLive'
  <2>1. pc[e] \notin Looks /\ UNCHANGED <<talk, crashed>>
    BY <1>3 DEF LoopTest, SelectEnds, Deliver, NotDelivered, Trigger, Create, DelegateRefused,
      Delegate, Register, FlushEnds, EncacheTest, Encache, Receive
  <2>2. \/ \E place \in {"top", "select", "ended", "got", "trigger", "testing"} : Goto(e, place)
        \/ \E place \in {"creating", "delegating", "registering", "flushing", "pushing", "replacing"} :
             Goto(e, place)
    <3>1. CASE LoopTest(e) \/ SelectEnds(e) \/ NotDelivered(e) \/ FlushEnds(e) \/ DelegateRefused(e)
      BY <3>1 DEF LoopTest, SelectEnds, NotDelivered, FlushEnds, DelegateRefused
    <3>2. CASE Deliver(e) \/ Encache(e) \/ EncacheTest(e) \/ \E p \in Packets : Receive(e, p)
      BY <3>2 DEF Deliver, Encache, EncacheTest, Receive
    <3>3. CASE Trigger(e) \/ Create(e) \/ Delegate(e) \/ Register(e)
      BY <3>3 DEF Trigger, Create, Delegate, Register
    <3> QED
      BY <1>3, <3>1, <3>2, <3>3
  <2> QED
    BY <1>2, <1>3, <2>1, <2>2
<1>4. ASSUME NEW e \in Epts, ~crashed, DelegateTest(e) PROVE LooksAreLive'
  <2>1. pc[e] = "delegating" /\ look[e] = "none" /\ UNCHANGED <<recSource, crashed>>
    BY <1>0, <1>4 DEF DelegateTest, LooksAreLive
  <2>2. CASE recSource = "null"
    BY <1>2, <1>4, <2>1, <2>2 DEF DelegateTest
  <2>3. CASE recSource # "null"
    <3>1. /\ pc' = [pc EXCEPT ![e] = "looking"] /\ look' = [look EXCEPT ![e] = "tested"]
          /\ overtaken \subseteq overtaken' /\ (recSource = "freed" => e \in overtaken')
      BY <1>4, <2>3 DEF DelegateTest, Goto
    <3>2. recSource \in {"alive", "freed"}
      BY <1>0, <2>3 DEF TypeOK
    <3> QED
      BY <1>0, <1>4, <2>1, <3>1, <3>2, Shapes DEF LooksAreLive
  <2> QED
    BY <2>2, <2>3
<1>5. ASSUME NEW e \in Epts, ~crashed, LookFetch(e) PROVE LooksAreLive'
  <2>1. /\ look[e] = "tested" /\ look' = [look EXCEPT ![e] = recSource]
        /\ UNCHANGED <<pc, recSource, overtaken, crashed>>
    BY <1>5 DEF LookFetch
  <2>2. recSource \in {"null", "alive", "freed"}
    BY <1>0 DEF TypeOK
  <2> QED
    BY <1>0, <1>5, <2>1, <2>2, Shapes DEF LooksAreLive
<1>6. ASSUME NEW e \in Epts, ~crashed, LookAsk(e) PROVE LooksAreLive'
  <2>1. CASE look[e] = "null"
    <3>1. UNCHANGED <<pc, talk>> /\ e \in overtaken
      BY <1>0, <1>6, <2>1 DEF LookAsk, LooksAreLive
    <3> QED
      BY <1>0, <3>1 DEF LooksAreLive
  <2>2. CASE look[e] # "null"
    <3>1. look[e] \in {"alive", "freed"} /\ pc[e] \in Looks /\ UNCHANGED <<recSource, crashed>>
      BY <1>0, <1>6, <2>2 DEF LookAsk, LooksAreLive
    <3>2. CASE pc[e] = "looking"
      <4>1. /\ pc' = [pc EXCEPT ![e] = "asking"] /\ look' = [look EXCEPT ![e] = "tested"]
            /\ UNCHANGED overtaken
        BY <1>6, <2>2, <3>2 DEF LookAsk, Goto
      <4> QED
        BY <1>0, <1>6, <3>1, <4>1, Shapes DEF LooksAreLive
    <3>3. CASE pc[e] # "looking"
      <4>1. PICK place \in {"refused", "locking"} : pc' = [pc EXCEPT ![e] = place]
        BY <1>6, <2>2, <3>3 DEF LookAsk, Goto
      <4>2. look' = [look EXCEPT ![e] = "none"] /\ overtaken' = overtaken \ {e}
        BY <1>6, <2>2, <3>3 DEF LookAsk
      <4> QED
        BY <1>0, <1>6, <3>1, <4>1, <4>2, Shapes DEF LooksAreLive
    <3> QED
      BY <3>2, <3>3
  <2> QED
    BY <2>1, <2>2
<1>7. ASSUME ~crashed, TalkBegins \/ TalkForgotten PROVE LooksAreLive'
  <2>1. /\ UNCHANGED <<pc, look, overtaken, crashed>> /\ recSource # "alive"
        /\ recSource' = "alive" \/ recSource = "freed"
    BY <1>7 DEF TalkBegins, TalkForgotten
  <2> QED
    BY <1>0, <1>7, <2>1 DEF LooksAreLive
<1>8. CASE ~crashed /\ TalkDeleted
  <2>1. /\ look' = [e \in Epts |-> IF look[e] = "alive" THEN "freed" ELSE look[e]]
        /\ overtaken' = overtaken \cup {e \in Epts : look[e] # "none"}
        /\ UNCHANGED <<pc, crashed>>
    BY <1>8 DEF TalkDeleted
  <2> QED
    BY <1>0, <1>8, <2>1 DEF LooksAreLive
<1>9. CASE Crash
  <2>1. UNCHANGED <<pc, talk, raced>>
    BY <1>9 DEF Crash
  <2>2. TouchesFreed => raced
    BY UnracedTouchesNothing DEF IInv
  <2>3. ASSUME NEW e \in Epts, TouchesTalk(e) PROVE e \in overtaken
    BY <1>0, <2>3 DEF TouchesTalk, LooksAreLive
  <2>4. raced \/ overtaken # {}
    BY <1>9, <2>2, <2>3 DEF Crash
  <2> QED
    BY <1>0, <2>1, <2>4 DEF LooksAreLive
<1>10. ASSUME ~crashed, NEW id \in Ids, RaiseNew(id) PROVE LooksAreLive'
  <2>1. NextEpt \in Epts /\ pc[NextEpt] = "none" /\ Goto(NextEpt, "top") /\ UNCHANGED <<talk, crashed>>
    BY <1>10, Fresh DEF RaiseNew
  <2> QED
    BY <1>2, <1>10, <2>1
<1>11. ASSUME ~crashed,
              \/ Delete \/ Call \/ (\E e \in Epts : Flush(e)) \/ (\E id \in Ids : RaiseShared(id))
              \/ (\E t \in Packets : Silence(t) \/ Reclaim(t)) \/ (\E s \in Sessions : ReleaseSession(s))
       PROVE  LooksAreLive'
  <2>1. UNCHANGED <<pc, talk, crashed>>
    BY <1>11 DEF Delete, Flush, Call, Unregister, DeleteQueue, DropEndPoint, ListEndPoint, Insert, Drop,
      Erase, Clear, Free, RaiseShared, Silence, Reclaim, ReleaseSession
  <2> QED
    BY <1>1, <1>11, <2>1
<1>12. CASE UNCHANGED vars
  BY <1>0, <1>12 DEF LooksAreLive
<1> QED
  BY <1>3, <1>4, <1>5, <1>6, <1>7, <1>8, <1>9, <1>10, <1>11, <1>12 DEF Next, Handle

\* A queue that accepts is one of the list.
LEMMA AcceptingIndex ==
  ASSUME TypeOK, NEW e \in Epts, NEW p, Accepting(e, p) # 0
  PROVE  Accepting(e, p) \in 1 .. Len(recvIOQs[e]) /\ recvIOQs[e][Accepting(e, p)] \in Packets
<1> DEFINE I == {i \in 1 .. Len(recvIOQs[e]) : Accepts(recvIOQs[e][i], p)}
<1>1. recvIOQs[e] \in Seq(Packets)
  BY DEF TypeOK
<1>2. I # {} /\ Accepting(e, p) = Min(I)
  BY DEF Accepting, SelectInSeq
<1>3. I \in SUBSET Nat
  BY <1>1
<1>4. Min(I) \in I
  BY <1>2, <1>3, LeastNumber DEF Min
<1>5. Min(I) \in 1 .. Len(recvIOQs[e])
  BY <1>4
<1>6. Accepting(e, p) \in 1 .. Len(recvIOQs[e])
  BY <1>2, <1>5
<1> QED
  BY <1>1, <1>6

LEMMA TypeOKKept == IInv /\ [Next]_vars => TypeOK'
<1> SUFFICES ASSUME IInv, [Next]_vars PROVE TypeOK'
  OBVIOUS
<1>0. TypeOK /\ HandsInside /\ LivesInStep /\ SessionPlaces /\ CachesBounded
  BY DEF IInv
\* The looper, but for its walks.
<1>1. ASSUME NEW e \in Epts, LoopTest(e) \/ SelectEnds(e) \/ NotDelivered(e) PROVE TypeOK'
  <2>1. PICK place \in {"top", "select", "ended", "testing", "trigger"} : Goto(e, place)
    BY <1>1 DEF LoopTest, SelectEnds, NotDelivered
  <2>2. pc' \in [Epts -> Outside \cup {"got", "trigger", "creating", "delegating", "looking", "asking",
                                       "refused", "locking", "registering", "flushing", "testing", "pushing",
                                       "replacing"}]
    BY <1>0, <2>1 DEF Goto, TypeOK, Outside
  <2>3. UNCHANGED <<manager, ept, recving, content, hand, asked, node, walk, arrived, trans, application,
                    scheduler, raced, talk, crashed>>
    BY <1>1 DEF LoopTest, SelectEnds, NotDelivered
  <2> QED
    BY <1>0, <2>2, <2>3 DEF TypeOK
<1>2. ASSUME NEW e \in Epts, NEW p \in Packets, Receive(e, p) PROVE TypeOK'
  <2>1. raced' \in BOOLEAN
    BY <1>0, <1>2 DEF Receive, TypeOK
  <2>2. hand' \in [Epts -> Packets \cup {None}] /\ arrived' \subseteq Packets
    BY <1>0, <1>2 DEF Receive, TypeOK
  <2> QED
    BY <1>0, <1>2, <2>1, <2>2 DEF Receive, Goto, TypeOK
<1>3. ASSUME NEW e \in Epts, Deliver(e) PROVE TypeOK'
  <2> DEFINE t == recvIOQs[e][Accepting(e, hand[e])]
  <2>1. t \in Packets /\ hand[e] \in Packets
    BY <1>0, <1>3, InHand, AcceptingIndex DEF Deliver, Outside
  <2>2. Write(t, hand[e])
    BY <1>3 DEF Deliver
  <2> HIDE DEF t
  <2>3. got' \in [Packets -> SUBSET Packets]
    BY <1>0, <2>1, <2>2 DEF Write, TypeOK
  <2>4. writtable' \in [Packets -> BOOLEAN] /\ over' \in [Packets -> BOOLEAN]
    BY <1>0, <2>1, <2>2 DEF Write, TypeOK
  <2> QED
    BY <1>0, <1>3, <2>3, <2>4 DEF Deliver, Goto, TypeOK, Outside
<1>4. ASSUME NEW e \in Epts, Trigger(e) PROVE TypeOK'
  <2>1. asked' = [asked EXCEPT ![e] = IF Active(Me) = {} THEN None ELSE CHOOSE s \in Active(Me) : TRUE]
    BY <1>4 DEF Trigger
  <2>2. asked' \in [Epts -> Sessions \cup {None}]
    <3>1. Active(Me) \subseteq Sessions
      BY DEF Active
    <3>2. (IF Active(Me) = {} THEN None ELSE CHOOSE s \in Active(Me) : TRUE) \in Sessions \cup {None}
      BY <3>1
    <3> QED
      BY <1>0, <2>1, <3>2 DEF TypeOK
  <2> QED
    BY <1>0, <1>4, <2>2 DEF Trigger, Goto, TypeOK
<1>5. ASSUME NEW e \in Epts, Create(e) PROVE TypeOK'
  <2>1. hand[e] \in Packets /\ asked[e] \in Sessions
    <3>1. hand[e] \in Packets
      BY <1>0, <1>5, InHand DEF Create, Outside
    <3>2. asked[e] \in Sessions \cup {None} /\ asked[e] # None
      BY <1>0, <1>5 DEF Create, HandsInside, TypeOK
    <3> QED
      BY <3>1, <3>2
  <2>2. pEpt[asked[e]] \in Epts \cup {None}
    BY <1>0, <2>1 DEF TypeOK
  <2>3. /\ refEndPoint' \in [Packets -> Epts \cup {None}] /\ writtable' \in [Packets -> BOOLEAN]
        /\ asked' \in [Epts -> Sessions \cup {None}]
    BY <1>0, <1>5, <2>2 DEF Create, TypeOK
  <2> QED
    BY <1>0, <1>5, <2>3 DEF Create, Goto, TypeOK
<1>6. ASSUME NEW e \in Epts, DelegateRefused(e) PROVE TypeOK'
  <2>1. ept' \in [Epts -> {"unused", "live", "freed"}]
    BY <1>0, <1>6 DEF DelegateRefused, TypeOK
  <2>2. life' \in [Packets -> {"none", "made", "listed", "removed", "deleted", "gone"}]
        /\ writtable' \in [Packets -> BOOLEAN]
    BY <1>0, <1>6 DEF DelegateRefused, TypeOK
  <2> QED
    BY <1>0, <1>6, <2>1, <2>2 DEF DelegateRefused, Goto, TypeOK
<1>7. ASSUME NEW e \in Epts, Delegate(e) PROVE TypeOK'
  BY <1>0, <1>7 DEF Delegate, Goto, TypeOK
<1>8. ASSUME NEW e \in Epts, Register(e) PROVE TypeOK'
  <2> DEFINE f == refEndPoint[hand[e]]
  <2>1. hand[e] \in Packets /\ f \in Epts
    BY <1>0, <1>8, InHand DEF Register, LivesInStep, Locked, Outside
  <2>2. recvIOQs' \in [Epts -> Seq(Packets)]
    <3>1. Append(recvIOQs[f], hand[e]) \in Seq(Packets)
      BY <1>0, <2>1, AppendProperties DEF TypeOK
    <3> QED
      BY <1>0, <1>8, <3>1 DEF Register, TypeOK
  <2>3. walk' \in [Epts -> 0 .. CacheSize + 1]
    BY <1>0, <1>8, Constants DEF Register, TypeOK
  <2> QED
    BY <1>0, <1>8, <2>2, <2>3 DEF Register, Goto, TypeOK
<1>9. ASSUME NEW e \in Epts, FlushEnds(e) \/ EncacheTest(e) PROVE TypeOK'
  <2>1. walk' \in [Epts -> 0 .. CacheSize + 1]
    BY <1>0, <1>9, Constants DEF FlushEnds, EncacheTest, TypeOK
  <2>2. PICK place \in {"testing", "pushing", "replacing"} : Goto(e, place)
    BY <1>9 DEF FlushEnds, EncacheTest
  <2>3. UNCHANGED <<manager, ept, recving, content, hand, asked, node, arrived, trans, application,
                    scheduler, raced, talk, crashed>>
    BY <1>9 DEF FlushEnds, EncacheTest
  <2>4. pc' \in [Epts -> Outside \cup {"got", "trigger", "creating", "delegating", "looking", "asking",
                                       "refused", "locking", "registering", "flushing", "testing", "pushing",
                                       "replacing"}]
    BY <1>0, <2>2 DEF Goto, TypeOK
  <2> QED
    BY <1>0, <2>1, <2>3, <2>4 DEF TypeOK
<1>10. ASSUME NEW e \in Epts, Flush(e) PROVE TypeOK'
  <2> DEFINE f == refEndPoint[hand[e]]
             cache == recvCache[f]
             rest == RemoveAt(cache, walk[e])
  <2>1. hand[e] \in Packets /\ f \in Epts /\ walk[e] \in 1 .. Len(cache)
    BY <1>0, <1>10, InHand DEF Flush, LivesInStep, Locked, Outside
  <2>2. /\ cache \in Seq(Packets) /\ Len(cache) <= CacheSize /\ Len(cache) \in Nat
        /\ cache[walk[e]] \in Packets
    BY <1>0, <2>1 DEF TypeOK
  <2>3. rest \in Seq(Packets) /\ Len(rest) = Len(cache) - 1
    BY <2>1, <2>2, RemoveAtIndices
  <2>4. CASE /\ Write(hand[e], cache[walk[e]]) /\ recvCache' = [recvCache EXCEPT ![f] = rest]
             /\ walk' = [walk EXCEPT ![e] = IF @ > Len(rest) THEN 1 ELSE @ + 1]
    <3> HIDE DEF f, rest
    <3>1. got' \in [Packets -> SUBSET Packets]
      BY <1>0, <2>1, <2>2, <2>4 DEF Write, TypeOK
    <3>2. writtable' \in [Packets -> BOOLEAN] /\ over' \in [Packets -> BOOLEAN]
      BY <1>0, <2>1, <2>4 DEF Write, TypeOK
    <3>3. recvCache' \in [Epts -> Seq(Packets)] /\ \A g \in Epts : Len(recvCache'[g]) <= CacheSize
      <4>1. Len(rest) <= CacheSize
        BY <2>2, <2>3, Constants
      <4> QED
        BY <1>0, <2>3, <2>4, <4>1 DEF TypeOK
    <3>4. walk' \in [Epts -> 0 .. CacheSize + 1]
      <4>1. walk[e] + 1 \in 0 .. CacheSize + 1 /\ 1 \in 0 .. CacheSize + 1
        BY <2>1, <2>2, Constants
      <4>2. walk' = [walk EXCEPT ![e] = IF walk[e] > Len(rest) THEN 1 ELSE walk[e] + 1]
        BY <2>4
      <4>3. walk \in [Epts -> 0 .. CacheSize + 1]
        BY <1>0 DEF TypeOK
      <4> QED
        BY <4>1, <4>2, <4>3
    <3> QED
      BY <1>0, <1>10, <3>1, <3>2, <3>3, <3>4 DEF Flush, TypeOK
  <2>5. CASE walk' = [walk EXCEPT ![e] = @ + 1] /\ UNCHANGED <<recvCache, writtable, over, got>>
    <3>1. walk' \in [Epts -> 0 .. CacheSize + 1]
      BY <1>0, <2>1, <2>2, <2>5, Constants DEF TypeOK
    <3> QED
      BY <1>0, <1>10, <2>5, <3>1 DEF Flush, TypeOK
  <2> QED
    BY <1>10, <2>4, <2>5 DEF Flush
<1>11. ASSUME NEW e \in Epts, Encache(e) PROVE TypeOK'
  <2> DEFINE gone == IF pc[e] = "replacing" THEN 1 ELSE 0
             kept == SubSeq(recvCache[e], 1 + gone, Len(recvCache[e]))
  <2>1. /\ gone \in {0, 1} /\ gone <= Len(recvCache[e]) /\ hand[e] \in Packets
        /\ hand' = [hand EXCEPT ![e] = None]
        /\ recvCache' = [recvCache EXCEPT ![e] = Append(kept, hand[e])]
        /\ walk' = [f \in Epts |->
                      IF f \notin Walking(e) THEN walk[f]
                      ELSE IF walk[f] = Len(recvCache[e]) + 1 THEN Len(kept) + 2
                      ELSE IF walk[f] > gone THEN walk[f] - gone ELSE 0]
    BY <1>0, <1>11, InHand DEF Encache, Outside
  <2>2. /\ recvCache[e] \in Seq(Packets) /\ Len(recvCache[e]) \in Nat /\ Len(recvCache[e]) <= CacheSize
        /\ gone = 0 => Len(recvCache[e]) < CacheSize
    BY <1>0, <1>11 DEF Encache, CachesBounded, TypeOK
  <2> HIDE DEF gone
  <2>3. kept \in Seq(Packets) /\ Len(kept) = Len(recvCache[e]) - gone
    BY <2>1, <2>2, DropFirst
  <2> HIDE DEF kept
  <2>4. Append(kept, hand[e]) \in Seq(Packets) /\ Len(Append(kept, hand[e])) = Len(recvCache[e]) - gone + 1
    BY <2>1, <2>3, AppendProperties
  <2>5. Len(recvCache[e]) - gone + 1 <= CacheSize
    BY <2>1, <2>2, Constants
  <2>6. recvCache' \in [Epts -> Seq(Packets)] /\ \A f \in Epts : Len(recvCache'[f]) <= CacheSize
    BY <1>0, <2>1, <2>4, <2>5 DEF TypeOK
  <2>7. ASSUME NEW f \in Epts PROVE walk'[f] \in 0 .. CacheSize + 1
    <3>1. walk[f] \in 0 .. CacheSize + 1
      BY <1>0 DEF TypeOK
    <3>2. CASE f \notin Walking(e)
      BY <2>1, <3>1, <3>2
    <3>3. CASE f \in Walking(e) /\ walk[f] = Len(recvCache[e]) + 1
      <4>1. walk'[f] = Len(recvCache[e]) - gone + 2
        BY <2>1, <2>3, <3>3
      <4>2. gone \in Int /\ gone <= Len(recvCache[e])
        BY <2>1
      <4>3. Len(recvCache[e]) \in Nat /\ CacheSize \in Nat
        BY <2>2, Constants
      <4> QED
        BY <2>5, <4>1, <4>2, <4>3
    <3>4. CASE f \in Walking(e) /\ walk[f] # Len(recvCache[e]) + 1
      <4>1. walk'[f] = IF walk[f] > gone THEN walk[f] - gone ELSE 0
        BY <2>1, <3>4
      <4> QED
        BY <2>1, <3>1, <4>1, Constants
    <3> QED
      BY <3>2, <3>3, <3>4
  <2>8. walk' \in [Epts -> 0 .. CacheSize + 1]
    BY <2>1, <2>7
  <2> QED
    BY <1>0, <1>11, <2>6, <2>8 DEF Encache, Goto, TypeOK, Outside
\* The scheduler.
<1>12. ASSUME NEW t \in Packets, Silence(t) \/ Reclaim(t) PROVE TypeOK'
  <2>1. over' \in [Packets -> BOOLEAN] /\ writtable' \in [Packets -> BOOLEAN]
    BY <1>0, <1>12 DEF Silence, Reclaim, TypeOK
  <2>2. raced' \in BOOLEAN
    BY <1>0, <1>12 DEF Silence, Reclaim, TypeOK
  <2> QED
    BY <1>0, <1>12, <2>1, <2>2 DEF Silence, Reclaim, TypeOK
<1>13. CASE Unregister
  <2> DEFINE f == refEndPoint[victim]
  <2>1. victim \in Packets /\ f \in Epts
    BY <1>0, <1>13 DEF Unregister, LivesInStep, TypeOK
  <2>2. RemoveFirst(recvIOQs[f], victim) \in Seq(Packets)
    BY <1>13, <2>1, RemoveFirstFromInjective DEF IInv, QueuesListedOnce, TypeOK
  <2>3. recvIOQs' \in [Epts -> Seq(Packets)]
    BY <1>0, <1>13, <2>2 DEF Unregister, TypeOK
  <2> QED
    BY <1>0, <1>13, <2>3 DEF Unregister, TypeOK
<1>14. CASE DeleteQueue \/ DropEndPoint
  <2>1. ept' \in [Epts -> {"unused", "live", "freed"}]
    BY <1>0, <1>14 DEF DeleteQueue, DropEndPoint, TypeOK
  <2>2. life' \in [Packets -> {"none", "made", "listed", "removed", "deleted", "gone"}]
        /\ got' \in [Packets -> SUBSET Packets]
    BY <1>0, <1>14 DEF DeleteQueue, DropEndPoint, TypeOK
  <2>3. victim' \in Packets \cup {None} /\ vnode' \in Epts \cup {None}
    BY <1>0, <1>14 DEF DeleteQueue, DropEndPoint, TypeOK
  <2>4. UNCHANGED <<manager, recving, content, looper, refEndPoint, writtable, over, application, raced, talk, crashed>>
    BY <1>14 DEF DeleteQueue, DropEndPoint
  <2> QED
    BY <1>0, <2>1, <2>2, <2>3, <2>4 DEF TypeOK
\* The application.
<1>15. refCount' \in 0 .. Cardinality(Sessions)
  <2>1. HoldersCounted' /\ SessionPlaces'
    BY HoldersCountedKept, SessionPlacesKept
  <2>2. Holders' \in SUBSET Sessions
    BY DEF Holders
  <2>3. IsFiniteSet(Holders') /\ Cardinality(Holders') <= Cardinality(Sessions)
    BY <2>2, Constants, FS_Subset
  <2>4. Cardinality(Holders') \in Nat /\ Cardinality(Sessions) \in Nat
    BY <2>3, Constants, FS_CardinalityType
  <2> QED
    BY <2>1, <2>3, <2>4 DEF HoldersCounted
<1>16. ASSUME NEW id \in Ids, RaiseShared(id) PROVE TypeOK'
  <2>1. NextSession \in Sessions
    BY <1>16 DEF RaiseShared
  <2>2. /\ session' \in [Sessions -> {"new", "made", "active", "leaving", "dead"}]
        /\ sid' \in [Sessions -> Ids \cup {None}] /\ pEpt' \in [Sessions -> Epts \cup {None}]
    BY <1>0, <1>16 DEF RaiseShared, TypeOK
  <2> QED
    BY <1>0, <1>15, <1>16, <2>1, <2>2 DEF RaiseShared, TypeOK
<1>17. ASSUME NEW id \in Ids, RaiseNew(id) PROVE TypeOK'
  <2>1. NextSession \in Sessions /\ NextEpt \in Epts
    BY <1>17, Fresh DEF RaiseNew
  <2>2. /\ session' \in [Sessions -> {"new", "made", "active", "leaving", "dead"}]
        /\ sid' \in [Sessions -> Ids \cup {None}] /\ pEpt' \in [Sessions -> Epts \cup {None}]
    BY <1>0, <1>17, <2>1 DEF RaiseNew, TypeOK
  <2>3. recving' \in [Epts -> BOOLEAN] /\ ept' \in [Epts -> {"unused", "live", "freed"}]
    BY <1>0, <1>17 DEF RaiseNew, TypeOK
  <2> QED
    BY <1>0, <1>17, <2>1, <2>2, <2>3 DEF RaiseNew, Goto, TypeOK, Outside
<1>18. CASE Call
  <2>1. apc # "idle" /\ who \in Sessions /\ (session[who] # "new" => pEpt[who] \in Epts)
    BY <1>0, <1>18 DEF Call, ListEndPoint, Insert, Drop, Erase, Clear, Free, Releasing, SessionPlaces, TypeOK
  <2>2. session[who] # "new"
    BY <1>0, <2>1 DEF SessionPlaces, TypeOK
  <2>3. CASE ListEndPoint
    BY <1>0, <1>15, <2>1, <2>2, <2>3 DEF ListEndPoint, TypeOK
  <2>4. CASE Insert \/ Clear
    BY <1>0, <2>4 DEF Insert, Clear, TypeOK, Releasing
  <2>5. CASE Drop
    <3>1. recving' \in [Epts -> BOOLEAN]
      BY <1>0, <2>5 DEF Drop, TypeOK
    <3> QED
      BY <1>0, <1>15, <2>5, <3>1 DEF Drop, TypeOK, Releasing
  <2>6. CASE Erase
    BY <1>0, <2>6 DEF Erase, TypeOK, Releasing
  <2>7. CASE Free
    <3>1. ept' \in [Epts -> {"unused", "live", "freed"}]
      BY <1>0, <2>7 DEF Free, TypeOK
    <3> QED
      BY <1>0, <2>7, <3>1 DEF Free, TypeOK
  <2> QED
    BY <1>18, <2>3, <2>4, <2>5, <2>6, <2>7 DEF Call
<1>19. ASSUME NEW s \in Sessions, ReleaseSession(s) PROVE TypeOK'
  <2>1. raced' \in BOOLEAN
    BY <1>0, <1>19 DEF ReleaseSession, TypeOK
  <2> QED
    BY <1>0, <1>19, <2>1 DEF ReleaseSession, TypeOK, Releasing
<1>20. CASE Crash
  BY <1>0, <1>20 DEF Crash, TypeOK
\* The talk.
<1>22. ASSUME NEW e \in Epts, DelegateTest(e) PROVE TypeOK'
  <2>1. look' \in [Epts -> {"none", "tested", "alive", "null", "freed"}] /\ overtaken' \subseteq Epts
    <3>1. CASE recSource = "null"
      <4>1. UNCHANGED looking
        BY <1>22, <3>1, Zenon DEF DelegateTest
      <4> QED
        BY <1>0, <4>1 DEF TypeOK
    <3>2. CASE recSource # "null"
      <4>1. /\ look' = [look EXCEPT ![e] = "tested"]
            /\ overtaken' = overtaken \cup {e} \/ overtaken' = overtaken
        BY <1>22, <3>2 DEF DelegateTest
      <4> QED
        BY <1>0, <4>1 DEF TypeOK
    <3> QED
      BY <3>1, <3>2
  <2>2. PICK place \in {"looking", "locking"} : Goto(e, place)
    BY <1>22 DEF DelegateTest
  <2>3. UNCHANGED <<manager, ept, recving, content, hand, asked, node, walk, arrived, trans, application,
                    scheduler, raced, sent, crashed>>
    BY <1>22 DEF DelegateTest
  <2> QED
    BY <1>0, <2>1, <2>2, <2>3 DEF Goto, TypeOK
<1>23. ASSUME NEW e \in Epts, LookFetch(e) PROVE TypeOK'
  BY <1>0, <1>23 DEF LookFetch, TypeOK
<1>24. ASSUME NEW e \in Epts, LookAsk(e) PROVE TypeOK'
  <2>1. CASE look[e] = "null"
    BY <1>0, <1>24, <2>1 DEF LookAsk, TypeOK
  <2>2. CASE look[e] # "null"
    <3>1. look' \in [Epts -> {"none", "tested", "alive", "null", "freed"}] /\ overtaken' \subseteq Epts
      BY <1>0, <1>24, <2>2 DEF LookAsk, TypeOK
    <3>2. PICK place \in {"asking", "refused", "locking"} : Goto(e, place)
      BY <1>24, <2>2 DEF LookAsk
    <3>3. UNCHANGED <<manager, ept, recving, content, hand, asked, node, walk, arrived, trans, application,
                      scheduler, raced, sent, crashed>>
      BY <1>24, <2>2 DEF LookAsk
    <3> QED
      BY <1>0, <3>1, <3>2, <3>3 DEF Goto, TypeOK
  <2> QED
    BY <2>1, <2>2
<1>25. CASE TalkBegins
  <2>1. talks' \in 0 .. MaxTalks
    BY <1>0, <1>25, ReceiveAssumption DEF TalkBegins, TypeOK
  <2> QED
    BY <1>0, <1>25, <2>1 DEF TalkBegins, TypeOK
<1>26. CASE TalkDeleted
  <2>1. look' \in [Epts -> {"none", "tested", "alive", "null", "freed"}] /\ overtaken' \subseteq Epts
    BY <1>0, <1>26 DEF TalkDeleted, TypeOK
  <2> QED
    BY <1>0, <1>26, <2>1 DEF TalkDeleted, TypeOK
<1>27. CASE TalkForgotten
  BY <1>0, <1>27 DEF TalkForgotten, TypeOK
<1>21. CASE UNCHANGED vars
  BY <1>0, <1>21 DEF TypeOK
<1> QED
  BY <1>1, <1>2, <1>3, <1>4, <1>5, <1>6, <1>7, <1>8, <1>9, <1>10, <1>11, <1>12, <1>13, <1>14, <1>16,
    <1>17, <1>18, <1>19, <1>20, <1>21, <1>22, <1>23, <1>24, <1>25, <1>26, <1>27 DEF Next, Handle, Delete
-----------------------------------------------------------------------------
(* The theorems *)

LEMMA NextIInv == IInv /\ [Next]_vars => IInv'
  BY TypeOKKept, HandsInsideKept, LivesInStepKept, LockedOnceKept, QueuesListedOnceKept,
    SessionPlacesKept, HoldersCountedKept, UsedInOrderKept, RefersToUsedKept, ReceivingIsListedKept,
    StaleIsStoppedKept, CachesBoundedKept, UnracedKept, OwnedOnceKept, LooksAreLiveKept DEF IInv

\* The invariant is inductive: whatever the loopers, the scheduler and the
\* application do, in any order, leads from a state where it holds to another.
THEOREM Inductive == Spec => []IInv
<1>1. Init => IInv
  BY InitIInv
<1>2. IInv /\ [Next]_vars => IInv'
  BY NextIInv
<1> QED
  BY <1>1, <1>2, PTL DEF Spec

\* The places, pointers and counts of all the threads stay in their ranges, and
\* no cache has more than CacheSize packets, though the size is tested before the
\* lock is taken.
THEOREM TypeCorrect == Spec => []TypeOK
<1>1. IInv => TypeOK
  BY DEF IInv
<1> QED
  BY <1>1, Inductive, PTL

\* No thread goes through a freed queue, session, node or endpoint unless a
\* session was released while a packet was inside a looper or a transaction was
\* being deleted; and none through a freed talk, or to where there is none, unless
\* a talk was deleted since delegate began to look at it without evMutex.
THEOREM NothingFreedInUseHolds == Spec => []NothingFreedInUse
<1>1. IInv => NothingFreedInUse
  <2> SUFFICES ASSUME IInv PROVE NothingFreedInUse
    OBVIOUS
  <2>1. TouchesFreed => raced
    BY UnracedTouchesNothing DEF IInv
  <2>2. \A e \in Epts : TouchesTalk(e) => e \in overtaken
    BY DEF IInv, LooksAreLive, TouchesTalk
  <2>3. crashed => raced \/ overtaken # {}
    BY DEF IInv, LooksAreLive
  <2> QED
    BY <2>1, <2>2, <2>3 DEF NothingFreedInUse
<1> QED
  BY <1>1, Inductive, PTL

\* A set with one element at the most.
LEMMA AtMostOne ==
  ASSUME NEW S, \A x, y \in S : x = y
  PROVE  Cardinality(S) = IF S = {} THEN 0 ELSE 1
<1>1. S # {} => \E x : S = {x}
  OBVIOUS
<1> QED
  BY <1>1, FS_EmptySet, FS_Singleton

\* A packet has one owner who frees it: it is in one hand, in one node of one
\* cache or in one queue, and never in two of them.
THEOREM OneOwnerHolds == Spec => []OneOwner
<1>1. IInv => OneOwner
  <2> SUFFICES ASSUME IInv, NEW p \in Packets
               PROVE  Cardinality(Hands(p)) + Cardinality(Nodes(p)) + Cardinality(Queues(p)) <= 1
    BY DEF OneOwner
  <2>0. TypeOK /\ OwnedOnce
    BY DEF IInv
  <2>1. \A n \in Nodes(p) : /\ n[1] \in Epts /\ n[2] \in 1 .. Len(recvCache[n[1]])
                            /\ recvCache[n[1]][n[2]] = p /\ n = <<n[1], n[2]>>
    <3> SUFFICES ASSUME NEW e \in Epts, NEW i \in 1 .. CacheSize, i <= Len(recvCache[e]), recvCache[e][i] = p
                 PROVE  i \in 1 .. Len(recvCache[e])
      BY DEF Nodes
    <3>1. Len(recvCache[e]) \in Nat
      BY <2>0 DEF TypeOK
    <3> QED
      BY <3>1
  <2>2. \A n \in Nodes(p) : p \in ToSet(recvCache[n[1]])
    <3> TAKE n \in Nodes(p)
    <3>1. recvCache[n[1]] \in Seq(Packets)
      BY <2>0, <2>1 DEF TypeOK
    <3>2. n[2] \in DOMAIN recvCache[n[1]]
      BY <2>1, <3>1
    <3> QED
      BY <2>1, <3>2 DEF ToSet
  <2>3. \A e, f \in Hands(p) : e = f
    BY <2>0, Constants DEF Hands, OwnedOnce
  <2>4. \A t, u \in Queues(p) : t = u
    BY <2>0 DEF Queues, OwnedOnce
  <2>5. \A n, m \in Nodes(p) : n = m
    <3> SUFFICES ASSUME NEW n \in Nodes(p), NEW m \in Nodes(p) PROVE n = m
      OBVIOUS
    <3>1. n[1] = m[1]
      BY <2>0, <2>1, <2>2 DEF OwnedOnce
    <3>2. n[2] = m[2]
      <4>1. IsInjective(recvCache[n[1]]) /\ recvCache[n[1]] \in Seq(Packets)
        BY <2>0, <2>1 DEF OwnedOnce, TypeOK
      <4>2. n[2] \in DOMAIN recvCache[n[1]] /\ m[2] \in DOMAIN recvCache[n[1]]
        BY <2>1, <3>1, <4>1
      <4> QED
        BY <2>1, <3>1, <4>1, <4>2 DEF IsInjective
    <3> QED
      BY <2>1, <3>1, <3>2
  <2>6. Hands(p) = {} \/ Nodes(p) = {}
    BY <2>0, <2>1, <2>2 DEF Hands, OwnedOnce
  <2>7. Hands(p) = {} \/ Queues(p) = {}
    BY <2>0 DEF Hands, Queues, OwnedOnce
  <2>8. Nodes(p) = {} \/ Queues(p) = {}
    BY <2>0, <2>1, <2>2 DEF Queues, OwnedOnce
  <2>9. /\ Cardinality(Hands(p)) = IF Hands(p) = {} THEN 0 ELSE 1
        /\ Cardinality(Nodes(p)) = IF Nodes(p) = {} THEN 0 ELSE 1
        /\ Cardinality(Queues(p)) = IF Queues(p) = {} THEN 0 ELSE 1
    BY <2>3, <2>4, <2>5, AtMostOne
  <2> QED
    BY <2>6, <2>7, <2>8, <2>9
<1> QED
  BY <1>1, Inductive, PTL
=============================================================================
