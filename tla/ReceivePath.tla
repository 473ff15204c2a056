---------------------------- MODULE ReceivePath ----------------------------
(***************************************************************************)
(* From the socket to the queues of the incoming transactions, and who     *)
(* deletes what on the way.  Each endpoint has a receive looper, which     *)
(* gives a packet to the first queue that accepts it, or raises a new      *)
(* transaction for it and puts it in the endpoint's cache.  The scheduler  *)
(* deletes the transactions that are over; the application raises and      *)
(* releases the sessions that hold the endpoint, which is deleted with the *)
(* last shared_ptr to it, by whoever drops that.                           *)
(*                                                                         *)
(* Four locks are held from one step to the next: g_session_mutex while a  *)
(* session is deleted, evMutex while a transaction is registered or        *)
(* deleted, eptsLock while a cache is flushed.  rqLock and cacheMutex are  *)
(* held within a step.  A transaction has the name of the packet that      *)
(* raised it, and its queue the name of the transaction.  Of a talk that   *)
(* is sent there is the scheduler's pointer to it, recSource, which a      *)
(* looper goes through without a lock.  Heartbeats, the send looper, and   *)
(* packets that do not decode are left out; the application calls from one *)
(* thread.                                                                 *)
(***************************************************************************)
EXTENDS Integers, Sequences, SequencesExt, FiniteSets

CONSTANTS
  Packets,    \* each arrives once at the most, in any order
  SsrcOf,     \* the stream of each packet
  Marked,     \* the packets that carry the RTP mark
  Bare,       \* the packets without extension data
  Ids, Me,    \* the ids of sessions, and the one in uid.txt
  Exclusive,  \* the ids that are raised with egross
  CacheSize,  \* 512 in the code
  MaxRaises,  \* bound on the sessions, and so on the endpoints
  MaxTalks,   \* bound on the talks that are sent
  None        \* NULL, or end()

ASSUME ReceiveAssumption ==
  /\ Marked \cup Bare \subseteq Packets
  /\ Me \in Ids /\ Exclusive \subseteq Ids
  /\ CacheSize \in Nat \ {0}
  /\ MaxRaises \in Nat /\ MaxTalks \in Nat
  /\ None \notin Packets \cup Ids \cup 1 .. MaxRaises

Sessions == 1 .. MaxRaises
Epts == 1 .. MaxRaises      \* the UdpEndPoints

VARIABLES
  inEpts, refCount,    \* the only EndPointRef of EndPointManager::epts
  ept,                 \* what became of each endpoint
  recving, recvIOQs, recvCache,
  pc, hand,            \* each looper: its place, its packet,
  asked,               \* the session it looked up,
  node,                \* the begin() of epts it read,
  walk,                \* its place in the cache it flushes
  arrived,             \* the packets that came
  life, refEndPoint,   \* each transaction
  writtable, over, got,  \* its queue: open, ended or timed out, what it took
  session, sid, pEpt,  \* each session, in the order they are raised
  apc, who,            \* the application: its place, its session
  victim, vnode,       \* the scheduler: what it deletes, its begin() of epts
  recSource,           \* the talk: NULL, there, or freed and not yet forgotten
  look,                \* what each looper has read of it in delegate
  overtaken,           \* history: the loopers under whose look a talk was deleted
  talks,               \* the talks so far
  raced,               \* history: a release met a packet or a deletion
  crashed              \* a thread went through a freed pointer

manager == <<inEpts, refCount>>
content == <<recvIOQs, recvCache>>
looper == <<pc, hand, asked, node, walk, arrived>>
queue == <<writtable, over, got>>
trans == <<life, refEndPoint, queue>>
application == <<session, sid, pEpt, apc, who>>
scheduler == <<victim, vnode>>
sent == <<recSource, talks>>
looking == <<look, overtaken>>
talk == <<sent, looking>>
vars == <<manager, ept, recving, content, looper, trans, application, scheduler,
          talk, raced, crashed>>

Releasing == {"dropping", "erasing", "clearing", "freeing"}
Outside == {"none", "top", "select", "ended"}

TypeOK ==
  /\ inEpts \in Epts \cup {None}
  /\ refCount \in 0 .. Cardinality(Sessions)
  /\ ept \in [Epts -> {"unused", "live", "freed"}]
  /\ recving \in [Epts -> BOOLEAN]
  /\ recvIOQs \in [Epts -> Seq(Packets)]
  /\ recvCache \in [Epts -> Seq(Packets)]
  /\ \A e \in Epts : Len(recvCache[e]) <= CacheSize
  /\ pc \in [Epts -> Outside \cup {"got", "trigger", "creating", "delegating", "looking", "asking",
                                   "refused", "locking", "registering", "flushing", "testing", "pushing",
                                   "replacing"}]
  /\ hand \in [Epts -> Packets \cup {None}]
  /\ asked \in [Epts -> Sessions \cup {None}]
  /\ node \in [Epts -> Epts \cup {None}]
  /\ walk \in [Epts -> 0 .. CacheSize + 1]
  /\ arrived \subseteq Packets
  /\ life \in [Packets -> {"none", "made", "listed", "removed", "deleted", "gone"}]
  /\ refEndPoint \in [Packets -> Epts \cup {None}]
  /\ writtable \in [Packets -> BOOLEAN] /\ over \in [Packets -> BOOLEAN]
  /\ got \in [Packets -> SUBSET Packets]
  /\ session \in [Sessions -> {"new", "made", "active", "leaving", "dead"}]
  /\ sid \in [Sessions -> Ids \cup {None}]
  /\ pEpt \in [Sessions -> Epts \cup {None}]
  /\ apc \in Releasing \cup {"idle", "pushing", "inserting"}
  /\ who \in Sessions \cup {None}
  /\ victim \in Packets \cup {None} /\ vnode \in Epts \cup {None}
  /\ recSource \in {"null", "alive", "freed"}
  /\ look \in [Epts -> {"none", "tested", "alive", "null", "freed"}]
  /\ overtaken \subseteq Epts /\ talks \in 0 .. MaxTalks
  /\ raced \in BOOLEAN /\ crashed \in BOOLEAN

Init ==
  /\ inEpts = None /\ refCount = 0
  /\ ept = [e \in Epts |-> "unused"] /\ recving = [e \in Epts |-> FALSE]
  /\ recvIOQs = [e \in Epts |-> <<>>] /\ recvCache = [e \in Epts |-> <<>>]
  /\ pc = [e \in Epts |-> "none"] /\ hand = [e \in Epts |-> None]
  /\ asked = [e \in Epts |-> None] /\ node = [e \in Epts |-> None]
  /\ walk = [e \in Epts |-> 1] /\ arrived = {}
  /\ life = [p \in Packets |-> "none"] /\ refEndPoint = [p \in Packets |-> None]
  /\ writtable = [p \in Packets |-> FALSE] /\ over = [p \in Packets |-> FALSE]
  /\ got = [p \in Packets |-> {}]
  /\ session = [s \in Sessions |-> "new"]
  /\ sid = [s \in Sessions |-> None] /\ pEpt = [s \in Sessions |-> None]
  /\ apc = "idle" /\ who = None /\ victim = None /\ vnode = None
  /\ recSource = "null" /\ look = [e \in Epts |-> "none"] /\ overtaken = {} /\ talks = 0
  /\ raced = FALSE /\ crashed = FALSE

SessionMutexFree == apc \notin Releasing
EvMutexFree == victim = None /\ recSource # "freed" /\ \A e \in Epts : pc[e] \notin {"registering", "flushing"}
EptsLockFree == \A e \in Epts : pc[e] # "flushing"

Active(id) == {s \in Sessions : session[s] = "active" /\ sid[s] = id}
Inside(e) == pc[e] \notin Outside
Deleted(t) == life[t] \in {"deleted", "gone"}

\* Who has a shared_ptr to e.
TransOn(e) == {t \in Packets : refEndPoint[t] = e /\ life[t] \notin {"none", "gone"}}
SessionsOn(e) == {s \in Sessions : pEpt[s] = e /\ session[s] \notin {"new", "dead"}}

Accepts(t, p) == writtable[t] /\ SsrcOf[t] = SsrcOf[p]

\* The first queue of e that accepts p, or 0.
Accepting(e, p) == SelectInSeq(recvIOQs[e], LAMBDA t : Accepts(t, p))

\* RTPRecvIOQueue::write; the mark closes the writing.
Write(t, p) ==
  /\ got' = [got EXCEPT ![t] = @ \cup {p}]
  /\ writtable' = [writtable EXCEPT ![t] = @ /\ p \notin Marked]
  /\ over' = [over EXCEPT ![t] = @ \/ p \in Marked]
-----------------------------------------------------------------------------
(* The receive looper *)

\* A step that moves e's looper and changes nothing but what it names.
Goto(e, place) == pc' = [pc EXCEPT ![e] = place]

LoopTest(e) ==
  /\ pc[e] = "top"
  /\ Goto(e, IF recving[e] THEN "select" ELSE "ended")
  /\ UNCHANGED <<manager, ept, recving, content, hand, asked, node, walk, arrived, trans, application, scheduler, raced, talk, crashed>>

\* select comes back after half a second, or fails, which ends the looper.
SelectEnds(e) ==
  /\ pc[e] = "select"
  /\ \E place \in {"top", "ended"} : Goto(e, place)
  /\ UNCHANGED <<manager, ept, recving, content, hand, asked, node, walk, arrived, trans, application, scheduler, raced, talk, crashed>>

\* What the looper drops here, a second packet of 128 bytes in a row and one that
\* does not decode, is as good as lost.
Receive(e, p) ==
  /\ pc[e] = "select"
  /\ p \notin arrived
  /\ arrived' = arrived \cup {p}
  /\ hand' = [hand EXCEPT ![e] = p]
  /\ Goto(e, "got")
  /\ raced' = (raced \/ apc \in Releasing \/ ~recving[e])
  /\ UNCHANGED <<manager, ept, recving, content, asked, node, walk, trans, application,
                 scheduler, talk, crashed>>

\* Under rqLock: the first queue that accepts the packet takes it.
Deliver(e) ==
  /\ pc[e] = "got"
  /\ LET i == Accepting(e, hand[e]) IN
       i # 0 /\ Write(recvIOQs[e][i], hand[e])
  /\ Goto(e, "top") /\ hand' = [hand EXCEPT ![e] = None]
  /\ UNCHANGED <<manager, ept, recving, content, asked, node, walk, arrived,
                 life, refEndPoint, application, scheduler, raced, talk, crashed>>

\* No queue does: a packet with extension data raises a transaction, any other
\* is put in the cache.  (Video with extension data is dropped: as good as lost.)
NotDelivered(e) ==
  /\ pc[e] = "got"
  /\ Accepting(e, hand[e]) = 0
  /\ Goto(e, IF hand[e] \in Bare THEN "testing" ELSE "trigger")
  /\ UNCHANGED <<manager, ept, recving, content, hand, asked, node, walk, arrived, trans,
                 application, scheduler, raced, talk, crashed>>

\* incoming_trigger: getSessionById takes g_session_mutex for the lookup alone.
Trigger(e) ==
  /\ pc[e] = "trigger"
  /\ SessionMutexFree
  /\ asked' = [asked EXCEPT ![e] = IF Active(Me) = {} THEN None
                                    ELSE CHOOSE s \in Active(Me) : TRUE]
  /\ Goto(e, IF asked'[e] = None THEN "testing" ELSE "creating")
  /\ UNCHANGED <<manager, ept, recving, content, hand, node, walk, arrived,
                 trans, application, scheduler, raced, talk, crashed>>

\* createIncomingTransaction, for a session that is still there.
Create(e) ==
  /\ pc[e] = "creating"
  /\ session[asked[e]] # "dead"
  /\ life' = [life EXCEPT ![hand[e]] = "made"]
  /\ refEndPoint' = [refEndPoint EXCEPT ![hand[e]] = pEpt[asked[e]]]
  /\ writtable' = [writtable EXCEPT ![hand[e]] = TRUE]
  /\ asked' = [asked EXCEPT ![e] = None]
  /\ Goto(e, "delegating")
  /\ UNCHANGED <<manager, ept, recving, content, hand, node, walk, arrived, over, got, application, scheduler, raced, talk, crashed>>

\* Without evMutex delegate tests recSource, and where there is a talk,
DelegateTest(e) ==
  /\ pc[e] = "delegating"
  /\ IF recSource = "null"
       THEN Goto(e, "locking") /\ UNCHANGED looking
       ELSE /\ Goto(e, "looking") /\ look' = [look EXCEPT ![e] = "tested"]
            /\ overtaken' = IF recSource = "freed" THEN overtaken \cup {e} ELSE overtaken
  /\ UNCHANGED <<manager, ept, recving, content, hand, asked, node, walk, arrived, trans, application, scheduler, raced, sent, crashed>>

\* reads it again,
LookFetch(e) ==
  /\ look[e] = "tested"
  /\ look' = [look EXCEPT ![e] = recSource]
  /\ UNCHANGED <<manager, ept, recving, content, looper, trans, application, scheduler, raced, sent, overtaken, crashed>>

\* and goes through what it has read, twice: first to print its state, and then to
\* see whether the transaction is to be refused.  NULL ends the program; if the
\* talk is freed, its memory may still say anything.
LookAsk(e) ==
  \/ /\ look[e] = "null"
     /\ crashed' = TRUE
     /\ UNCHANGED <<manager, ept, recving, content, looper, trans, application, scheduler, raced, talk>>
  \/ /\ look[e] \in {"alive", "freed"}
     /\ IF pc[e] = "looking"
          THEN /\ Goto(e, "asking") /\ look' = [look EXCEPT ![e] = "tested"]
               /\ UNCHANGED overtaken
          ELSE /\ \E place \in {"refused", "locking"} : Goto(e, place)
               /\ look' = [look EXCEPT ![e] = "none"]
               /\ overtaken' = overtaken \ {e}
     /\ UNCHANGED <<manager, ept, recving, content, hand, asked, node, walk, arrived, trans, application, scheduler, raced, sent, crashed>>

\* A transaction that was refused is deleted again.  If it had the last pointer to
\* an endpoint that is deleted too: its looper is joined first, but for this
\* looper, which cannot join itself.
DelegateRefused(e) ==
  LET t == hand[e]
      f == refEndPoint[t]
      frees == TransOn(f) = {t} /\ SessionsOn(f) = {} /\ inEpts # f IN
  /\ pc[e] = "refused"
  /\ EptsLockFree
  /\ frees => f = e \/ pc[f] = "ended"
  /\ life' = [life EXCEPT ![t] = "gone"]
  /\ writtable' = [writtable EXCEPT ![t] = FALSE]
  /\ ept' = IF frees THEN [ept EXCEPT ![f] = "freed"] ELSE ept
  /\ Goto(e, "testing")
  /\ UNCHANGED <<manager, recving, content, hand, asked, node, walk, arrived,
                 refEndPoint, over, got, application, scheduler, raced, talk, crashed>>

\* delegate takes evMutex, lists the transaction and has it started:
\* applyEndpointOperation reads epts.begin() and waits for eptsLock.
Delegate(e) ==
  /\ pc[e] = "locking"
  /\ EvMutexFree
  /\ life' = [life EXCEPT ![hand[e]] = "listed"]
  /\ node' = [node EXCEPT ![e] = inEpts]
  /\ Goto(e, "registering")
  /\ UNCHANGED <<manager, ept, recving, content, hand, asked, walk, arrived,
                 refEndPoint, queue, application, scheduler, raced, talk, crashed>>

\* The queue is listed, if the endpoint is still known, and the walk of the
\* cache begins.
Register(e) ==
  LET t == hand[e]
      f == refEndPoint[t]
      known == node[e] = f IN
  /\ pc[e] = "registering"
  /\ node[e] # None => EptsLockFree /\ inEpts = node[e]
  /\ recvIOQs' = IF known THEN [recvIOQs EXCEPT ![f] = Append(@, t)] ELSE recvIOQs
  /\ walk' = [walk EXCEPT ![e] = 1] /\ node' = [node EXCEPT ![e] = None]
  /\ Goto(e, IF known THEN "flushing" ELSE "testing")
  /\ UNCHANGED <<manager, ept, recving, recvCache, hand, asked, arrived,
                 trans, application, scheduler, raced, talk, crashed>>

\* Seeded fault: what is written to the queue is not taken out of the cache.
FlushCopies(e) ==
  LET cache == recvCache[refEndPoint[hand[e]]] IN
  /\ pc[e] = "flushing"
  /\ walk[e] \in 1 .. Len(cache)
  /\ IF Accepts(hand[e], cache[walk[e]]) THEN Write(hand[e], cache[walk[e]])
                                         ELSE UNCHANGED queue
  /\ walk' = [walk EXCEPT ![e] = @ + 1]
  /\ UNCHANGED <<manager, ept, recving, content, pc, hand, asked, node, arrived,
                 life, refEndPoint, application, scheduler, raced, talk, crashed>>

\* Seeded fault: the walk advances only over what it erases.
FlushStalls(e) ==
  LET f == refEndPoint[hand[e]]
      cache == recvCache[f] IN
  /\ pc[e] = "flushing"
  /\ walk[e] \in 1 .. Len(cache) /\ Accepts(hand[e], cache[walk[e]])
  /\ Write(hand[e], cache[walk[e]])
  /\ recvCache' = [recvCache EXCEPT ![f] = RemoveAt(@, walk[e])]
  /\ UNCHANGED <<manager, ept, recving, recvIOQs, pc, hand, asked, node, walk, arrived,
                 life, refEndPoint, application, scheduler, raced, talk, crashed>>

\* disposeCache, one node of the walk.  After an erase the walk is advanced once
\* more than it should be; past end() the list of the C++ library goes round.
Flush(e) ==
  LET f == refEndPoint[hand[e]]
      cache == recvCache[f]
      rest == RemoveAt(cache, walk[e]) IN
  /\ pc[e] = "flushing"
  /\ walk[e] \in 1 .. Len(cache)
  /\ IF Accepts(hand[e], cache[walk[e]])
       THEN /\ Write(hand[e], cache[walk[e]])
            /\ recvCache' = [recvCache EXCEPT ![f] = rest]
            /\ walk' = [walk EXCEPT ![e] = IF @ > Len(rest) THEN 1 ELSE @ + 1]
       ELSE /\ walk' = [walk EXCEPT ![e] = @ + 1]
            /\ UNCHANGED <<recvCache, queue>>
  /\ UNCHANGED <<manager, ept, recving, recvIOQs, pc, hand, asked, node, arrived,
                 life, refEndPoint, application, scheduler, raced, talk, crashed>>

\* The walk is at end(): eptsLock and evMutex are released.
FlushEnds(e) ==
  /\ pc[e] = "flushing"
  /\ walk[e] = Len(recvCache[refEndPoint[hand[e]]]) + 1
  /\ walk' = [walk EXCEPT ![e] = 1]
  /\ Goto(e, "testing")
  /\ UNCHANGED <<manager, ept, recving, content, hand, asked, node, arrived,
                 trans, application, scheduler, raced, talk, crashed>>

\* recvEncache tests the size before it takes cacheMutex.
EncacheTest(e) ==
  /\ pc[e] = "testing"
  /\ ept[e] # "freed"
  /\ Goto(e, IF Len(recvCache[e]) < CacheSize THEN "pushing" ELSE "replacing")
  /\ UNCHANGED <<manager, ept, recving, content, hand, asked, node, walk, arrived, trans, application, scheduler, raced, talk, crashed>>

\* The loopers whose walk is on e's cache.
Walking(e) == {f \in Epts : pc[f] = "flushing" /\ refEndPoint[hand[f]] = e}

\* Seeded fault: a full cache takes one more.
EncacheGrows(e) ==
  /\ pc[e] \in {"pushing", "replacing"}
  /\ recvCache' = [recvCache EXCEPT ![e] = Append(@, hand[e])]
  /\ Goto(e, "top")
  /\ hand' = [hand EXCEPT ![e] = None]
  /\ UNCHANGED <<manager, ept, recving, recvIOQs, asked, node, walk, arrived, trans,
                 application, scheduler, raced, talk, crashed>>

\* A walk at end() stays there; one that stood on the node that goes is left on
\* a freed one (0), and remains there.
Encache(e) ==
  /\ pc[e] \in {"pushing", "replacing"}
  /\ LET gone == IF pc[e] = "replacing" THEN 1 ELSE 0
         kept == SubSeq(recvCache[e], 1 + gone, Len(recvCache[e])) IN
       /\ gone <= Len(recvCache[e])
       /\ recvCache' = [recvCache EXCEPT ![e] = Append(kept, hand[e])]
       /\ walk' = [f \in Epts |->
                     IF f \notin Walking(e) THEN walk[f]
                     ELSE IF walk[f] = Len(recvCache[e]) + 1 THEN Len(kept) + 2
                     ELSE IF walk[f] > gone THEN walk[f] - gone ELSE 0]
  /\ Goto(e, "top")
  /\ hand' = [hand EXCEPT ![e] = None]
  /\ UNCHANGED <<manager, ept, recving, recvIOQs, asked, node, arrived, trans,
                 application, scheduler, raced, talk, crashed>>
-----------------------------------------------------------------------------
(* The scheduler's looper, which holds evMutex while victim is set *)

\* The write timeout, which is set when the stream is started.
Silence(t) ==
  /\ life[t] = "listed" /\ ~over[t] /\ got[t] # {}
  /\ over' = [over EXCEPT ![t] = TRUE]
  /\ UNCHANGED <<manager, ept, recving, content, looper, life, refEndPoint, writtable, got,
                 application, scheduler, raced, talk, crashed>>

\* spsReadyForDestroy: the source was played and nothing more comes.  spsDispose
\* closes its queue.
Reclaim(t) ==
  /\ EvMutexFree
  /\ life[t] = "listed" /\ over[t]
  /\ victim' = t /\ vnode' = inEpts
  /\ writtable' = [writtable EXCEPT ![t] = FALSE]
  /\ raced' = (raced \/ apc \in Releasing)
  /\ UNCHANGED <<manager, ept, recving, content, looper, life, refEndPoint, over, got,
                 application, talk, crashed>>

\* Seeded fault: the destructor deletes the queue and does not unregister it.
UnregisterNot ==
  /\ victim # None /\ life[victim] = "listed"
  /\ life' = [life EXCEPT ![victim] = "removed"]
  /\ UNCHANGED <<manager, ept, recving, content, looper, refEndPoint, queue, application,
                 scheduler, raced, talk, crashed>>

\* unregisterRecvQueue finds nothing once the endpoint was released.
Unregister ==
  /\ victim # None /\ life[victim] = "listed"
  /\ vnode # None => EptsLockFree /\ inEpts = vnode
  /\ LET f == refEndPoint[victim] IN
       recvIOQs' = IF vnode = f THEN [recvIOQs EXCEPT ![f] = RemoveFirst(@, victim)] ELSE recvIOQs
  /\ life' = [life EXCEPT ![victim] = "removed"]
  /\ UNCHANGED <<manager, ept, recving, recvCache, looper, refEndPoint, queue, application,
                 scheduler, raced, talk, crashed>>

DeleteQueue ==
  /\ victim # None /\ life[victim] = "removed"
  /\ life' = [life EXCEPT ![victim] = "deleted"]
  /\ got' = [got EXCEPT ![victim] = {}]
  /\ UNCHANGED <<manager, ept, recving, content, looper, refEndPoint, writtable, over, application,
                 scheduler, raced, talk, crashed>>

\* The last pointer to an endpoint: its destructor waits for the looper.
DropEndPoint ==
  /\ victim # None /\ life[victim] = "deleted"
  /\ LET f == refEndPoint[victim]
         frees == TransOn(f) = {victim} /\ SessionsOn(f) = {} /\ inEpts # f IN
       /\ frees => pc[f] = "ended"
       /\ ept' = IF frees THEN [ept EXCEPT ![f] = "freed"] ELSE ept
  /\ life' = [life EXCEPT ![victim] = "gone"]
  /\ victim' = None /\ vnode' = None
  /\ UNCHANGED <<manager, recving, content, looper, refEndPoint, queue, application,
                 raced, talk, crashed>>
-----------------------------------------------------------------------------
(* The talk, which the application and the scheduler change under evMutex *)

\* delegate(record): the application's talk is taken when there is none.
TalkBegins ==
  /\ EvMutexFree
  /\ recSource = "null" /\ recSource' = "alive" /\ talks < MaxTalks /\ talks' = talks + 1
  /\ UNCHANGED <<manager, ept, recving, content, looper, trans, application, scheduler,
                 raced, looking, crashed>>

\* One that is over is deleted, by the scheduler or by the delegate of the next,
TalkDeleted ==
  /\ EvMutexFree
  /\ recSource = "alive" /\ recSource' = "freed"
  /\ look' = [e \in Epts |-> IF look[e] = "alive" THEN "freed" ELSE look[e]]
  /\ overtaken' = overtaken \cup {e \in Epts : look[e] # "none"}
  /\ UNCHANGED <<manager, ept, recving, content, looper, trans, application, scheduler,
                 raced, talks, crashed>>

\* and only then forgotten; evMutex is held in between.
TalkForgotten ==
  /\ recSource = "freed" /\ recSource' = "null"
  /\ UNCHANGED <<manager, ept, recving, content, looper, trans, application, scheduler,
                 raced, looking, talks, crashed>>
-----------------------------------------------------------------------------
(* The application *)

\* Objects are used in order.
NextSession == 1 + Cardinality({s \in Sessions : session[s] # "new"})
NextEpt == 1 + Cardinality({e \in Epts : ept[e] # "unused"})

\* raiseSession1 finds no session and makes one, which acquires the endpoint.
RaiseShared(id) ==
  /\ apc = "idle" /\ NextSession \in Sessions
  /\ Active(id) = {}
  /\ inEpts # None
  /\ refCount' = refCount + 1
  /\ session' = [session EXCEPT ![NextSession] = "made"]
  /\ sid' = [sid EXCEPT ![NextSession] = id]
  /\ pEpt' = [pEpt EXCEPT ![NextSession] = inEpts]
  /\ apc' = "inserting" /\ who' = NextSession
  /\ UNCHANGED <<inEpts, ept, recving, content, looper, trans, scheduler, raced,
                 talk, crashed>>

\* There is no endpoint: a new one, whose looper runs before it is listed.
RaiseNew(id) ==
  /\ apc = "idle" /\ NextSession \in Sessions
  /\ Active(id) = {}
  /\ inEpts = None
  /\ ept' = [ept EXCEPT ![NextEpt] = "live"]
  /\ recving' = [recving EXCEPT ![NextEpt] = TRUE]
  /\ Goto(NextEpt, "top")
  /\ session' = [session EXCEPT ![NextSession] = "made"]
  /\ sid' = [sid EXCEPT ![NextSession] = id]
  /\ pEpt' = [pEpt EXCEPT ![NextSession] = NextEpt]
  /\ apc' = "pushing" /\ who' = NextSession
  /\ UNCHANGED <<manager, content, hand, asked, node, walk, arrived, trans,
                 scheduler, raced, talk, crashed>>

ListEndPoint ==
  /\ apc = "pushing"
  /\ EptsLockFree
  /\ inEpts' = pEpt[who] /\ refCount' = 1
  /\ apc' = "inserting"
  /\ UNCHANGED <<ept, recving, content, looper, trans, session, sid, pEpt, who, scheduler,
                 raced, talk, crashed>>

\* enableEngross, which takes evMutex, and the insertion in activeSession.
Insert ==
  /\ apc = "inserting"
  /\ sid[who] \in Exclusive => EvMutexFree
  /\ session' = [session EXCEPT ![who] = "active"]
  /\ apc' = "idle" /\ who' = None
  /\ UNCHANGED <<manager, ept, recving, content, looper, trans, sid, pEpt, scheduler,
                 raced, talk, crashed>>

\* releaseSession, with g_session_mutex from here to Free.
ReleaseSession(s) ==
  /\ apc = "idle" /\ session[s] = "active"
  /\ session' = [session EXCEPT ![s] = "leaving"]
  /\ apc' = "dropping" /\ who' = s
  /\ raced' = (raced \/ victim # None \/ \E e \in Epts : Inside(e))
  /\ UNCHANGED <<manager, ept, recving, content, looper, trans, sid, pEpt, scheduler,
                 talk, crashed>>

\* EndPointManager::release stops an endpoint that nobody uses.
Drop ==
  /\ apc = "dropping"
  /\ refCount' = refCount - 1
  /\ IF refCount' = 0
       THEN recving' = [recving EXCEPT ![pEpt[who]] = FALSE] /\ apc' = "erasing"
       ELSE apc' = "clearing" /\ UNCHANGED recving
  /\ UNCHANGED <<inEpts, ept, content, looper, trans, session, sid, pEpt, who, scheduler,
                 raced, talk, crashed>>

Erase ==
  /\ apc = "erasing"
  /\ EptsLockFree
  /\ inEpts' = None
  /\ apc' = "clearing"
  /\ UNCHANGED <<refCount, ept, recving, content, looper, trans, session, sid, pEpt, who,
                 scheduler, raced, talk, crashed>>

\* clearEngross.
Clear ==
  /\ apc = "clearing"
  /\ sid[who] \in Exclusive => EvMutexFree
  /\ apc' = "freeing"
  /\ UNCHANGED <<manager, ept, recving, content, looper, trans, session, sid, pEpt, who,
                 scheduler, raced, talk, crashed>>

\* The members of the session are destroyed, with pEpt the endpoint if that was
\* the last pointer to it, which waits for the looper.
Free ==
  /\ apc = "freeing"
  /\ LET f == pEpt[who]
         frees == TransOn(f) = {} /\ SessionsOn(f) = {who} /\ inEpts # f IN
       /\ frees => pc[f] = "ended"
       /\ ept' = IF frees THEN [ept EXCEPT ![f] = "freed"] ELSE ept
  /\ session' = [session EXCEPT ![who] = "dead"]
  /\ apc' = "idle" /\ who' = None
  /\ UNCHANGED <<manager, recving, content, looper, trans, sid, pEpt, scheduler,
                 raced, talk, crashed>>
-----------------------------------------------------------------------------
(* What goes wrong *)

\* A thread goes through a pointer to what was deleted: a queue that is still
\* listed, a session that was looked up, the node of epts that was read, the node
\* of the cache it walks, the endpoint it works for.
TouchesFreed ==
  \/ \E e \in Epts :
       \/ pc[e] = "got" /\ \E t \in ToSet(recvIOQs[e]) : Deleted(t)
       \/ pc[e] = "creating" /\ session[asked[e]] = "dead"
       \/ pc[e] = "registering" /\ EptsLockFree /\ node[e] \notin {None, inEpts}
       \/ pc[e] = "flushing" /\ walk[e] = 0
       \/ pc[e] = "testing" /\ ept[e] = "freed"
       \/ pc[e] = "replacing" /\ recvCache[e] = <<>>
  \/ /\ victim # None /\ life[victim] = "listed"
     /\ EptsLockFree /\ vnode \notin {None, inEpts}

\* A looper goes through the pointer that delegate has read, to a talk that is
\* freed, or to none.
TouchesTalk(e) == look[e] \in {"null", "freed"}

\* The program may stop there; where the memory is still as it was it goes on.
Crash ==
  /\ TouchesFreed \/ \E e \in Epts : TouchesTalk(e)
  /\ crashed' = TRUE
  /\ UNCHANGED <<manager, ept, recving, content, looper, trans, application, scheduler,
                 raced, talk>>
-----------------------------------------------------------------------------
Handle(e) ==
  \/ LoopTest(e) \/ SelectEnds(e) \/ Deliver(e) \/ NotDelivered(e) \/ Trigger(e)
  \/ Create(e) \/ DelegateTest(e) \/ LookFetch(e) \/ LookAsk(e) \/ DelegateRefused(e)
  \/ Delegate(e) \/ Register(e)
  \/ Flush(e) \/ FlushEnds(e) \/ EncacheTest(e) \/ Encache(e)

Delete == Unregister \/ DeleteQueue \/ DropEndPoint

Call == ListEndPoint \/ Insert \/ Drop \/ Erase \/ Clear \/ Free

Next ==
  \/ /\ ~crashed
     /\ \/ \E e \in Epts : Handle(e) \/ \E p \in Packets : Receive(e, p)
        \/ \E t \in Packets : Silence(t) \/ Reclaim(t)
        \/ Delete
        \/ TalkBegins \/ TalkDeleted \/ TalkForgotten
        \/ \E id \in Ids : RaiseShared(id) \/ RaiseNew(id)
        \/ Call
        \/ \E s \in Sessions : ReleaseSession(s)
  \/ ~crashed /\ Crash

Spec == Init /\ [][Next]_vars

\* The threads run.  Packets, the end of a stream, talks and the calls of the
\* application need not come.
FairSpec ==
  /\ Spec
  /\ \A e \in Epts : WF_vars(~crashed /\ Handle(e))
  /\ WF_vars(~crashed /\ Delete) /\ WF_vars(~crashed /\ TalkForgotten)
  /\ WF_vars(~crashed /\ Call)
-----------------------------------------------------------------------------
(* Properties *)

\* No thread goes through a freed pointer as long as a session is released only
\* while no packet is inside a looper and no transaction is being deleted, and no
\* packet comes to an endpoint that was stopped: neither the transactions that
\* come and go under traffic, nor the flushes, nor the sharing of the endpoint by
\* several sessions can cause it.  The pointer to the talk alone needs no release:
\* it leads nowhere when a talk was deleted since the looper began to look at it.
NothingFreedInUse ==
  /\ TouchesFreed => raced
  /\ \A e \in Epts : TouchesTalk(e) => e \in overtaken
  /\ crashed => raced \/ overtaken # {}

\* A packet has one owner, who frees it: a looper that has it in its hand, a node
\* of a cache, or a queue.
Hands(p) == {e \in Epts : hand[e] = p}
Nodes(p) == {n \in Epts \X (1 .. CacheSize) :
               n[2] <= Len(recvCache[n[1]]) /\ recvCache[n[1]][n[2]] = p}
Queues(p) == {t \in Packets : p \in got[t]}

OneOwner ==
  \A p \in Packets : Cardinality(Hands(p)) + Cardinality(Nodes(p)) + Cardinality(Queues(p)) <= 1

\* A looper that has a packet comes back to the socket: no lock is waited for in
\* a circle, and the walk of a cache ends, though it goes round the list.
PacketIsHandled ==
  \A e \in Epts : Inside(e) ~> (~Inside(e) \/ raced \/ crashed)

\* EndPointManager.cpp:13 says that an endpoint whose count has come to 0 is
\* released.  The release of the last session must free it, and return.
ReleaseReturns == apc = "dropping" ~> (apc = "idle" \/ crashed)
=============================================================================
