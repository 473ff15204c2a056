---------------------------- MODULE TimerTrigger ----------------------------
(***************************************************************************)
(* TimerTrigger: the process-wide timer that ticks every registered        *)
(* TickCounter (queue timeouts, heartbeats).  Client threads register and  *)
(* unregister their counters while the handlers of a dispatch timer source *)
(* run traval().  The source's queue is a concurrent one: a source calls   *)
(* its handler once at a time, but that of a cancelled source may still    *)
(* run when the next source calls its own.                                 *)
(*                                                                         *)
(* Only parts of these functions hold the mutex `lock`, so the grain of    *)
(* the model is the unlocked test, each node of the unlocked search, the   *)
(* locked section, and each visit of the traversal.  An iterator stands at *)
(* a position of the list, at end(), or on a node that was erased under    *)
(* it: then it is the counter that the freed node held.                    *)
(***************************************************************************)
EXTENDS Integers, Sequences, SequencesExt

CONSTANTS
  Clients,      \* the threads that own counters
  Handlers,     \* the threads that run the dispatch handler
  Nobody,       \* "no thread", "no counter", end() of an iterator
  Waiters,      \* the TickCounter objects
  Restartable,  \* the counters whose matchCond may answer RESTART: heartbeats
  OwnerOf,      \* the client that registers and unregisters each counter
  MaxCount,     \* bound on TickCounter::count
  MaxCalls      \* bound on the calls each client makes

ASSUME TimerTriggerAssumption ==
  /\ Handlers \cap Clients = {}
  /\ Nobody \notin Clients \cup Handlers \cup Waiters \cup Nat
  /\ Waiters \cap Nat = {}
  /\ Restartable \subseteq Waiters
  /\ OwnerOf \in [Waiters -> Clients]
  /\ MaxCount \in Nat
  /\ MaxCalls \in Nat

VARIABLES
  waitList,     \* list<TickCounter*>, oldest registration first
  count,        \* TickCounter::count
  source,       \* the dispatch source timerId: "made", "running" or "null"
  orphaned,     \* a source runs that timerId no longer points to
  attended,     \* the thread that runs, or last ran, the source's handler
  lock,         \* the thread that holds `lock`, or Nobody
  pc,           \* what each thread is about to do
  arg,          \* the counter each thread is registering or unregistering
  it,           \* the iterator of each thread, in registerWaiter or traval
  restarts,     \* lstreStart: counters to register again after the walk
  calls,        \* calls each client has started
  phase,        \* history: what its owner last did with each counter
  strayed       \* history: a search has gone on through an erased node

timerId == <<source, orphaned, attended>>
vars == <<waitList, count, timerId, lock, pc, arg, it, restarts, calls, phase, strayed>>

Threads == Clients \cup Handlers
Listed == ToSet(waitList)
Positions == DOMAIN waitList
Dead == \E t \in Threads : pc[t] = "dead"

\* begin(), and the iterator after the node at position i.
First == IF waitList = <<>> THEN Nobody ELSE 1
After(i) == IF i = Len(waitList) THEN Nobody ELSE i + 1

\* What erase(i) makes of an iterator that stood at p.
Shifted(p, i) ==
  IF p = i THEN waitList[i]
  ELSE IF p \in Nat /\ p > i THEN p - 1 ELSE p

\* What matchCond may answer: WriteTimerCB and CloseTimer end with RELASE,
\* HBTimeOutRetryCounter with RESTART.
Answers(w) ==
  {"RESET", "INC"} \cup (IF w \in Restartable THEN {"RESTART"} ELSE {"RELASE"})

Places == {"idle", "start", "create", "resume", "begin", "look", "step", "found", "push",
           "erase", "enter", "walk", "rejoin", "dead"}

TypeOK ==
  /\ waitList \in Seq(Waiters)
  /\ count \in [Waiters -> 0 .. MaxCount]
  /\ source \in {"made", "running", "null"} /\ orphaned \in BOOLEAN
  /\ attended \in Handlers \cup {Nobody}
  /\ lock \in Threads \cup {Nobody}
  /\ pc \in [Threads -> Places]
  /\ arg \in [Threads -> Waiters \cup {Nobody}]
  /\ it \in [Threads -> Positions \cup Waiters \cup {Nobody}]
  /\ restarts \in [Handlers -> Seq(Restartable)]
  /\ calls \in [Clients -> 0 .. MaxCalls]
  /\ phase \in [Waiters -> {"new", "registered", "unregistered"}]
  /\ strayed \in BOOLEAN

\* The constructor creates the source; the first registration resumes it.
Init ==
  /\ waitList = <<>>
  /\ count = [w \in Waiters |-> 0]
  /\ source = "made" /\ orphaned = FALSE /\ attended = Nobody
  /\ lock = Nobody
  /\ pc = [t \in Threads |-> "idle"]
  /\ arg = [t \in Threads |-> Nobody]
  /\ it = [t \in Threads |-> Nobody]
  /\ restarts = [h \in Handlers |-> <<>>]
  /\ calls = [c \in Clients |-> 0]
  /\ phase = [w \in Waiters |-> "new"]
  /\ strayed = FALSE

Goto(t, label) == pc' = [pc EXCEPT ![t] = label]

Die == pc' = [t \in Threads |-> "dead"]

\* A thread returns from registerWaiter: a client to its own code, a handler
\* to the rest of its restart list.
Return(t) ==
  /\ arg' = [arg EXCEPT ![t] = Nobody]
  /\ Goto(t, IF t \in Handlers /\ restarts[t] # <<>> THEN "rejoin" ELSE "idle")

\* cancelTimer when an erase has emptied the list: the source is cancelled,
\* released and forgotten.  To release one that was never resumed ends the
\* process.  Proceed is where the thread goes otherwise.
CancelIfEmpty(Proceed) ==
  IF waitList' = <<>>
  THEN /\ source' = "null" /\ attended' = Nobody
       /\ IF source = "made" THEN Die /\ UNCHANGED arg ELSE Proceed
  ELSE UNCHANGED <<source, attended>> /\ Proceed
-----------------------------------------------------------------------------
(* registerWaiter *)

\* The unlocked test that decides whether the source has to be started.
RegisterTest(t, w) ==
  /\ arg' = [arg EXCEPT ![t] = w]
  /\ Goto(t, IF waitList = <<>> THEN "start" ELSE "begin")
  /\ UNCHANGED <<waitList, count, timerId, lock, it, strayed>>

RegisterCall(c, w) ==
  /\ pc[c] = "idle"
  /\ OwnerOf[w] = c
  /\ calls[c] < MaxCalls
  /\ w \in Restartable => phase[w] = "new"   \* addHeartBeat registers it once
  /\ calls' = [calls EXCEPT ![c] = @ + 1]
  /\ phase' = [phase EXCEPT ![w] = "registered"]
  /\ RegisterTest(c, w)
  /\ UNCHANGED restarts

\* Was the source dropped by cancelTimer?
RegisterStart(t) ==
  /\ pc[t] = "start"
  /\ Goto(t, IF source = "null" THEN "create" ELSE "resume")
  /\ UNCHANGED <<waitList, count, timerId, lock, arg, it, restarts, calls, phase, strayed>>

\* It is created again, with its handler.  Of two threads that both found it
\* dropped the second overwrites the pointer: if the first has resumed its
\* source by then, that source keeps running and nobody can cancel it.
RegisterCreate(t) ==
  /\ pc[t] = "create"
  /\ source' = "made" /\ attended' = Nobody
  /\ orphaned' = (orphaned \/ source = "running")
  /\ Goto(t, "resume")
  /\ UNCHANGED <<waitList, count, lock, arg, it, restarts, calls, phase, strayed>>

\* It is armed and resumed.  To resume a source that runs already, or one that
\* was cancelled meanwhile, ends the process.
RegisterResume(t) ==
  /\ pc[t] = "resume"
  /\ IF source = "made"
     THEN source' = "running" /\ Goto(t, "begin")
     ELSE Die /\ UNCHANGED source
  /\ UNCHANGED <<waitList, count, orphaned, attended, lock, arg, it, restarts, calls,
                 phase, strayed>>

\* The unlocked search, node by node: it begins ...
SearchBegin(t) ==
  /\ pc[t] = "begin"
  /\ it' = [it EXCEPT ![t] = First]
  /\ Goto(t, IF waitList = <<>> THEN "push" ELSE "look")
  /\ UNCHANGED <<waitList, count, timerId, lock, arg, restarts, calls, phase, strayed>>

\* Seeded fault: the counter is not compared with the node's.
SearchLookBlind(t) ==
  /\ pc[t] = "look"
  /\ it[t] \in Positions
  /\ Goto(t, "step") /\ UNCHANGED it
  /\ UNCHANGED <<waitList, count, timerId, lock, arg, restarts, calls, phase, strayed>>

\* ... compares the node's counter ...
SearchLook(t) ==
  /\ pc[t] = "look"
  /\ it[t] \in Positions
  /\ IF waitList[it[t]] = arg[t]
     THEN Goto(t, "found") /\ it' = [it EXCEPT ![t] = Nobody]
     ELSE Goto(t, "step") /\ UNCHANGED it
  /\ UNCHANGED <<waitList, count, timerId, lock, arg, restarts, calls, phase, strayed>>

\* ... and steps to the next, up to end().
SearchStep(t) ==
  /\ pc[t] = "step"
  /\ it[t] \in Positions
  /\ it' = [it EXCEPT ![t] = After(it[t])]
  /\ Goto(t, IF it[t] = Len(waitList) THEN "push" ELSE "look")
  /\ UNCHANGED <<waitList, count, timerId, lock, arg, restarts, calls, phase, strayed>>

\* The node was erased under the search, which goes through freed memory: it
\* may still read there the counter that the node held, or go on from anywhere
\* (the memory may be another node's by now), or end, or find what is not
\* there, or the process dies.
SearchStrays(t) ==
  /\ pc[t] \in {"look", "step"}
  /\ it[t] \in Waiters
  /\ \/ /\ pc[t] = "look" /\ it[t] = arg[t]
        /\ Goto(t, "found") /\ it' = [it EXCEPT ![t] = Nobody]
        /\ UNCHANGED strayed
     \/ /\ strayed' = TRUE
        /\ \/ \E i \in Positions : Goto(t, "look") /\ it' = [it EXCEPT ![t] = i]
           \/ /\ \E label \in {"push", "found"} : Goto(t, label)
              /\ it' = [it EXCEPT ![t] = Nobody]
     \/ Die /\ UNCHANGED <<it, strayed>>
  /\ UNCHANGED <<waitList, count, timerId, lock, arg, restarts, calls, phase>>

\* A counter found in the list starts again from 0.
RegisterFound(t) ==
  /\ pc[t] = "found"
  /\ count' = [count EXCEPT ![arg[t]] = 0]
  /\ Return(t)
  /\ UNCHANGED <<waitList, timerId, lock, it, restarts, calls, phase, strayed>>

RegisterPush(t) ==
  /\ pc[t] = "push"
  /\ lock = Nobody
  /\ waitList' = Append(waitList, arg[t])
  /\ Return(t)
  /\ UNCHANGED <<count, timerId, lock, it, restarts, calls, phase, strayed>>
-----------------------------------------------------------------------------
(* unregisterWaiter *)

UnregisterCall(c, w) ==
  /\ pc[c] = "idle"
  /\ OwnerOf[w] = c
  /\ calls[c] < MaxCalls
  /\ w \in Restartable => phase[w] = "registered"
  /\ calls' = [calls EXCEPT ![c] = @ + 1]
  /\ IF waitList = <<>>
     THEN phase' = [phase EXCEPT ![w] = "unregistered"] /\ UNCHANGED <<pc, arg>>
     ELSE Goto(c, "erase") /\ arg' = [arg EXCEPT ![c] = w] /\ UNCHANGED phase
  /\ UNCHANGED <<waitList, count, timerId, lock, it, restarts, strayed>>

\* The first node that holds w is erased, if there is one.
EraseCounter(w) ==
  \/ /\ w \notin Listed
     /\ UNCHANGED <<waitList, it>>
  \/ \E i \in Positions :
       /\ waitList[i] = w
       /\ \A j \in 1 .. i - 1 : waitList[j] # w
       /\ waitList' = RemoveAt(waitList, i)
       /\ it' = [t \in Threads |-> Shifted(it[t], i)]

\* Seeded fault: the erase does not take the mutex.
UnregisterEraseUnlocked(c) ==
  /\ pc[c] = "erase"
  /\ EraseCounter(arg[c])
  /\ CancelIfEmpty(Return(c))
  /\ phase' = [phase EXCEPT ![arg[c]] = "unregistered"]
  /\ UNCHANGED <<count, orphaned, lock, restarts, calls, strayed>>

UnregisterErase(c) ==
  /\ pc[c] = "erase"
  /\ lock = Nobody
  /\ EraseCounter(arg[c])
  /\ CancelIfEmpty(Return(c))
  /\ phase' = [phase EXCEPT ![arg[c]] = "unregistered"]
  /\ UNCHANGED <<count, orphaned, lock, restarts, calls, strayed>>
-----------------------------------------------------------------------------
(* traval *)

\* The handler runs; begin() is taken before the mutex.  A source does not
\* call its handler while the handler is running for it.
TravalBegin(h) ==
  /\ pc[h] = "idle"
  /\ \/ /\ source = "running"
        /\ attended # Nobody => pc[attended] = "idle"
        /\ attended' = h
     \/ /\ orphaned
        /\ attended' = IF attended = h THEN Nobody ELSE attended
  /\ it' = [it EXCEPT ![h] = First]
  /\ Goto(h, "enter")
  /\ UNCHANGED <<waitList, count, source, orphaned, lock, arg, restarts, calls, phase,
                 strayed>>

TravalEnter(h) ==
  /\ pc[h] = "enter"
  /\ lock = Nobody
  /\ lock' = h
  /\ Goto(h, "walk")
  /\ UNCHANGED <<waitList, count, timerId, arg, it, restarts, calls, phase, strayed>>

\* Seeded fault: the break after RESET is missing, and the count goes on.
CountAfterFallsThrough(n, answer) ==
  CASE answer = "INC" -> n + 1 [] answer = "RESTART" -> 0
    [] answer = "RELASE" -> n [] OTHER -> 1

\* What an answer makes of the counter's value: RELASE leaves it alone.
CountAfter(n, answer) ==
  CASE answer = "INC" -> n + 1 [] answer = "RELASE" -> n [] OTHER -> 0

\* Seeded fault: every counter that leaves the list is registered again.
RestartsAfterAny(h, w, answer) ==
  IF answer \in {"RELASE", "RESTART"} THEN Append(restarts[h], w) ELSE restarts[h]

RestartsAfter(h, w, answer) ==
  IF answer = "RESTART" THEN Append(restarts[h], w) ELSE restarts[h]

\* matchCond is called and its answer applied: the node stays and the walk
\* goes on to the next, or is erased and erase() returns the next.
TravalVisit(h) ==
  LET i == it[h]
      w == waitList[i]
  IN
  /\ pc[h] = "walk"
  /\ i \in Positions
  /\ \E answer \in Answers(w) :
       /\ answer = "INC" => count[w] < MaxCount
       /\ IF answer \in {"RELASE", "RESTART"}
          THEN /\ waitList' = RemoveAt(waitList, i)
               /\ it' = [t \in Threads |->
                           IF t # h THEN Shifted(it[t], i)
                           ELSE IF i = Len(waitList) THEN Nobody ELSE i]
               /\ CancelIfEmpty(UNCHANGED <<pc, arg>>)
          ELSE /\ it' = [it EXCEPT ![h] = After(i)]
               /\ UNCHANGED <<waitList, source, attended, pc, arg>>
       /\ count' = [count EXCEPT ![w] = CountAfter(@, answer)]
       /\ restarts' = [restarts EXCEPT ![h] = RestartsAfter(h, w, answer)]
  /\ UNCHANGED <<orphaned, lock, calls, phase, strayed>>

\* The node begin() returned was erased before the mutex was taken: the walk
\* dereferences freed memory.  The node's content may survive, so that the
\* counter is visited a last time and the walk goes on from any node or ends;
\* the memory may be another node's by now; or the process dies.
TravalDangling(h) ==
  LET w == it[h] IN
  /\ pc[h] = "walk"
  /\ w \in Waiters
  /\ \/ /\ \E answer \in {"RESET", "INC"} :
             /\ answer = "INC" => count[w] < MaxCount
             /\ count' = [count EXCEPT ![w] = IF answer = "INC" THEN @ + 1 ELSE 0]
        /\ \E i \in Positions \cup {Nobody} : it' = [it EXCEPT ![h] = i]
        /\ UNCHANGED pc
     \/ /\ \E i \in Positions : it' = [it EXCEPT ![h] = i]
        /\ UNCHANGED <<pc, count>>
     \/ /\ Die
        /\ UNCHANGED <<count, it>>
  /\ UNCHANGED <<waitList, timerId, lock, arg, restarts, calls, phase, strayed>>

\* Seeded fault: the restart list is dropped with the mutex.
TravalLeaveForgets(h) ==
  /\ pc[h] = "walk"
  /\ it[h] = Nobody
  /\ lock' = Nobody
  /\ Goto(h, "idle")
  /\ UNCHANGED <<waitList, count, timerId, arg, it, restarts, calls, phase, strayed>>

TravalLeave(h) ==
  /\ pc[h] = "walk"
  /\ it[h] = Nobody
  /\ lock' = Nobody
  /\ Goto(h, IF restarts[h] = <<>> THEN "idle" ELSE "rejoin")
  /\ UNCHANGED <<waitList, count, timerId, arg, it, restarts, calls, phase, strayed>>

\* Each counter that asked for it is registered again, without the mutex.
TravalRejoin(h) ==
  /\ pc[h] = "rejoin"
  /\ restarts' = [restarts EXCEPT ![h] = Tail(@)]
  /\ RegisterTest(h, Head(restarts[h]))
  /\ UNCHANGED <<calls, phase>>
-----------------------------------------------------------------------------
SearchMove(t) == SearchBegin(t) \/ SearchLook(t) \/ SearchStep(t) \/ SearchStrays(t)

RegisterStep(t) ==
  \/ RegisterStart(t) \/ RegisterCreate(t) \/ RegisterResume(t)
  \/ SearchMove(t)
  \/ RegisterFound(t) \/ RegisterPush(t)

TravalStep(h) ==
  \/ TravalBegin(h) \/ TravalEnter(h) \/ TravalVisit(h) \/ TravalDangling(h)
  \/ TravalLeave(h) \/ TravalRejoin(h)

Next ==
  \/ \E c \in Clients, w \in Waiters : RegisterCall(c, w) \/ UnregisterCall(c, w)
  \/ \E c \in Clients : UnregisterErase(c)
  \/ \E t \in Threads : RegisterStep(t)
  \/ \E h \in Handlers : TravalStep(h)

\* A handler that was called keeps running; the mutex is not fair, but gets to
\* every thread that waits for it.  Nothing obliges a client to call, or to
\* finish its call soon.
Fairness == \A h \in Handlers : SF_vars(TravalStep(h) \/ RegisterStep(h))

Spec == Init /\ [][Next]_vars
FairSpec == Spec /\ Fairness
-----------------------------------------------------------------------------
(* Properties *)

Ticks == INSTANCE TickService WITH listed <- Listed

\* traval, registerWaiter and unregisterWaiter together behave as the tick
\* service their users assume: a counter leaves the list only by its own
\* answer or an unregistration, and its value follows its answers.  And the
\* list is the service's set: no interleaving of the unlocked search lists a
\* counter twice, until a search has gone on through a node that was erased
\* under it.
ImplementsTickService == Ticks!Spec /\ [](strayed \/ IsInjective(waitList))

\* The mutex protects the iterator of a traversal: once traval is inside it,
\* no other thread's erase takes away the node that it stands on.
IteratorStaysValid ==
  [][\A h \in Handlers :
       pc[h] = "walk" /\ it[h] \notin Waiters => it'[h] \notin Waiters]_vars

\* A counter that answered RESTART is put back in the list, or the process
\* dies, or a search that went through an erased node took it for listed.
RestartedCounterRejoins ==
  \A w \in Restartable :
    (\E h \in Handlers : w \in ToSet(restarts[h]))
      ~> (w \in Listed \/ Dead \/ strayed)

\* TimerTrigger.hpp:88: a registered counter keeps the timer firing.
\* Whenever no call is in progress, a counter in the list has a running source.
RegisteredKeepsTimerFiring ==
  (\A t \in Threads : pc[t] = "idle") /\ waitList # <<>>
    => source = "running" \/ orphaned
=============================================================================
