---------------------------- MODULE TickService ----------------------------
(***************************************************************************)
(* What TimerTrigger promises to the owners of tick counters, whatever its *)
(* list, its lock and its dispatch source do: the set of counters that are *)
(* ticked, and the value each counter has reached.  The operators are also *)
(* the interface through which IOQueue uses its two timers.                *)
(***************************************************************************)
EXTENDS Integers

CONSTANTS
  Waiters,    \* the TickCounter objects
  MaxCount    \* bound on TickCounter::count (a vl_uint32 in the code)

VARIABLES
  listed,     \* the counters TimerTrigger::traval visits
  count       \* TickCounter::count of each counter

vars == <<listed, count>>

\* ETIMER_TRIGGER_RET, with the spelling of the enumeration.
Answers == {"RESET", "INC", "RELASE", "RESTART"}

TypeOK ==
  /\ listed \subseteq Waiters
  /\ count \in [Waiters -> 0 .. MaxCount]

Init ==
  /\ listed = {}
  /\ count = [w \in Waiters |-> 0]

\* A counter that is already listed starts again from 0; one that is not
\* listed keeps the count its last life left in it.
Register(w) ==
  /\ listed' = listed \cup {w}
  /\ count' = IF w \in listed THEN [count EXCEPT ![w] = 0] ELSE count

Unregister(w) ==
  /\ listed' = listed \ {w}
  /\ UNCHANGED count

\* The effect of one answer of matchCond on a counter's value.
Counted(n, answer) ==
  CASE answer = "INC"                -> n + 1
    [] answer \in {"RESET", "RESTART"} -> 0
    [] answer = "RELASE"             -> n

Tick(w, answer) ==
  /\ w \in listed
  /\ answer = "INC" => count[w] < MaxCount
  /\ listed' = IF answer \in {"RELASE", "RESTART"} THEN listed \ {w} ELSE listed
  /\ count' = [count EXCEPT ![w] = Counted(@, answer)]

\* A traversal that started before an unregistration may still reach the
\* counter once: its value changes, the set of listed counters does not.
StrayTick(w, answer) ==
  /\ w \notin listed
  /\ answer = "INC" => count[w] < MaxCount
  /\ count' = [count EXCEPT ![w] = Counted(@, answer)]
  /\ UNCHANGED listed

Next ==
  \E w \in Waiters :
    \/ Register(w)
    \/ Unregister(w)
    \/ \E answer \in Answers : Tick(w, answer) \/ StrayTick(w, answer)

Spec == Init /\ [][Next]_vars
=============================================================================
