------------------------------ MODULE PcmFifo ------------------------------
(***************************************************************************)
(* What a circle buffer of samples promises: the samples come out in the   *)
(* order they went in, none twice and none lost, and what a caller gets is *)
(* what was at the front.                                                  *)
(***************************************************************************)
EXTENDS Integers, Sequences

CONSTANTS
  Blocks,      \* the blocks of samples that may be put in
  Capacity     \* how many samples it holds

VARIABLES
  queue,       \* the samples inside, oldest first
  open,        \* more may come
  moved        \* what the last successful call put in or handed out

vars == <<queue, open, moved>>

Init == queue = <<>> /\ open = TRUE /\ moved = <<>>

Put(block) ==
  /\ Len(queue) + Len(block) <= Capacity
  /\ queue' = queue \o block
  /\ moved' = block
  /\ UNCHANGED open

Take(n) ==
  /\ n <= Len(queue)
  /\ moved' = SubSeq(queue, 1, n)
  /\ queue' = SubSeq(queue, n + 1, Len(queue))
  /\ UNCHANGED open

Close == open' = FALSE /\ UNCHANGED <<queue, moved>>

Clear == queue' = <<>> /\ UNCHANGED <<open, moved>>

Next ==
  \/ \E block \in Blocks : Put(block)
  \/ \E n \in 0 .. Capacity : Take(n)
  \/ Close
  \/ Clear

Spec == Init /\ [][Next]_vars
=============================================================================
