-------------------------- MODULE UnitCircleBuffer --------------------------
(***************************************************************************)
(* UnitCircleBuffer: the ring of 16-bit samples between the recorder and   *)
(* the encoder, and between the decoder and the player.  The reader may    *)
(* take a block by address (getRange) and the decoder may fill one by      *)
(* address (markRange): such a block must not go over the end of the       *)
(* memory, and the call is refused when it would.  Each ring is used by    *)
(* one thread, so that a call is a step; a refused call changes nothing.   *)
(***************************************************************************)
EXTENDS Integers, Sequences

CONSTANTS
  Samples,     \* the values of a sample
  Silence,     \* the one memset leaves
  Unit,        \* samplePerPackage, or the 640 samples of a decoded frame
  Units,       \* the capacity in units
  MaxBlock     \* bound on the samples of one call

ASSUME CircleBufferAssumption ==
  /\ Silence \in Samples
  /\ Unit \in Nat \ {0}
  /\ Units \in Nat \ {0}
  /\ MaxBlock \in Nat

VARIABLES
  buf,         \* the memory
  off_rd,      \* the first readable offset
  len,         \* the number of readable samples
  moreData,    \* closeWrite has not been called
  moved        \* the samples the last successful call put in or handed out

vars == <<buf, off_rd, len, moreData, moved>>

Capacity == Unit * Units
Offsets == 0 .. Capacity - 1
Blocks == UNION {[1 .. n -> Samples] : n \in 0 .. MaxBlock}

Wrap(offset) == offset % Capacity

TypeOK ==
  /\ buf \in [Offsets -> Samples]
  /\ off_rd \in Offsets
  /\ len \in 0 .. Capacity
  /\ moreData \in BOOLEAN
  /\ moved \in Seq(Samples)

Init ==
  /\ buf = [k \in Offsets |-> Silence]
  /\ off_rd = 0
  /\ len = 0
  /\ moreData = TRUE
  /\ moved = <<>>

\* Seeded fault: the part that goes over the end is not copied.
CopiedHead(block, offset) ==
  [k \in Offsets |->
     IF offset <= k /\ k < offset + Len(block) THEN block[k - offset + 1] ELSE buf[k]]

\* The memory after the block is copied to offset, in two parts if need be.
Copied(block, offset) ==
  [k \in Offsets |->
     IF offset <= k /\ k < offset + Len(block) THEN block[k - offset + 1]
     ELSE IF k < offset + Len(block) - Capacity THEN block[k + Capacity - offset + 1]
     ELSE buf[k]]

Write(block) ==
  /\ Len(block) <= Capacity - len
  /\ buf' = Copied(block, Wrap(off_rd + len))
  /\ len' = len + Len(block)
  /\ moved' = block
  /\ UNCHANGED <<off_rd, moreData>>

\* markRange, and the copy its caller makes to the address it returns.
CanMark(n) ==
  LET wdOff == Wrap(off_rd + len) IN
  /\ n <= Capacity - len
  /\ ~(wdOff >= off_rd /\ n > Capacity - wdOff)

MarkRange(block) ==
  /\ CanMark(Len(block))
  /\ buf' = Copied(block, Wrap(off_rd + len))
  /\ len' = len + Len(block)
  /\ moved' = block
  /\ UNCHANGED <<off_rd, moreData>>

\* Seeded fault: the readable offset is not wrapped.
ConsumeUnwrapped(n) ==
  /\ len' = len - n
  /\ off_rd' = off_rd + n

Consume(n) ==
  /\ len' = len - n
  /\ off_rd' = Wrap(off_rd + n)

CanGet(n) == n <= len /\ n <= Capacity - off_rd

\* The caller gets the address of the first sample.
GetRange(n) ==
  /\ CanGet(n)
  /\ moved' = [i \in 1 .. n |-> buf[off_rd + i - 1]]
  /\ Consume(n)
  /\ UNCHANGED <<buf, moreData>>

Read(n) ==
  /\ n <= len
  /\ moved' = [i \in 1 .. n |->
                 IF i <= Capacity - off_rd THEN buf[off_rd + i - 1]
                                           ELSE buf[i - 1 - (Capacity - off_rd)]]
  /\ Consume(n)
  /\ UNCHANGED <<buf, moreData>>

Reset ==
  /\ buf' = [k \in Offsets |-> Silence]
  /\ off_rd' = 0
  /\ len' = 0
  /\ UNCHANGED <<moreData, moved>>

CloseWrite ==
  /\ moreData' = FALSE
  /\ UNCHANGED <<buf, off_rd, len, moved>>
-----------------------------------------------------------------------------
\* Any sequence of calls, with any sizes.
Next ==
  \/ \E block \in Blocks : Write(block) \/ MarkRange(block)
  \/ \E n \in 0 .. Capacity : GetRange(n) \/ Read(n)
  \/ CloseWrite
  \/ Reset

Spec == Init /\ [][Next]_vars

\* Seeded fault: a package is filled up with whatever there is, although more
\* is to come.
GetPackageEarly == \E n \in 1 .. Unit : (n = Unit \/ n = len) /\ GetRange(n)

\* getEncodedPacket takes one package.  (The shorter last package is for a ring
\* whose writing is closed, and nothing ever closes the writing of this one.)
GetPackage == GetRange(Unit)

\* AudioEncoder: the recorder writes what it has.
EncoderNext == GetPackage \/ \E block \in Blocks : Write(block)

EncoderSpec == Init /\ [][EncoderNext]_vars

\* SilkDecoder::decode marks and fills one frame.
FeedFrame(block) ==
  /\ Len(block) = Unit
  /\ MarkRange(block)

\* HandleOutputBuffer plays one frame.
PlayFrame == GetRange(Unit)

\* The feeder decodes whole frames, and may close the writing; the callback
\* plays them.
PlayerNext ==
  \/ moreData /\ \E block \in Blocks : FeedFrame(block)
  \/ PlayFrame
  \/ CloseWrite

PlayerSpec == Init /\ [][PlayerNext]_vars
-----------------------------------------------------------------------------
(* Properties *)

Contents == [i \in 1 .. len |-> buf[Wrap(off_rd + i - 1)]]

Fifo == INSTANCE PcmFifo WITH queue <- Contents, open <- moreData, moved <- moved

\* Whatever the calls and their sizes, the ring is a first-in first-out queue:
\* neither the wrapped copies nor the refused ranges lose, repeat or reorder a
\* sample, and a range that is handed out holds the oldest ones.
ImplementsFifo == Fifo!Spec

\* getRange is refused when the range would go over the end, and the encoder's
\* caller then loses its package and its lock.  However odd the blocks the
\* recorder writes, a package that is there is never refused.
PackageNeverRefused == len >= Unit => CanGet(Unit)

\* The residue that HandleOutputBuffer would dump, half of it, once the writing
\* is closed never arises: what there is to play is a whole frame in one piece.
NoResidue == len > 0 => CanGet(Unit)

\* markRange is refused when the range would go over the end, and would stay
\* refused even when the ring is empty.  With whole frames in and out it never is
\* while a frame's room is free.
FrameNeverRefused == Capacity - len >= Unit => CanMark(Unit)
=============================================================================
