---------------------------- MODULE Codec_proofs ----------------------------
(***************************************************************************)
(* Between the samples and the bytes of a file: the ring that samples and  *)
(* packages wait in, and the range coder the solo codec writes its         *)
(* packages with.                                                          *)
(*                                                                         *)
(* The ring, for every capacity, unit and block size, is a first-in        *)
(* first-out queue, and with whole units taken out the ranges by address   *)
(* are never refused.                                                      *)
(*                                                                         *)
(* The range coder, for every sequence of symbols of any rising tables:    *)
(* the carry stays inside the bytes written, and the decoder reads back    *)
(* the symbols that were encoded.                                          *)
(***************************************************************************)
EXTENDS UnitCircleBuffer, RangeCoder, SequenceTheorems, WellFoundedInduction, TLAPS

-----------------------------------------------------------------------------
(* The ring of samples and packages. *)

LEMMA CapacityType == Capacity \in Nat \ {0}
  BY CircleBufferAssumption DEF Capacity

LEMMA ScaleMonotone ==
  ASSUME NEW c \in Nat, NEW a \in Int, NEW b \in Int, a <= b
  PROVE  c * a <= c * b
  BY Z3

LEMMA OneTurn ==
  ASSUME NEW c \in Nat \ {0}, NEW i \in c .. 2 * c - 1
  PROVE  i % c = i - c
<1> DEFINE d == i \div c
           r == i % c
<1>1. d \in Int /\ r \in 0 .. c - 1 /\ i = c * d + r
  OBVIOUS
<1> HIDE DEF d, r
<1>2. CASE d >= 2
  <2>1. c * 2 <= c * d
    BY <1>1, <1>2, ScaleMonotone
  <2> QED
    BY <1>1, <2>1
<1>3. CASE d <= 0
  <2>1. c * d <= c * 0
    BY <1>1, <1>3, ScaleMonotone
  <2> QED
    BY <1>1, <2>1
<1>4. CASE d = 1
  BY <1>1, <1>4 DEF r
<1> QED
  BY <1>1, <1>2, <1>3, <1>4

LEMMA WrapSmall ==
  ASSUME NEW i \in 0 .. 2 * Capacity - 1
  PROVE  Wrap(i) = IF i < Capacity THEN i ELSE i - Capacity
<1>1. Capacity \in Nat \ {0}
  BY CapacityType
<1>2. CASE i < Capacity
  BY <1>1, <1>2 DEF Wrap
<1>3. CASE i >= Capacity
  BY <1>1, <1>3, OneTurn DEF Wrap
<1> QED
  BY <1>1, <1>2, <1>3

LEMMA WrapTurn ==
  ASSUME NEW x \in 0 .. Capacity - 1
  PROVE  Wrap(Capacity + x) = x
<1>1. Capacity \in Nat \ {0}
  BY CapacityType
<1>2. PICK i \in Capacity .. 2 * Capacity - 1 : i = Capacity + x
  BY <1>1
<1>3. i % Capacity = i - Capacity
  BY <1>1, OneTurn
<1> QED
  BY <1>1, <1>2, <1>3 DEF Wrap

LEMMA FunctionIsSeq ==
  ASSUME NEW S, NEW n \in Nat, NEW f \in [1 .. n -> S]
  PROVE  f \in Seq(S) /\ Len(f) = n
  OBVIOUS

LEMMA BlockType ==
  ASSUME NEW block \in Blocks
  PROVE  /\ block \in Seq(Samples)
         /\ Len(block) \in Nat
         /\ block \in [1 .. Len(block) -> Samples]
<1>1. PICK n \in 0 .. MaxBlock : block \in [1 .. n -> Samples]
  BY DEF Blocks
<1>2. n \in Nat
  BY CircleBufferAssumption
<1> QED
  BY <1>1, <1>2

\* The next free offset is a rank after the last stored sample.
LEMMA OffsetTypes ==
  ASSUME off_rd \in Offsets, len \in 0 .. Capacity
  PROVE  /\ Capacity \in Nat \ {0}
         /\ \A i \in 1 .. Capacity : Wrap(off_rd + i - 1) \in Offsets
         /\ Wrap(off_rd + len) \in Offsets
<1>1. Capacity \in Nat \ {0}
  BY CapacityType
<1> QED
  BY <1>1, WrapSmall DEF Offsets

LEMMA ContentsType ==
  ASSUME TypeOK
  PROVE  /\ Contents \in Seq(Samples)
         /\ Len(Contents) = len
         /\ \A i \in 1 .. len : Contents[i] = buf[Wrap(off_rd + i - 1)]
<1>1. \A i \in 1 .. len : Wrap(off_rd + i - 1) \in Offsets
  <2>1. \A i \in 1 .. Capacity : Wrap(off_rd + i - 1) \in Offsets
    BY OffsetTypes DEF TypeOK
  <2>2. len \in 0 .. Capacity /\ Capacity \in Nat
    BY CapacityType DEF TypeOK
  <2> QED
    BY <2>1, <2>2
<1>2. \A i \in 1 .. len : buf[Wrap(off_rd + i - 1)] \in Samples
  BY <1>1 DEF TypeOK
<1>3. len \in Nat
  BY CapacityType DEF TypeOK
<1> QED
  BY <1>2, <1>3 DEF Contents

LEMMA CopiedType ==
  ASSUME buf \in [Offsets -> Samples], NEW block \in Blocks,
         NEW offset \in Offsets, Len(block) <= Capacity
  PROVE  Copied(block, offset) \in [Offsets -> Samples]
  BY CapacityType, BlockType DEF Copied, Offsets

\* Storing a block at the free offset appends it to the contents.
LEMMA StoreAppends ==
  ASSUME TypeOK, NEW block \in Blocks, Len(block) <= Capacity - len,
         buf' = Copied(block, Wrap(off_rd + len)),
         len' = len + Len(block), off_rd' = off_rd
  PROVE  /\ buf' \in [Offsets -> Samples]
         /\ len' \in 0 .. Capacity
         /\ Contents' = Contents \o block
<1> DEFINE C == Capacity
           p == Wrap(off_rd + len)
           n == Len(block)
<1>1. /\ C \in Nat \ {0} /\ len \in 0 .. C /\ off_rd \in 0 .. C - 1
      /\ n \in Nat /\ n <= C - len
      /\ buf \in [Offsets -> Samples]
  BY CapacityType, BlockType DEF TypeOK, Offsets
<1>2. p \in Offsets /\ p = IF off_rd + len < C THEN off_rd + len ELSE off_rd + len - C
  BY <1>1, WrapSmall, OffsetTypes DEF Offsets
<1>3. buf' \in [Offsets -> Samples]
  BY <1>1, <1>2, CopiedType
<1>4. len' \in 0 .. C
  BY <1>1
<1>5. /\ Contents \in Seq(Samples) /\ Len(Contents) = len
      /\ \A i \in 1 .. len : Contents[i] = buf[Wrap(off_rd + i - 1)]
  BY ContentsType
<1>6. /\ Contents \o block \in Seq(Samples)
      /\ Len(Contents \o block) = len + n
      /\ \A i \in 1 .. len + n :
           (Contents \o block)[i] = IF i <= len THEN Contents[i] ELSE block[i - len]
  BY <1>5, BlockType, ConcatProperties
<1>7. \A i \in 1 .. len + n :
        buf'[Wrap(off_rd + i - 1)] = IF i <= len THEN Contents[i] ELSE block[i - len]
  <2> SUFFICES ASSUME NEW i \in 1 .. len + n
               PROVE  buf'[Wrap(off_rd + i - 1)]
                        = IF i <= len THEN Contents[i] ELSE block[i - len]
    OBVIOUS
  <2> DEFINE k == Wrap(off_rd + i - 1)
  <2>1. /\ k \in Offsets /\ k \in 0 .. C - 1
        /\ k = IF off_rd + i - 1 < C THEN off_rd + i - 1 ELSE off_rd + i - 1 - C
    BY <1>1, WrapSmall DEF Offsets
  <2>2. buf'[k] = IF p <= k /\ k < p + n THEN block[k - p + 1]
                  ELSE IF k < p + n - C THEN block[k + C - p + 1]
                  ELSE buf[k]
    BY <2>1 DEF Copied
  <2> HIDE DEF k, p, C, n
  <2>3. CASE i <= len
    <3>1. ~(p <= k /\ k < p + n) /\ ~(k < p + n - C)
      BY <1>1, <1>2, <2>1, <2>3 DEF Offsets
    <3>2. i \in 1 .. len
      BY <1>1, <2>3
    <3>3. Contents[i] = buf[k]
      BY <1>5, <3>2 DEF k
    <3> QED
      BY <2>2, <3>1, <2>3, <3>3 DEF k
  <2>4. CASE i > len
    <3>1. \/ p <= k /\ k < p + n /\ k - p + 1 = i - len
          \/ ~(p <= k /\ k < p + n) /\ k < p + n - C /\ k + C - p + 1 = i - len
      BY <1>1, <1>2, <2>1, <2>4 DEF Offsets
    <3>2. buf'[k] = block[i - len]
      BY <2>2, <3>1
    <3>3. ~(i <= len)
      BY <1>1, <2>4
    <3> QED
      BY <3>2, <3>3 DEF k
  <2> QED
    BY <1>1, <2>3, <2>4
<1>8. Contents' = [i \in 1 .. len + n |-> buf'[Wrap(off_rd + i - 1)]]
  BY DEF Contents, Wrap
<1>9. \A i \in 1 .. len + n : (Contents \o block)[i] = buf'[Wrap(off_rd + i - 1)]
  BY <1>6, <1>7
<1>10. len + n \in Nat /\ \A i \in 1 .. len + n : (Contents \o block)[i] \in Samples
  BY <1>1, <1>6
<1>11. /\ Contents' \in Seq(Samples) /\ Len(Contents') = len + n
       /\ \A i \in 1 .. len + n : Contents'[i] = (Contents \o block)[i]
  <2>1. \A i \in 1 .. len + n : buf'[Wrap(off_rd + i - 1)] \in Samples
    BY <1>9, <1>10
  <2>2. Contents' \in [1 .. len + n -> Samples]
    BY <1>8, <2>1
  <2>3. \A i \in 1 .. len + n : Contents'[i] = buf'[Wrap(off_rd + i - 1)]
    BY <1>8
  <2>4. Contents' \in Seq(Samples) /\ Len(Contents') = len + n
    BY <1>10, <2>2, FunctionIsSeq
  <2> QED
    BY <1>9, <2>3, <2>4
<1>12. Contents' = Contents \o block
  <2> HIDE DEF n
  <2> QED
    BY <1>6, <1>11, SeqEqual
<1> QED
  BY <1>3, <1>4, <1>12

\* Consuming the first samples leaves the others, in their order.
LEMMA ConsumeDrops ==
  ASSUME TypeOK, NEW n \in 0 .. Capacity, n <= len, Consume(n), buf' = buf
  PROVE  /\ len' \in 0 .. Capacity
         /\ off_rd' \in Offsets
         /\ Contents' = SubSeq(Contents, n + 1, Len(Contents))
<1> DEFINE C == Capacity
           rest == SubSeq(Contents, n + 1, Len(Contents))
<1>1. /\ C \in Nat \ {0} /\ len \in 0 .. C /\ off_rd \in 0 .. C - 1
      /\ n \in 0 .. len
  BY CapacityType DEF TypeOK, Offsets
<1>2. /\ len' = len - n /\ len' \in 0 .. C
      /\ off_rd' = IF off_rd + n < C THEN off_rd + n ELSE off_rd + n - C
  BY <1>1, WrapSmall DEF Consume
<1>3. off_rd' \in Offsets
  BY <1>1, <1>2 DEF Offsets
<1>4. /\ Contents \in Seq(Samples) /\ Len(Contents) = len
      /\ \A i \in 1 .. len : Contents[i] = buf[Wrap(off_rd + i - 1)]
  BY ContentsType
<1>5. \A i \in n + 1 .. len : Contents[i] \in Samples
  BY <1>1, <1>4
<1>6. /\ rest \in Seq(Samples)
      /\ Len(rest) = len - n
      /\ \A i \in 1 .. len - n : rest[i] = Contents[n + i]
  <2>1. /\ rest \in Seq(Samples)
        /\ Len(rest) = IF n + 1 <= len THEN len - (n + 1) + 1 ELSE 0
        /\ \A i \in 1 .. len - (n + 1) + 1 : rest[i] = Contents[(n + 1) + i - 1]
    BY <1>1, <1>4, <1>5, SubSeqProperties
  <2> HIDE DEF rest
  <2>2. ASSUME NEW i \in 1 .. len - n PROVE rest[i] = Contents[n + i]
    <3>1. i \in 1 .. len - (n + 1) + 1 /\ (n + 1) + i - 1 = n + i
      BY <1>1
    <3> QED
      BY <2>1, <3>1
  <2> QED
    BY <1>1, <2>1, <2>2
<1>7. \A i \in 1 .. len - n : rest[i] = buf[Wrap(off_rd' + i - 1)]
  <2> SUFFICES ASSUME NEW i \in 1 .. len - n
               PROVE  rest[i] = buf[Wrap(off_rd' + i - 1)]
    OBVIOUS
  <2>1. n + i \in 1 .. len /\ off_rd + (n + i) - 1 \in 0 .. 2 * C - 1
        /\ off_rd' + i - 1 \in 0 .. 2 * C - 1
    BY <1>1, <1>2
  <2>2. Wrap(off_rd + (n + i) - 1) = Wrap(off_rd' + i - 1)
    BY <1>1, <1>2, <2>1, WrapSmall
  <2> QED
    BY <1>4, <1>6, <2>1, <2>2
<1>8. Contents' = [i \in 1 .. len - n |-> buf[Wrap(off_rd' + i - 1)]]
  BY <1>2 DEF Contents, Wrap
<1>9. Contents' = rest
  <2> HIDE DEF rest
  <2>1. /\ Contents' \in Seq(Samples) /\ Len(Contents') = len - n
        /\ \A i \in 1 .. len - n : Contents'[i] = rest[i]
    <3>1. len - n \in Nat /\ \A i \in 1 .. len - n : rest[i] \in Samples
      BY <1>1, <1>6
    <3>2. Contents' \in [1 .. len - n -> Samples]
      BY <1>7, <1>8, <3>1
    <3>3. \A i \in 1 .. len - n : Contents'[i] = buf[Wrap(off_rd' + i - 1)]
      BY <1>8
    <3>4. Contents' \in Seq(Samples) /\ Len(Contents') = len - n
      BY <3>1, <3>2, FunctionIsSeq
    <3> QED
      BY <1>7, <3>3, <3>4
  <2> QED
    BY <1>6, <2>1, SeqEqual
<1> QED
  BY <1>2, <1>3, <1>9

\* What GetRange and Read hand out is the front of the contents.
LEMMA FrontHandedOut ==
  ASSUME TypeOK, NEW n \in 0 .. Capacity, GetRange(n) \/ Read(n)
  PROVE  /\ n <= len
         /\ moved' \in Seq(Samples)
         /\ moved' = SubSeq(Contents, 1, n)
<1> DEFINE C == Capacity
           front == SubSeq(Contents, 1, n)
<1>1. /\ C \in Nat \ {0} /\ len \in 0 .. C /\ off_rd \in 0 .. C - 1
      /\ n \in 0 .. len
  BY CapacityType DEF TypeOK, Offsets, GetRange, CanGet, Read
<1>2. /\ Contents \in Seq(Samples) /\ Len(Contents) = len
      /\ \A i \in 1 .. len : Contents[i] = buf[Wrap(off_rd + i - 1)]
  BY ContentsType
<1>3. \A i \in 1 .. n : Contents[i] \in Samples
  BY <1>1, <1>2
<1>4. /\ front \in Seq(Samples)
      /\ Len(front) = n
      /\ \A i \in 1 .. n : front[i] = Contents[i]
  <2>1. /\ front \in Seq(Samples)
        /\ Len(front) = IF 1 <= n THEN n - 1 + 1 ELSE 0
        /\ \A i \in 1 .. n - 1 + 1 : front[i] = Contents[1 + i - 1]
    BY <1>1, <1>3, SubSeqProperties
  <2> HIDE DEF front
  <2>2. ASSUME NEW i \in 1 .. n PROVE front[i] = Contents[i]
    <3>1. i \in 1 .. n - 1 + 1 /\ 1 + i - 1 = i
      BY <1>1
    <3> QED
      BY <2>1, <3>1
  <2> QED
    BY <1>1, <2>1, <2>2
<1>5. \A i \in 1 .. n : Contents[i] = IF off_rd + i - 1 < C THEN buf[off_rd + i - 1]
                                      ELSE buf[off_rd + i - 1 - C]
  BY <1>1, <1>2, WrapSmall
<1>6. \A i \in 1 .. n : i <= C - off_rd <=> off_rd + i - 1 < C
  BY <1>1
<1>7. \A i \in 1 .. n : off_rd + i - 1 - C = i - 1 - (C - off_rd)
  BY <1>1
<1> HIDE DEF C, front
<1>8. moved' = [i \in 1 .. n |-> Contents[i]]
  <2>1. CASE GetRange(n)
    <3>1. \A i \in 1 .. n : i <= C - off_rd
      BY <1>1, <2>1 DEF GetRange, CanGet, C
    <3> QED
      BY <2>1, <1>5, <1>6, <3>1 DEF GetRange
  <2>2. CASE Read(n)
    <3>1. moved' = [i \in 1 .. n |-> IF i <= C - off_rd THEN buf[off_rd + i - 1]
                                     ELSE buf[i - 1 - (C - off_rd)]]
      BY <2>2 DEF Read, C
    <3> QED
      BY <3>1, <1>5, <1>6, <1>7
  <2> QED
    BY <2>1, <2>2
<1>9. moved' \in [1 .. n -> Samples] /\ n \in Nat
  BY <1>1, <1>3, <1>8
<1>10. moved' \in Seq(Samples) /\ Len(moved') = n
  BY <1>9, FunctionIsSeq
<1>11. moved' = front
  BY <1>4, <1>8, <1>10, SeqEqual
<1> QED
  BY <1>1, <1>10, <1>11 DEF front

LEMMA ResetEmpties ==
  ASSUME Reset
  PROVE  /\ buf' \in [Offsets -> Samples] /\ off_rd' \in Offsets
         /\ len' \in 0 .. Capacity
         /\ Contents' = <<>>
  BY CapacityType, CircleBufferAssumption DEF Reset, Contents, Offsets

\* Every call keeps the types and is a step of the queue, or a stutter.
LEMMA StepImplements ==
  ASSUME TypeOK, [Next]_vars
  PROVE  TypeOK' /\ [Fifo!Next]_(Fifo!vars)
<1> DEFINE Goal == TypeOK' /\ [Fifo!Next]_(Fifo!vars)
<1> SUFFICES Goal
  OBVIOUS
<1>0. Len(Contents) = len /\ len \in 0 .. Capacity /\ Capacity \in Nat
  BY ContentsType, CapacityType DEF TypeOK
<1>1. ASSUME NEW block \in Blocks, Write(block) \/ MarkRange(block)
      PROVE  Goal
  <2>1. /\ Len(block) <= Capacity - len
        /\ buf' = Copied(block, Wrap(off_rd + len))
        /\ len' = len + Len(block) /\ off_rd' = off_rd
        /\ moved' = block /\ moreData' = moreData
    BY <1>1 DEF Write, MarkRange, CanMark
  <2>2. /\ buf' \in [Offsets -> Samples] /\ len' \in 0 .. Capacity
        /\ Contents' = Contents \o block
    BY <2>1, StoreAppends
  <2>3. TypeOK'
    BY <2>1, <2>2, BlockType DEF TypeOK
  <2>4. Len(Contents) + Len(block) <= Capacity
    BY <1>0, <2>1, BlockType
  <2>5. Fifo!Put(block)
    BY <2>1, <2>2, <2>4 DEF Fifo!Put
  <2> QED
    BY <2>3, <2>5 DEF Fifo!Next
<1>2. ASSUME NEW n \in 0 .. Capacity, GetRange(n) \/ Read(n)
      PROVE  Goal
  <2>1. Consume(n) /\ buf' = buf /\ moreData' = moreData
    BY <1>2 DEF GetRange, Read
  <2>2. n <= len /\ moved' \in Seq(Samples) /\ moved' = SubSeq(Contents, 1, n)
    BY <1>2, FrontHandedOut
  <2>3. /\ len' \in 0 .. Capacity /\ off_rd' \in Offsets
        /\ Contents' = SubSeq(Contents, n + 1, Len(Contents))
    BY <2>1, <2>2, ConsumeDrops
  <2>4. TypeOK'
    BY <2>1, <2>2, <2>3 DEF TypeOK
  <2>5. Fifo!Take(n)
    BY <1>0, <2>1, <2>2, <2>3 DEF Fifo!Take
  <2> QED
    BY <2>4, <2>5 DEF Fifo!Next
<1>3. ASSUME CloseWrite PROVE Goal
  BY <1>3 DEF CloseWrite, TypeOK, Contents, Fifo!Next, Fifo!Close
<1>4. ASSUME Reset PROVE Goal
  BY <1>4, ResetEmpties DEF Reset, TypeOK, Fifo!Next, Fifo!Clear
<1>5. ASSUME UNCHANGED vars PROVE Goal
  BY <1>5 DEF vars, TypeOK, Contents, Wrap, Fifo!vars
<1> QED
  BY <1>1, <1>2, <1>3, <1>4, <1>5 DEF Next

LEMMA InitImplements == Init => TypeOK /\ Fifo!Init
<1> SUFFICES ASSUME Init PROVE TypeOK /\ Fifo!Init
  OBVIOUS
<1>1. Contents = <<>>
  BY DEF Init, Contents
<1> QED
  BY <1>1, CapacityType, CircleBufferAssumption DEF Init, TypeOK, Offsets, Fifo!Init

\* The memory, the offset and the length keep their types and bounds under any
\* sequence of calls.
THEOREM TypeCorrect == Spec => []TypeOK
  BY InitImplements, StepImplements, PTL DEF Spec

\* The ring is a first-in first-out queue of samples for every capacity and every
\* size of the calls: wrapped copies, refused ranges and addresses handed out
\* included.
THEOREM RingIsFifo == Spec => ImplementsFifo
  BY InitImplements, StepImplements, TypeCorrect, PTL
  DEF Spec, ImplementsFifo, Fifo!Spec
-----------------------------------------------------------------------------
(* Whole units: the offsets that a unit starts at *)

Aligned == {Unit * k : k \in 0 .. Units - 1}

LEMMA UnitBounds == Unit \in 0 .. Capacity /\ Unit \in Nat \ {0} /\ Capacity \in Nat \ {0}
<1>1. Unit * 1 <= Unit * Units
  BY CircleBufferAssumption, ScaleMonotone
<1> QED
  BY <1>1, CircleBufferAssumption, CapacityType DEF Capacity

\* A unit that starts at an aligned offset fits before the end.
LEMMA AlignedFits ==
  ASSUME NEW o \in Aligned
  PROVE  o \in Nat /\ o + Unit <= Capacity
<1>1. PICK k \in 0 .. Units - 1 : o = Unit * k
  BY DEF Aligned
<1>2. Unit * (k + 1) <= Unit * Units
  BY CircleBufferAssumption, ScaleMonotone
<1>3. Unit * (k + 1) = Unit * k + Unit /\ Unit * k \in Nat
  BY CircleBufferAssumption
<1> QED
  BY <1>1, <1>2, <1>3, CircleBufferAssumption, CapacityType DEF Capacity

\* The offset after it is aligned too.
LEMMA NextAligned ==
  ASSUME NEW o \in Aligned
  PROVE  Wrap(o + Unit) \in Aligned
<1>1. PICK k \in 0 .. Units - 1 : o = Unit * k
  BY DEF Aligned
<1>2. o \in Nat /\ o + Unit <= Capacity /\ o + Unit = Unit * (k + 1)
  BY <1>1, AlignedFits, CircleBufferAssumption
<1>3. CASE k + 1 = Units
  <2>1. o + Unit = Capacity
    BY <1>2, <1>3 DEF Capacity
  <2>2. Wrap(o + Unit) = 0
    BY <2>1, CapacityType, WrapSmall
  <2>3. Unit * 0 = 0 /\ 0 \in 0 .. Units - 1
    BY CircleBufferAssumption
  <2> QED
    BY <2>2, <2>3 DEF Aligned
<1>4. CASE k + 1 # Units
  <2>1. k + 1 \in 0 .. Units - 1
    BY <1>4, CircleBufferAssumption
  <2>2. o + Unit \in Aligned
    BY <1>2, <2>1 DEF Aligned
  <2>3. o + Unit + Unit <= Capacity
    BY <2>2, AlignedFits
  <2>4. Wrap(o + Unit) = o + Unit
    BY <1>2, <2>3, UnitBounds, WrapSmall
  <2> QED
    BY <2>2, <2>4
<1> QED
  BY <1>3, <1>4

LEMMA ZeroAligned == 0 \in Aligned
<1>1. Unit * 0 = 0 /\ 0 \in 0 .. Units - 1
  BY CircleBufferAssumption
<1> QED
  BY <1>1 DEF Aligned

EncoderInv == TypeOK /\ off_rd \in Aligned

LEMMA EncoderInductive == EncoderSpec => []EncoderInv
<1>1. Init => EncoderInv
  BY InitImplements, ZeroAligned DEF EncoderInv, Init
<1>2. EncoderInv /\ [EncoderNext]_vars => EncoderInv'
  <2> SUFFICES ASSUME EncoderInv, [EncoderNext]_vars PROVE EncoderInv'
    OBVIOUS
  <2>1. [Next]_vars
    BY UnitBounds DEF EncoderNext, GetPackage, Next
  <2>2. TypeOK'
    BY <2>1, StepImplements DEF EncoderInv
  <2>3. off_rd' = off_rd \/ off_rd' = Wrap(off_rd + Unit)
    BY DEF EncoderNext, GetPackage, GetRange, Consume, Write, vars
  <2> QED
    BY <2>2, <2>3, NextAligned DEF EncoderInv
<1> QED
  BY <1>1, <1>2, PTL DEF EncoderSpec

\* The encoder can always take a package that is there, by address, for every
\* package size and cache factor and whatever blocks the recorder writes.
THEOREM PackageNeverRefusedHolds == EncoderSpec => []PackageNeverRefused
<1>1. EncoderInv => PackageNeverRefused
  BY AlignedFits, UnitBounds
  DEF EncoderInv, TypeOK, Offsets, PackageNeverRefused, CanGet
<1> QED
  BY <1>1, EncoderInductive, PTL

\* The player's ring holds whole frames, from an aligned offset on.
WholeFrames == {Unit * j : j \in 0 .. Units}

PlayerInv == TypeOK /\ off_rd \in Aligned /\ len \in WholeFrames

LEMMA FramesLeft ==
  ASSUME NEW l \in WholeFrames
  PROVE  /\ l = 0 \/ (l >= Unit /\ l - Unit \in WholeFrames)
         /\ Capacity - l >= Unit => l + Unit \in WholeFrames
<1>1. PICK j \in 0 .. Units : l = Unit * j
  BY DEF WholeFrames
<1>2. Unit \in Nat \ {0} /\ Units \in Nat \ {0}
  BY CircleBufferAssumption
<1>3. l = 0 \/ (l >= Unit /\ l - Unit \in WholeFrames)
  <2>1. CASE j = 0
    BY <1>1, <1>2, <2>1
  <2>2. CASE j # 0
    <3>1. Unit * 1 <= Unit * j /\ Unit * (j - 1) = Unit * j - Unit
      BY <1>2, <2>2, ScaleMonotone
    <3>2. j - 1 \in 0 .. Units
      BY <1>2, <2>2
    <3> QED
      BY <1>1, <1>2, <3>1, <3>2 DEF WholeFrames
  <2> QED
    BY <2>1, <2>2
<1>4. ASSUME Capacity - l >= Unit PROVE l + Unit \in WholeFrames
  <2>1. CASE j = Units
    BY <1>1, <1>2, <1>4, <2>1 DEF Capacity
  <2>2. CASE j # Units
    <3>1. j + 1 \in 0 .. Units /\ Unit * (j + 1) = l + Unit
      BY <1>1, <1>2, <2>2
    <3> QED
      BY <3>1 DEF WholeFrames
  <2> QED
    BY <2>1, <2>2
<1> QED
  BY <1>3, <1>4

\* The offset after whole frames is aligned.
LEMMA FreeAligned ==
  ASSUME NEW o \in Aligned, NEW l \in WholeFrames
  PROVE  Wrap(o + l) \in Aligned
<1>1. PICK k \in 0 .. Units - 1 : o = Unit * k
  BY DEF Aligned
<1>2. PICK j \in 0 .. Units : l = Unit * j
  BY DEF WholeFrames
<1>3. Unit \in Nat \ {0} /\ Units \in Nat \ {0} /\ Capacity = Unit * Units
  BY CircleBufferAssumption DEF Capacity
<1>4. o + l = Unit * (k + j)
  BY <1>1, <1>2, <1>3
<1>5. CASE k + j <= Units - 1
  <2>1. o + l \in Aligned
    BY <1>3, <1>4, <1>5 DEF Aligned
  <2>2. o + l \in Nat /\ o + l + Unit <= Capacity
    BY <2>1, AlignedFits
  <2>3. Wrap(o + l) = o + l
    BY <1>3, <2>2, UnitBounds, WrapSmall
  <2> QED
    BY <2>1, <2>3
<1>6. CASE k + j >= Units
  <2> DEFINE m == k + j - Units
  <2>1. m \in 0 .. Units - 1 /\ k + j = Units + m
    BY <1>3, <1>6
  <2>2. Unit * (Units + m) = Capacity + Unit * m
    BY <1>3, <2>1
  <2>3. Unit * m \in Aligned
    BY <2>1 DEF Aligned
  <2>4. o + l = Capacity + Unit * m
    BY <1>4, <2>1, <2>2
  <2> HIDE DEF m
  <2>5. Unit * m \in Nat /\ Unit * m + Unit <= Capacity
    BY <2>3, AlignedFits
  <2>6. Wrap(o + l) = Unit * m
    <3> DEFINE x == Unit * m
    <3>1. x \in Nat /\ x + Unit <= Capacity
      BY <2>5
    <3> HIDE DEF x
    <3>2. x \in 0 .. Capacity - 1
      BY <3>1, UnitBounds
    <3>3. Wrap(Capacity + x) = x
      BY <3>2, WrapTurn
    <3> QED
      BY <2>4, <3>3 DEF x
  <2> QED
    BY <2>3, <2>6
<1> QED
  BY <1>3, <1>5, <1>6

LEMMA PlayerInductive == PlayerSpec => []PlayerInv
<1>1. Init => PlayerInv
  <2>1. Unit * 0 = 0 /\ 0 \in 0 .. Units
    BY CircleBufferAssumption
  <2> QED
    BY <2>1, InitImplements, ZeroAligned DEF PlayerInv, WholeFrames, Init
<1>2. PlayerInv /\ [PlayerNext]_vars => PlayerInv'
  <2> SUFFICES ASSUME PlayerInv, [PlayerNext]_vars PROVE PlayerInv'
    OBVIOUS
  <2>1. [Next]_vars
    BY UnitBounds DEF PlayerNext, FeedFrame, PlayFrame, Next
  <2>2. TypeOK'
    BY <2>1, StepImplements DEF PlayerInv
  <2>3. CASE \E block \in Blocks : FeedFrame(block)
    <3>1. off_rd' = off_rd /\ Capacity - len >= Unit /\ len' = len + Unit
      BY <2>3, CapacityType, UnitBounds
      DEF PlayerInv, TypeOK, FeedFrame, MarkRange, CanMark
    <3> QED
      BY <2>2, <3>1, FramesLeft DEF PlayerInv
  <2>4. CASE PlayFrame
    <3>1. /\ off_rd' = Wrap(off_rd + Unit)
          /\ Unit <= len /\ len' = len - Unit
      BY <2>4 DEF PlayFrame, GetRange, CanGet, Consume
    <3>2. len' \in WholeFrames
      BY <3>1, FramesLeft, UnitBounds DEF PlayerInv
    <3> QED
      BY <2>2, <3>1, <3>2, NextAligned DEF PlayerInv
  <2>5. CASE CloseWrite \/ UNCHANGED vars
    BY <2>2, <2>5 DEF PlayerInv, CloseWrite, vars
  <2> QED
    BY <2>3, <2>4, <2>5 DEF PlayerNext
<1> QED
  BY <1>1, <1>2, PTL DEF PlayerSpec

\* Whatever there is to play is a whole frame in one piece: the branch of
\* HandleOutputBuffer that dumps half of a residue is never taken.
THEOREM NoResidueHolds == PlayerSpec => []NoResidue
<1>1. PlayerInv => NoResidue
  BY FramesLeft, AlignedFits, UnitBounds
  DEF PlayerInv, TypeOK, Offsets, NoResidue, CanGet
<1> QED
  BY <1>1, PlayerInductive, PTL

\* The decoder is never refused a frame's room that is free.
THEOREM FrameNeverRefusedHolds == PlayerSpec => []FrameNeverRefused
<1>1. PlayerInv => FrameNeverRefused
  BY FreeAligned, AlignedFits, UnitBounds
  DEF PlayerInv, TypeOK, FrameNeverRefused, CanMark
<1> QED
  BY <1>1, PlayerInductive, PTL

-----------------------------------------------------------------------------
(* The range coder. *)


-----------------------------------------------------------------------------
(* Numbers *)

LEMMA LeastNumber ==
  ASSUME NEW T \in SUBSET Nat, T # {}
  PROVE  \E x \in T : \A y \in T : x <= y
<1>1. \E x \in T : \A y \in T : ~(<<y, x>> \in OpToRel(<, Nat))
  BY NatLessThanWellFounded, WFMin, Zenon
<1>2. \A x, y \in Nat : <<y, x>> \in OpToRel(<, Nat) <=> y < x
  BY DEF OpToRel
<1>3. \A x, y \in Nat : ~(y < x) => x <= y
  OBVIOUS
<1> QED
  BY <1>1, <1>2, <1>3

\* Induction, over a set of numbers.
LEMMA Induction ==
  ASSUME NEW S, 0 \in S, \A n \in Nat : n \in S => n + 1 \in S
  PROVE  \A n \in Nat : n \in S
<1> SUFFICES ASSUME Nat \ S # {}
             PROVE  FALSE
  OBVIOUS
<1>1. PICK x \in Nat \ S : \A y \in Nat \ S : x <= y
  BY LeastNumber
<1>2. x # 0
  OBVIOUS
<1>3. x - 1 \in Nat /\ ~(x <= x - 1) /\ (x - 1) + 1 = x
  BY <1>1, <1>2
<1>4. x - 1 \in S
  BY <1>1, <1>3
<1> QED
  BY <1>1, <1>3, <1>4

\* And the function that a number and a step define.
Defined(D, a, g) == \E f \in [Nat -> D] : f[0] = a /\ \A n \in Nat : f[n + 1] = g[<<f[n], n>>]

LEMMA Recursion ==
  ASSUME NEW D, NEW a \in D, NEW g \in [D \X Nat -> D]
  PROVE  Defined(D, a, g)
<1> DEFINE Upto(h, n) == h[0] = a /\ \A i \in 0 .. n - 1 : h[i + 1] = g[<<h[i], i>>]
           K == {n \in Nat : \E h \in [Nat -> D] : Upto(h, n)}
<1>1. 0 \in K
  <2>1. Upto([i \in Nat |-> a], 0)
    OBVIOUS
  <2>2. [i \in Nat |-> a] \in [Nat -> D]
    OBVIOUS
  <2> HIDE DEF Upto
  <2> QED
    BY <2>1, <2>2
<1>2. ASSUME NEW n \in Nat, n \in K
      PROVE  n + 1 \in K
  <2>1. PICK h \in [Nat -> D] : Upto(h, n)
    BY <1>2
  <2> DEFINE v == g[<<h[n], n>>]
             k == [h EXCEPT ![n + 1] = v]
  <2>2. v \in D
    OBVIOUS
  <2> HIDE DEF v
  <2>3. k \in [Nat -> D]
    BY <2>2
  <2>4. k[0] = a
    BY <2>1
  <2>5. ASSUME NEW i \in 0 .. n
        PROVE  k[i + 1] = g[<<k[i], i>>]
    <3>1. k[i] = h[i]
      OBVIOUS
    <3>2. CASE i = n
      <4>1. k[i + 1] = v
        BY <3>2
      <4> QED
        BY <3>1, <3>2, <4>1 DEF v
    <3>3. CASE i # n
      <4>1. i \in 0 .. n - 1 /\ k[i + 1] = h[i + 1]
        BY <3>3
      <4> QED
        BY <2>1, <3>1, <4>1
    <3> QED
      BY <3>2, <3>3
  <2>6. Upto(k, n + 1)
    BY <2>4, <2>5
  <2> HIDE DEF Upto, k
  <2> QED
    BY <2>3, <2>6
<1>3. \A n \in Nat : n \in K
  <2> HIDE DEF K
  <2> QED
    BY <1>1, <1>2, Induction
<1> DEFINE H(n) == CHOOSE h \in [Nat -> D] : Upto(h, n)
<1>4. \A n \in Nat : H(n) \in [Nat -> D] /\ Upto(H(n), n)
  <2> HIDE DEF Upto
  <2> QED
    BY <1>3, Zenon
<1> HIDE DEF H
<1>5. ASSUME NEW n \in Nat
      PROVE  H(n)[n] = H(n + 1)[n]
  <2> DEFINE Same == {i \in Nat : i <= n => H(n)[i] = H(n + 1)[i]}
  <2>1. 0 \in Same
    BY <1>4
  <2>2. ASSUME NEW i \in Nat, i \in Same
        PROVE  i + 1 \in Same
    <3>1. CASE i + 1 <= n
      <4>1. i \in 0 .. n - 1 /\ i \in 0 .. (n + 1) - 1 /\ n + 1 \in Nat
        BY <3>1
      <4>2. H(n)[i + 1] = g[<<H(n)[i], i>>] /\ H(n + 1)[i + 1] = g[<<H(n + 1)[i], i>>]
        BY <1>4, <4>1, Zenon
      <4> QED
        BY <2>2, <4>1, <4>2
    <3> QED
      BY <3>1
  <2>3. \A i \in Nat : i \in Same
    <3> HIDE DEF Same
    <3> QED
      BY <2>1, <2>2, Induction
  <2> QED
    BY <2>3
<1> DEFINE f == [n \in Nat |-> H(n)[n]]
<1>6. f \in [Nat -> D]
  BY <1>4
<1>7. f[0] = a
  BY <1>4
<1>8. ASSUME NEW n \in Nat
      PROVE  f[n + 1] = g[<<f[n], n>>]
  <2>1. n + 1 \in Nat /\ n \in 0 .. (n + 1) - 1
    OBVIOUS
  <2>2. H(n + 1)[n + 1] = g[<<H(n + 1)[n], n>>]
    BY <1>4, <2>1, Zenon
  <2> QED
    BY <1>5, <2>1, <2>2
<1> HIDE DEF f
<1> QED
  BY <1>6, <1>7, <1>8 DEF Defined

\* Powers of two.
LEMMA TwoIs ==
  /\ Two[0] = 1
  /\ \A n \in Nat : Two[n] \in Nat \ {0} /\ Two[n + 1] = 2 * Two[n]
<1> DEFINE D == Nat \ {0}
           g == [p \in D \X Nat |-> 2 * p[1]]
<1>1. 1 \in D /\ g \in [D \X Nat -> D]
  OBVIOUS
<1>2. \A x \in D, n \in Nat : g[<<x, n>>] = 2 * x
  OBVIOUS
<1> HIDE DEF g, D
<1>3. PICK f \in [Nat -> D] : f[0] = 1 /\ \A n \in Nat : f[n + 1] = g[<<f[n], n>>]
  <2>1. Defined(D, 1, g)
    BY <1>1, Recursion
  <2> QED
    BY <2>1, Zenon DEF Defined
<1>4. f = [n \in Nat |-> IF n = 0 THEN 1 ELSE 2 * f[n - 1]]
  <2>1. ASSUME NEW n \in Nat
        PROVE  f[n] = IF n = 0 THEN 1 ELSE 2 * f[n - 1]
    <3>1. CASE n = 0
      BY <1>3, <3>1
    <3>2. CASE n # 0
      <4>1. n - 1 \in Nat /\ (n - 1) + 1 = n
        BY <3>2
      <4>2. f[(n - 1) + 1] = g[<<f[n - 1], n - 1>>] /\ f[n - 1] \in D
        BY <1>3, <4>1
      <4> QED
        BY <1>2, <3>2, <4>1, <4>2
    <3> QED
      BY <3>1, <3>2
  <2> QED
    BY <2>1
<1>5. Two = [n \in Nat |-> IF n = 0 THEN 1 ELSE 2 * Two[n - 1]]
  BY <1>4, Zenon DEF Two
<1>6. Two[0] = 1
  BY <1>5
<1>7. \A n \in Nat : Two[n + 1] = 2 * Two[n]
  <2>1. \A n \in Nat : n + 1 \in Nat /\ n + 1 # 0 /\ (n + 1) - 1 = n
    OBVIOUS
  <2> QED
    BY <1>5, <2>1
<1>8. \A n \in Nat : Two[n] \in Nat \ {0}
  <2> DEFINE S == {n \in Nat : Two[n] \in Nat \ {0}}
  <2>1. 0 \in S
    BY <1>6
  <2>2. \A n \in Nat : n \in S => n + 1 \in S
    BY <1>7
  <2>3. \A n \in Nat : n \in S
    <3> HIDE DEF S
    <3> QED
      BY <2>1, <2>2, Induction
  <2> QED
    BY <2>3
<1> QED
  BY <1>6, <1>7, <1>8

LEMMA TwoSum == \A m, n \in Nat : Two[m + n] = Two[m] * Two[n]
<1> SUFFICES ASSUME NEW m \in Nat
             PROVE  \A n \in Nat : Two[m + n] = Two[m] * Two[n]
  OBVIOUS
<1> DEFINE S == {n \in Nat : Two[m + n] = Two[m] * Two[n]}
<1>1. 0 \in S
  BY TwoIs
<1>2. ASSUME NEW n \in Nat, n \in S
      PROVE  n + 1 \in S
  <2>1. m + n \in Nat /\ m + (n + 1) = (m + n) + 1
    OBVIOUS
  <2>2. Two[m + (n + 1)] = 2 * Two[m + n] /\ Two[n + 1] = 2 * Two[n]
    BY <2>1, TwoIs
  <2>3. Two[m] \in Nat /\ Two[n] \in Nat
    BY TwoIs
  <2>4. \A x, y \in Nat : 2 * (x * y) = x * (2 * y)
    BY Z3
  <2> QED
    BY <1>2, <2>2, <2>3, <2>4
<1>3. \A n \in Nat : n \in S
  <2> HIDE DEF S
  <2> QED
    BY <1>1, <1>2, Induction
<1> QED
  BY <1>3

LEMMA TwoMonotone == \A m, n \in Nat : m <= n <=> Two[m] <= Two[n]
<1>1. ASSUME NEW m \in Nat, NEW n \in Nat, m <= n
      PROVE  Two[m] <= Two[n]
  <2>1. n - m \in Nat /\ n = m + (n - m)
    BY <1>1
  <2>2. Two[n] = Two[m] * Two[n - m]
    BY <2>1, TwoSum
  <2>3. Two[m] \in Nat /\ Two[n - m] \in Nat \ {0}
    BY <2>1, TwoIs
  <2>4. \A x \in Nat, y \in Nat \ {0} : x <= x * y
    BY Z3
  <2> QED
    BY <2>2, <2>3, <2>4
<1>2. ASSUME NEW m \in Nat, NEW n \in Nat, n < m
      PROVE  Two[n] < Two[m]
  <2>1. n + 1 \in Nat /\ n + 1 <= m
    BY <1>2
  <2>2. Two[n + 1] <= Two[m]
    BY <1>1, <2>1
  <2> QED
    BY <2>2, TwoIs
<1>3. \A n \in Nat : Two[n] \in Nat
  BY TwoIs
<1> QED
  BY <1>1, <1>2, <1>3

\* Powers of a byte.
LEMMA BytesPositive == \A n \in Nat : n * ByteBits \in Nat /\ Bytes(n) \in Nat /\ Bytes(n) > 0
<1>1. \A n \in Nat : n * ByteBits \in Nat
  BY CoderAssumption, Z3
<1>2. \A n \in Nat : Bytes(n) \in Nat \ {0}
  BY <1>1, TwoIs DEF Bytes
<1>3. \A x \in Nat \ {0} : x \in Nat /\ x > 0
  OBVIOUS
<1> QED
  BY <1>1, <1>2, <1>3

LEMMA BytesSum == \A m, n \in Nat : Bytes(m + n) = Bytes(m) * Bytes(n)
<1> SUFFICES ASSUME NEW m \in Nat, NEW n \in Nat
             PROVE  Bytes(m + n) = Bytes(m) * Bytes(n)
  OBVIOUS
<1>1. (m + n) * ByteBits = m * ByteBits + n * ByteBits
  BY CoderAssumption, Z3
<1> QED
  BY <1>1, BytesPositive, TwoSum DEF Bytes

LEMMA ByteIs == Bytes(0) = 1 /\ Bytes(1) = Byte /\ Byte \in Nat /\ Byte >= 4
<1>1. Bytes(0) = 1
  BY CoderAssumption, TwoIs DEF Bytes
<1>2. Two[2] = 4
  <2>1. Two[0 + 1] = 2 * Two[0] /\ Two[1 + 1] = 2 * Two[1]
    BY TwoIs
  <2> QED
    BY <2>1, TwoIs
<1>3. Byte \in Nat
  BY BytesPositive DEF Byte
<1>4. Byte >= 4
  <2>1. 2 \in Nat /\ ByteBits \in Nat /\ 2 <= ByteBits /\ 1 * ByteBits = ByteBits
    BY CoderAssumption
  <2> QED
    BY <1>2, <2>1, TwoMonotone DEF Byte, Bytes
<1> QED
  BY <1>1, <1>3, <1>4 DEF Byte

LEMMA FourBytes ==
  /\ Bytes(2) = Byte * Byte /\ Bytes(3) = Byte * Bytes(2) /\ Bytes(4) = Byte * Bytes(3)
  /\ Bytes(4) = Bytes(2) * Bytes(2)
  /\ \A n \in 0 .. 4 : Bytes(4) = Bytes(n) * Bytes(4 - n)
  /\ Byte < Bytes(2) /\ Bytes(2) < Bytes(3) /\ Bytes(3) < Bytes(4)
  /\ RangeTop = Bytes(2) - 1 /\ RangeTop \in Nat \ {0}
<1>1. Bytes(1 + 1) = Bytes(1) * Bytes(1) /\ Bytes(1 + 2) = Bytes(1) * Bytes(2)
      /\ Bytes(1 + 3) = Bytes(1) * Bytes(3) /\ Bytes(2 + 2) = Bytes(2) * Bytes(2)
  BY BytesSum
<1>2. \A n \in 0 .. 4 : n \in Nat /\ 4 - n \in Nat /\ n + (4 - n) = 4
  OBVIOUS
<1>3. \A n \in 0 .. 4 : Bytes(4) = Bytes(n) * Bytes(4 - n)
  BY <1>2, BytesSum
<1>4. Bytes(2) = Byte * Byte /\ Bytes(3) = Byte * Bytes(2) /\ Bytes(4) = Byte * Bytes(3)
      /\ Bytes(4) = Bytes(2) * Bytes(2)
  BY <1>1, ByteIs
<1>5. \A n \in Nat : Bytes(n) < Byte * Bytes(n)
  <2>1. \A x, y \in Nat : x > 0 /\ y >= 4 => x < y * x
    BY Z3
  <2> QED
    BY <2>1, BytesPositive, ByteIs
<1>6. Byte < Bytes(2) /\ Bytes(2) < Bytes(3) /\ Bytes(3) < Bytes(4)
  <2>1. Bytes(1) < Byte * Bytes(1) /\ Bytes(2) < Byte * Bytes(2) /\ Bytes(3) < Byte * Bytes(3)
    BY <1>5
  <2> QED
    BY <1>4, <2>1, ByteIs
<1>7. RangeTop = Bytes(2) - 1 /\ RangeTop \in Nat \ {0}
  <2>1. Bytes(2) \in Nat
    BY BytesPositive
  <2> QED
    BY <1>6, <2>1, ByteIs DEF RangeTop
<1> QED
  BY <1>3, <1>4, <1>6, <1>7

-----------------------------------------------------------------------------
(* Streams, and the numbers their bytes make *)

Streams == [Nat -> 0 .. Byte - 1]

\* The number of the first n bytes of s, the first the most significant.
Value(s) == CHOOSE v \in [Nat -> Nat] : v[0] = 0 /\ \A n \in Nat : v[n + 1] = v[n] * Byte + s[n + 1]

LEMMA ValueIs ==
  ASSUME NEW s \in Streams
  PROVE  /\ Value(s) \in [Nat -> Nat] /\ Value(s)[0] = 0
         /\ \A n \in Nat : Value(s)[n + 1] = Value(s)[n] * Byte + s[n + 1]
<1> DEFINE g == [p \in Nat \X Nat |-> p[1] * Byte + s[p[2] + 1]]
<1>1. \A n \in Nat : s[n + 1] \in Nat
  <2>1. \A n \in Nat : n + 1 \in Nat
    OBVIOUS
  <2>2. \A n \in Nat : s[n] \in 0 .. Byte - 1
    BY DEF Streams
  <2>3. \A x \in 0 .. Byte - 1 : x \in Nat
    BY ByteIs
  <2> QED
    BY <2>1, <2>2, <2>3
<1>2. \A x, n \in Nat : g[<<x, n>>] = x * Byte + s[n + 1]
  OBVIOUS
<1>3. \A x, n \in Nat : x * Byte + s[n + 1] \in Nat
  <2>1. \A x \in Nat : x * Byte \in Nat
    <3>1. \A x, y \in Nat : x * y \in Nat
      BY Z3
    <3> QED
      BY <3>1, ByteIs
  <2> QED
    BY <1>1, <2>1
<1>4. g \in [Nat \X Nat -> Nat]
  BY <1>3
<1> HIDE DEF g
<1>5. PICK v \in [Nat -> Nat] : v[0] = 0 /\ \A n \in Nat : v[n + 1] = g[<<v[n], n>>]
  <2>1. Defined(Nat, 0, g)
    BY <1>4, Recursion
  <2> QED
    BY <2>1, Zenon DEF Defined
<1>6. \A n \in Nat : v[n + 1] = v[n] * Byte + s[n + 1]
  BY <1>2, <1>5
<1> QED
  BY <1>5, <1>6, Zenon DEF Value

\* The same bytes make the same number.
LEMMA ValueOfPrefix ==
  ASSUME NEW s \in Streams, NEW t \in Streams, NEW n \in Nat, \A i \in 1 .. n : s[i] = t[i]
  PROVE  Value(s)[n] = Value(t)[n]
<1> DEFINE S == {k \in Nat : k <= n => Value(s)[k] = Value(t)[k]}
<1>1. 0 \in S
  BY ValueIs
<1>2. ASSUME NEW k \in Nat, k \in S
      PROVE  k + 1 \in S
  <2> SUFFICES ASSUME k + 1 <= n
               PROVE  Value(s)[k + 1] = Value(t)[k + 1]
    OBVIOUS
  <2>1. s[k + 1] = t[k + 1] /\ Value(s)[k] = Value(t)[k]
    BY <1>2
  <2>2. Value(s)[k + 1] = Value(s)[k] * Byte + s[k + 1]
    BY ValueIs
  <2>3. Value(t)[k + 1] = Value(t)[k] * Byte + t[k + 1]
    BY ValueIs
  <2> QED
    BY <2>1, <2>2, <2>3
<1>3. \A k \in Nat : k \in S
  <2> HIDE DEF S
  <2> QED
    BY <1>1, <1>2, Induction
<1> QED
  BY <1>3

\* Further bytes say more of the same number.
LEMMA ValueFurther ==
  ASSUME NEW s \in Streams, NEW n \in Nat, NEW k \in Nat
  PROVE  /\ Value(s)[n] * Bytes(k) <= Value(s)[n + k]
         /\ Value(s)[n + k] < Value(s)[n] * Bytes(k) + Bytes(k)
<1> DEFINE v == Value(s)
           S == {j \in Nat : v[n] * Bytes(j) <= v[n + j] /\ v[n + j] < v[n] * Bytes(j) + Bytes(j)}
<1>1. v \in [Nat -> Nat]
  BY ValueIs
<1>2. 0 \in S
  <2>1. v[n] \in Nat /\ n + 0 = n
    BY <1>1
  <2> HIDE DEF v
  <2>2. v[n] * Bytes(0) = v[n] /\ Bytes(0) = 1
    BY <2>1, ByteIs
  <2> QED
    BY <2>1, <2>2
<1>3. ASSUME NEW j \in Nat, j \in S
      PROVE  j + 1 \in S
  <2>1. n + j \in Nat /\ n + (j + 1) = (n + j) + 1
    OBVIOUS
  <2>2. v[n + (j + 1)] = v[n + j] * Byte + s[n + j + 1]
    BY <2>1, ValueIs
  <2>3. s[n + j + 1] \in 0 .. Byte - 1
    BY <2>1 DEF Streams
  <2>9. Byte \in Nat /\ \A x \in 0 .. Byte - 1 : x \in Nat /\ x < Byte
    BY ByteIs
  <2>4. Bytes(j + 1) = Bytes(j) * Byte
    BY BytesSum, ByteIs
  <2>5. \A a, x, p, b, c \in Nat :
           a * p <= x /\ x + 1 <= a * p + p /\ c < b
             => a * (p * b) <= x * b + c /\ x * b + c < a * (p * b) + p * b
    <3> SUFFICES ASSUME NEW a \in Nat, NEW x \in Nat, NEW p \in Nat, NEW b \in Nat, NEW c \in Nat,
                        a * p <= x, x + 1 <= a * p + p, c < b
                 PROVE  a * (p * b) <= x * b + c /\ x * b + c < a * (p * b) + p * b
      OBVIOUS
    <3>1. (a * p) * b <= x * b /\ (x + 1) * b <= (a * p + p) * b
      <4>1. \A y, z \in Nat : y <= z => y * b <= z * b
        BY Z3
      <4>2. a * p \in Nat
        BY Z3
      <4> QED
        BY <4>1, <4>2
    <3>2. (a * p) * b = a * (p * b) /\ (a * p + p) * b = a * (p * b) + p * b /\ (x + 1) * b = x * b + b
      BY Z3
    <3>3. x * b \in Nat /\ a * (p * b) \in Nat /\ p * b \in Nat
      BY Z3
    <3> HIDE DEF v
    <3> QED
      BY <3>1, <3>2, <3>3
  <2>6. v[n] \in Nat /\ v[n + j] \in Nat /\ Bytes(j) \in Nat /\ Byte \in Nat /\ s[n + j + 1] \in Nat
    BY <1>1, <2>1, <2>3, <2>9, BytesPositive
  <2>7. v[n] * Bytes(j) <= v[n + j] /\ v[n + j] + 1 <= v[n] * Bytes(j) + Bytes(j)
    <3>1. v[n] * Bytes(j) \in Nat
      <4>1. \A x, y \in Nat : x * y \in Nat
        BY Z3
      <4> QED
        BY <2>6, <4>1
    <3> QED
      BY <1>3, <2>6, <3>1
  <2>8. s[n + j + 1] < Byte
    BY <2>3, <2>9
  <2> HIDE DEF v
  <2> QED
    BY <2>2, <2>4, <2>5, <2>6, <2>7, <2>8
<1>4. \A j \in Nat : j \in S
  <2> HIDE DEF S
  <2> QED
    BY <1>2, <1>3, Induction
<1> QED
  BY <1>4

-----------------------------------------------------------------------------
(* Arithmetic *)

LEMMA Products ==
  /\ \A x, y \in Nat : x * y \in Nat /\ x * y = y * x
  /\ \A x, y, z \in Nat : x <= y => x * z <= y * z /\ z * x <= z * y
  /\ \A x, y, z \in Nat : x * (y + z) = x * y + x * z /\ (y + z) * x = y * x + z * x
<1>1. \A x, y \in Nat : x * y \in Nat /\ x * y = y * x
  BY Z3
<1>2. \A x, y, z \in Nat : x <= y => x * z <= y * z
  BY Z3
<1>3. \A x, y, z \in Nat : x <= y => z * x <= z * y
  BY Z3
<1>4. \A x, y, z \in Nat : x * (y + z) = x * y + x * z
  BY Z3
<1>5. \A x, y, z \in Nat : (y + z) * x = y * x + z * x
  BY Z3
<1> QED
  BY <1>1, <1>2, <1>3, <1>4, <1>5

LEMMA Quotient ==
  ASSUME NEW a \in Nat, NEW b \in Nat, b > 0
  PROVE  /\ a \div b \in Nat /\ a % b \in Nat /\ a % b < b
         /\ a = b * (a \div b) + (a % b)
<1>1. a \div b \in Int /\ a % b \in 0 .. b - 1 /\ a = b * (a \div b) + (a % b)
  OBVIOUS
<1> DEFINE q == a \div b
           r == a % b
<1>2. q \in Int /\ r \in 0 .. b - 1 /\ a = b * q + r
  BY <1>1
<1> HIDE DEF q, r
<1>3. q >= 0
  <2>1. CASE q <= -1
    <3>1. \A x \in Int, y \in Nat : x <= -1 => y * x <= -y
      BY Z3
    <3>2. b * q <= -b /\ b * q \in Int
      BY <1>2, <2>1, <3>1
    <3> QED
      BY <1>2, <3>2
  <2> QED
    BY <1>2, <2>1
<1> QED
  BY <1>2, <1>3 DEF q, r

LEMMA QuotientIs ==
  ASSUME NEW a \in Nat, NEW b \in Nat, b > 0, NEW q \in Nat, NEW r \in Nat, a = b * q + r, r < b
  PROVE  a \div b = q /\ a % b = r
<1> DEFINE d == a \div b
           m == a % b
<1>1. d \in Nat /\ m \in Nat /\ m < b /\ a = b * d + m
  BY Quotient
<1> HIDE DEF d, m
<1>2. b * d \in Nat /\ b * q \in Nat
  BY <1>1, Products
<1>3. ASSUME d + 1 <= q
      PROVE  FALSE
  <2>1. b * (d + 1) <= b * q
    BY <1>1, <1>3, Products
  <2>2. b * (d + 1) = b * d + b
    BY <1>1, Z3
  <2> QED
    BY <1>1, <1>2, <2>1, <2>2
<1>4. ASSUME q + 1 <= d
      PROVE  FALSE
  <2>1. b * (q + 1) <= b * d
    BY <1>1, <1>4, Products
  <2>2. b * (q + 1) = b * q + b
    BY Z3
  <2> QED
    BY <1>1, <1>2, <2>1, <2>2
<1>5. d = q
  BY <1>1, <1>3, <1>4
<1>6. m = r
  BY <1>1, <1>2, <1>5
<1> QED
  BY <1>5, <1>6 DEF d, m

LEMMA QuotientBelow ==
  ASSUME NEW a \in Nat, NEW b \in Nat, b > 0, NEW c \in Nat
  PROVE  /\ a < b * c => a \div b < c
         /\ b * c <= a => c <= a \div b
<1> DEFINE d == a \div b
           m == a % b
<1>1. d \in Nat /\ m \in Nat /\ m < b /\ a = b * d + m
  BY Quotient
<1> HIDE DEF d, m
<1>2. b * d \in Nat /\ b * c \in Nat
  BY <1>1, Products
<1>3. c <= d => b * c <= b * d
  BY <1>1, Products
<1>4. d + 1 <= c => b * d + b <= b * c
  <2>1. b * (d + 1) = b * d + b
    BY <1>1, Z3
  <2>2. d + 1 <= c => b * (d + 1) <= b * c
    BY <1>1, Products
  <2> QED
    BY <2>1, <2>2
<1>5. (a < b * c => d < c) /\ (b * c <= a => c <= d)
  BY <1>1, <1>2, <1>3, <1>4
<1> QED
  BY <1>5 DEF d

-----------------------------------------------------------------------------
(* The carry *)

ByteValues == 0 .. Byte - 1
ByteSeqs   == Seq(ByteValues)

LEMMA ByteSeqIs ==
  /\ \A b \in ByteSeqs : /\ Len(b) \in Nat /\ DOMAIN b = 1 .. Len(b)
                         /\ \A i \in 1 .. Len(b) : b[i] \in 0 .. Byte - 1 /\ b[i] \in Nat
  /\ \A n \in Nat : \A b \in [1 .. n -> 0 .. Byte - 1] : b \in ByteSeqs /\ Len(b) = n
<1>1. ASSUME NEW b \in ByteSeqs
      PROVE  Len(b) \in Nat /\ DOMAIN b = 1 .. Len(b) /\ \A i \in 1 .. Len(b) : b[i] \in ByteValues
  BY DEF ByteSeqs
<1>2. \A x \in ByteValues : x \in 0 .. Byte - 1 /\ x \in Nat
  BY ByteIs DEF ByteValues
<1>3. ASSUME NEW n \in Nat, NEW b \in [1 .. n -> ByteValues]
      PROVE  b \in ByteSeqs /\ Len(b) = n
  BY DEF ByteSeqs
<1> QED
  BY <1>1, <1>2, <1>3, Zenon DEF ByteValues

Padded(b) == [i \in Nat |-> IF i \in 1 .. Len(b) THEN b[i] ELSE 0]

Number(b) == Value(Padded(b))[Len(b)]

LEMMA PaddedIs ==
  ASSUME NEW b \in ByteSeqs
  PROVE  Padded(b) \in Streams /\ Len(b) \in Nat /\ Number(b) \in Nat
<1>1. Len(b) \in Nat /\ \A i \in 1 .. Len(b) : b[i] \in 0 .. Byte - 1
  BY ByteSeqIs
<1>2. 0 \in 0 .. Byte - 1
  BY ByteIs
<1>3. Padded(b) \in Streams
  BY <1>1, <1>2 DEF Padded, Streams
<1> QED
  BY <1>1, <1>3, ValueIs DEF Number

\* A number that a carry fits in has a byte that is not full.
LEMMA SomeByteNotFull ==
  ASSUME NEW s \in Streams, NEW n \in Nat, Value(s)[n] + 1 < Bytes(n)
  PROVE  \E i \in 1 .. n : /\ s[i] < Byte - 1
                           /\ \A j \in i + 1 .. n : s[j] = Byte - 1
<1> DEFINE T == {k \in Nat : k < n /\ s[n - k] < Byte - 1}
<1>1. T # {}
  <2> SUFFICES ASSUME T = {}
               PROVE  FALSE
    OBVIOUS
  <2>1. ASSUME NEW i \in 1 .. n
        PROVE  s[i] = Byte - 1
    <3>1. n - i \in Nat /\ n - i < n /\ n - (n - i) = i
      OBVIOUS
    <3>2. ~(s[i] < Byte - 1)
      BY <3>1
    <3>3. s[i] \in 0 .. Byte - 1
      BY DEF Streams
    <3> QED
      BY <3>2, <3>3, ByteIs
  <2> DEFINE S == {k \in Nat : k <= n => Value(s)[k] = Bytes(k) - 1}
  <2>2. 0 \in S
    BY ValueIs, ByteIs
  <2>3. ASSUME NEW k \in Nat, k \in S
        PROVE  k + 1 \in S
    <3> SUFFICES ASSUME k + 1 <= n
                 PROVE  Value(s)[k + 1] = Bytes(k + 1) - 1
      OBVIOUS
    <3>1. Value(s)[k + 1] = Value(s)[k] * Byte + (Byte - 1)
      BY <2>1, ValueIs
    <3>2. Value(s)[k] = Bytes(k) - 1 /\ Bytes(k) \in Nat
      BY <2>3, BytesPositive
    <3>3. Bytes(k + 1) = Bytes(k) * Byte
      BY BytesSum, ByteIs
    <3>4. \A x, y \in Nat : (x - 1) * y = x * y - y
      BY Z3
    <3>5. Bytes(k) * Byte \in Nat
      BY <3>2, ByteIs, Products
    <3> QED
      BY <3>1, <3>2, <3>3, <3>4, <3>5, ByteIs
  <2>4. \A k \in Nat : k \in S
    <3> HIDE DEF S
    <3> QED
      BY <2>2, <2>3, Induction
  <2>5. Value(s)[n] = Bytes(n) - 1 /\ Bytes(n) \in Nat
    BY <2>4, BytesPositive
  <2> QED
    BY <2>5
<1>2. PICK k \in T : \A l \in T : k <= l
  BY <1>1, LeastNumber
<1>3. n - k \in 1 .. n /\ s[n - k] < Byte - 1
  BY <1>2
<1>4. ASSUME NEW j \in (n - k) + 1 .. n
      PROVE  s[j] = Byte - 1
  <2>1. n - j \in Nat /\ n - j < k /\ n - j < n /\ n - (n - j) = j /\ j \in Nat
    BY <1>2
  <2>2. n - j \notin T
    BY <1>2, <2>1
  <2>3. ~(s[j] < Byte - 1)
    BY <2>1, <2>2
  <2>4. s[j] \in 0 .. Byte - 1
    BY <2>1 DEF Streams
  <2> QED
    BY <2>3, <2>4, ByteIs
<1> QED
  BY <1>3, <1>4

\* The carry adds one.
LEMMA CarryAdds ==
  ASSUME NEW b \in ByteSeqs, Number(b) + 1 < Bytes(Len(b))
  PROVE  /\ CarryInto(b) \in ByteSeqs /\ Len(CarryInto(b)) = Len(b)
         /\ Number(CarryInto(b)) = Number(b) + 1
<1> DEFINE n == Len(b)
           s == Padded(b)
           Stop(i) == b[i] < Byte - 1 /\ \A j \in i + 1 .. Len(b) : b[j] = Byte - 1
           stop == CHOOSE i \in DOMAIN b : Stop(i)
           c == CarryInto(b)
           t == Padded(c)
<1>1. n \in Nat /\ DOMAIN b = 1 .. n /\ \A i \in 1 .. n : b[i] \in 0 .. Byte - 1
  BY ByteSeqIs
<1>2. s \in Streams /\ \A i \in 1 .. n : s[i] = b[i]
  BY <1>1, PaddedIs DEF Padded
<1>3. PICK i \in 1 .. n : s[i] < Byte - 1 /\ \A j \in i + 1 .. n : s[j] = Byte - 1
  BY <1>1, <1>2, SomeByteNotFull DEF Number
<1>4. Stop(i)
  BY <1>1, <1>2, <1>3
<1>5. stop \in 1 .. n /\ Stop(stop)
  <2> HIDE DEF Stop
  <2> QED
    BY <1>1, <1>4, Zenon
<1>6. c = [k \in 1 .. n |-> IF k < stop THEN b[k] ELSE IF k = stop THEN b[k] + 1 ELSE 0]
  BY <1>1, Zenon DEF CarryInto
<1> HIDE DEF stop, c
<1>7. c \in ByteSeqs /\ Len(c) = n
  <2>1. ASSUME NEW k \in 1 .. n
        PROVE  c[k] \in 0 .. Byte - 1
    BY <1>1, <1>5, <1>6, ByteIs
  <2>2. c \in [1 .. n -> 0 .. Byte - 1]
    BY <1>6, <2>1
  <2> QED
    BY <1>1, <2>2, ByteSeqIs
<1>8. t \in Streams /\ \A k \in 1 .. n : t[k] = c[k]
  BY <1>1, <1>7, PaddedIs DEF Padded
<1> DEFINE S == {k \in Nat : k <= n => Value(t)[k] = IF k < stop THEN Value(s)[k] ELSE Value(s)[k] + 1}
<1> HIDE DEF s, t
<1>9. 0 \in S
  <2>1. Value(t)[0] = 0 /\ Value(s)[0] = 0
    BY <1>2, <1>8, ValueIs
  <2>2. 0 < stop
    BY <1>1, <1>5
  <2> QED
    BY <2>1, <2>2
<1>10. ASSUME NEW k \in Nat, k \in S
       PROVE  k + 1 \in S
  <2> SUFFICES ASSUME k + 1 <= n
               PROVE  Value(t)[k + 1] = IF k + 1 < stop THEN Value(s)[k + 1] ELSE Value(s)[k + 1] + 1
    OBVIOUS
  <2>1. Value(s)[k + 1] = Value(s)[k] * Byte + s[k + 1] /\ Value(s)[k] \in Nat
    BY <1>2, ValueIs
  <2>2. Value(t)[k + 1] = Value(t)[k] * Byte + t[k + 1]
    BY <1>8, ValueIs
  <2>3. k + 1 \in 1 .. n
    BY <1>1
  <2>4. s[k + 1] = b[k + 1] /\ t[k + 1] = c[k + 1]
    BY <1>2, <1>8, <2>3
  <2>5. Value(t)[k] = IF k < stop THEN Value(s)[k] ELSE Value(s)[k] + 1
    BY <1>1, <1>10
  <2>6. Value(s)[k] * Byte \in Nat /\ b[k + 1] \in Nat
    <3>1. \A x \in 0 .. Byte - 1 : x \in Nat
      BY ByteIs
    <3> QED
      BY <1>1, <2>1, <2>3, <3>1, ByteIs, Products
  <2>7. CASE k + 1 < stop
    <3>1. k < stop /\ c[k + 1] = b[k + 1]
      BY <1>5, <1>6, <2>3, <2>7
    <3> QED
      BY <2>1, <2>2, <2>4, <2>5, <2>7, <3>1
  <2>8. CASE k + 1 = stop
    <3>1. k < stop /\ ~(k + 1 < stop) /\ c[k + 1] = b[k + 1] + 1
      BY <1>5, <1>6, <2>3, <2>8
    <3> QED
      BY <2>1, <2>2, <2>4, <2>5, <2>6, <3>1
  <2>9. CASE k + 1 > stop
    <3>1. ~(k < stop) /\ ~(k + 1 < stop) /\ c[k + 1] = 0
      BY <1>5, <1>6, <2>3, <2>9
    <3>2. b[k + 1] = Byte - 1
      BY <1>5, <2>3, <2>9
    <3>3. (Value(s)[k] + 1) * Byte = Value(s)[k] * Byte + Byte
      <4>1. \A x, y \in Nat : (x + 1) * y = x * y + y
        BY Z3
      <4> QED
        BY <2>1, <4>1, ByteIs
    <3>4. Value(t)[k] = Value(s)[k] + 1
      BY <2>5, <3>1
    <3>5. Value(t)[k + 1] = Value(s)[k] * Byte + Byte
      BY <2>2, <2>4, <2>6, <3>1, <3>3, <3>4, ByteIs
    <3>6. Value(s)[k + 1] = Value(s)[k] * Byte + (Byte - 1)
      BY <2>1, <2>4, <3>2
    <3>7. Value(t)[k + 1] = Value(s)[k + 1] + 1
      BY <2>6, <3>5, <3>6, ByteIs
    <3> QED
      BY <3>1, <3>7
  <2>10. k + 1 < stop \/ k + 1 = stop \/ k + 1 > stop
    BY <1>1, <1>5
  <2> QED
    BY <2>7, <2>8, <2>9, <2>10, Zenon
<1>11. \A k \in Nat : k \in S
  <2> HIDE DEF S
  <2> QED
    BY <1>9, <1>10, Induction
<1>12. Value(t)[n] = Value(s)[n] + 1
  BY <1>1, <1>5, <1>11
<1> QED
  BY <1>7, <1>12 DEF c, s, t, Number

LEMMA NumberOfMore ==
  ASSUME NEW b \in ByteSeqs, NEW x \in 0 .. Byte - 1
  PROVE  /\ Append(b, x) \in ByteSeqs /\ Len(Append(b, x)) = Len(b) + 1
         /\ Number(Append(b, x)) = Number(b) * Byte + x
<1> DEFINE n == Len(b)
           c == Append(b, x)
<1>1. n \in Nat /\ c \in ByteSeqs /\ Len(c) = n + 1 /\ c[n + 1] = x /\ \A i \in 1 .. n : c[i] = b[i]
  <2>1. x \in ByteValues
    BY DEF ByteValues
  <2> QED
    BY <2>1 DEF ByteSeqs
<1>2. Padded(b) \in Streams /\ Padded(c) \in Streams
  BY <1>1, PaddedIs
<1>3. (\A i \in 1 .. n : Padded(b)[i] = Padded(c)[i]) /\ Padded(c)[n + 1] = x
  BY <1>1 DEF Padded
<1> HIDE DEF n, c
<1>4. Value(Padded(b))[n] = Value(Padded(c))[n]
  BY <1>1, <1>2, <1>3, ValueOfPrefix
<1>5. Value(Padded(c))[n + 1] = Value(Padded(c))[n] * Byte + Padded(c)[n + 1]
  BY <1>1, <1>2, ValueIs
<1> QED
  BY <1>1, <1>3, <1>4, <1>5 DEF Number, n, c

-----------------------------------------------------------------------------
(* One symbol *)

\* A table rises from 0 to RangeTop, and a symbol is one of its intervals.
IsTable(cdf) ==
  /\ cdf \in Seq(Nat) /\ Len(cdf) >= 2
  /\ cdf[1] = 0 /\ cdf[Len(cdf)] = RangeTop
  /\ \A i, j \in 1 .. Len(cdf) : i < j => cdf[i] < cdf[j]

LEMMA IntervalOf ==
  ASSUME NEW cdf, IsTable(cdf), NEW data \in 0 .. Len(cdf) - 2
  PROVE  /\ cdf[data + 1] \in Nat /\ cdf[data + 2] \in Nat
         /\ cdf[data + 1] < cdf[data + 2] /\ cdf[data + 2] <= RangeTop
<1>1. Len(cdf) \in Nat /\ \A i \in 1 .. Len(cdf) : cdf[i] \in Nat
  BY DEF IsTable
<1>2. data + 1 \in 1 .. Len(cdf) /\ data + 2 \in 1 .. Len(cdf) /\ data + 1 < data + 2
  BY <1>1
<1>3. data + 2 < Len(cdf) \/ data + 2 = Len(cdf)
  BY <1>1, <1>2
<1>4. Len(cdf) \in 1 .. Len(cdf)
  BY <1>1, <1>2
<1>5. cdf[data + 2] < cdf[Len(cdf)] \/ cdf[data + 2] = cdf[Len(cdf)]
  BY <1>2, <1>3, <1>4 DEF IsTable
<1>6. cdf[Len(cdf)] = RangeTop /\ RangeTop \in Nat
  BY FourBytes DEF IsTable
<1>7. cdf[data + 1] < cdf[data + 2]
  BY <1>2 DEF IsTable
<1>8. cdf[data + 1] \in Nat /\ cdf[data + 2] \in Nat
  BY <1>1, <1>2
<1> QED
  BY <1>5, <1>6, <1>7, <1>8

\* What becomes of the range: it never falls below a byte, and the bytes
\* that are shifted out are no wider than what is left of it.
LEMMA NarrowedIs ==
  ASSUME NEW range \in Nat, Byte <= range, range <= RangeTop,
         NEW d \in Nat, 1 <= d, d <= RangeTop
  PROVE  LET q == range * d
             n == Widened(q)
             r == Narrowed(q)
         IN  /\ q \in Nat /\ n \in 0 .. 2 /\ (n > 0 => q < Bytes(4 - n))
             /\ r \in Nat /\ Byte <= r /\ r <= RangeTop
             /\ r * RangeTop <= q * Bytes(n)
<1> DEFINE q == range * d
           n == Widened(q)
           r == Narrowed(q)
<1>1. q \in Nat /\ range <= q /\ q < Bytes(4)
  <2>1. range * 1 <= range * d /\ range * d <= RangeTop * d /\ RangeTop * d <= RangeTop * RangeTop
    BY FourBytes, Products
  <2>2. RangeTop * RangeTop < (RangeTop + 1) * (RangeTop + 1)
    <3>1. \A x \in Nat : x * x < (x + 1) * (x + 1)
      BY Z3
    <3> QED
      BY <3>1, FourBytes
  <2>3. RangeTop + 1 = Bytes(2) /\ Bytes(4) = Bytes(2) * Bytes(2)
    <3>1. Bytes(2) \in Nat
      BY BytesPositive
    <3> QED
      BY <3>1, FourBytes
  <2>4. range * d \in Nat /\ RangeTop * d \in Nat /\ RangeTop * RangeTop \in Nat /\ Bytes(4) \in Nat
    BY FourBytes, Products, BytesPositive
  <2>5. range * 1 = range
    OBVIOUS
  <2> QED
    BY <2>1, <2>2, <2>3, <2>4, <2>5
<1> HIDE DEF q
<1>2. /\ Bytes(1) = Byte /\ Bytes(0) = 1
      /\ Bytes(2) = Byte * Byte /\ Bytes(3) = Bytes(2) * Byte /\ Bytes(3) = Byte * Bytes(2) /\ Bytes(4) = Bytes(2) * Bytes(2)
      /\ Byte \in Nat /\ Byte > 0 /\ Bytes(2) \in Nat /\ Bytes(2) > 0 /\ Bytes(3) \in Nat /\ Bytes(4) \in Nat
      /\ RangeTop = Bytes(2) - 1 /\ RangeTop \in Nat
  <2>1. Bytes(2) \in Nat /\ Bytes(2) > 0 /\ Bytes(3) \in Nat /\ Bytes(4) \in Nat
    BY BytesPositive
  <2>2. Byte * Bytes(2) = Bytes(2) * Byte
    BY <2>1, ByteIs, Products
  <2> QED
    BY <2>1, <2>2, ByteIs, FourBytes
<1>3. CASE q >= Bytes(3)
  <2>1. n = 0 /\ r = q \div Bytes(2)
    BY <1>3 DEF Widened, Narrowed
  <2>2. Byte <= q \div Bytes(2) /\ q \div Bytes(2) < Bytes(2)
    BY <1>1, <1>2, <1>3, QuotientBelow
  <2>3. r \in Nat /\ Bytes(2) * r <= q
    <3>1. q \div Bytes(2) \in Nat /\ q % Bytes(2) \in Nat /\ q = Bytes(2) * (q \div Bytes(2)) + (q % Bytes(2))
      BY <1>1, <1>2, Quotient
    <3>2. Bytes(2) * (q \div Bytes(2)) \in Nat
      BY <1>2, <3>1, Products
    <3> QED
      BY <1>1, <2>1, <3>1, <3>2
  <2>4. r * RangeTop <= r * Bytes(2) /\ r * Bytes(2) = Bytes(2) * r
    BY <1>2, <2>3, Products
  <2>5. r * RangeTop \in Nat /\ Bytes(2) * r \in Nat /\ q * 1 = q
    BY <1>1, <1>2, <2>3, Products
  <2> HIDE DEF n, r
  <2> QED
    BY <1>1, <1>2, <2>1, <2>2, <2>3, <2>4, <2>5 DEF n, r, q
<1>4. CASE q < Bytes(3) /\ q >= Bytes(2)
  <2>1. n = 1 /\ r = q \div Byte
    BY <1>1, <1>2, <1>4 DEF Widened, Narrowed
  <2>2. Byte <= q \div Byte /\ q \div Byte < Bytes(2)
    BY <1>1, <1>2, <1>4, QuotientBelow
  <2>3. r \in Nat /\ Byte * r <= q
    <3>1. q \div Byte \in Nat /\ q % Byte \in Nat /\ q = Byte * (q \div Byte) + (q % Byte)
      BY <1>1, <1>2, Quotient
    <3>2. Byte * (q \div Byte) \in Nat
      BY <1>2, <3>1, Products
    <3> QED
      BY <1>1, <2>1, <3>1, <3>2
  <2>4. r * RangeTop <= r * Bytes(2) /\ r * Bytes(2) = (Byte * r) * Byte /\ (Byte * r) * Byte <= q * Byte
    <3>1. \A x, y \in Nat : x * (y * y) = (y * x) * y
      BY Z3
    <3>2. Byte * r \in Nat
      BY <1>2, <2>3, Products
    <3> QED
      BY <1>1, <1>2, <2>3, <3>1, <3>2, Products
  <2>5. r * RangeTop \in Nat /\ r * Bytes(2) \in Nat /\ q * Byte \in Nat
    BY <1>1, <1>2, <2>3, Products
  <2> HIDE DEF n, r
  <2> QED
    BY <1>1, <1>2, <1>4, <2>1, <2>2, <2>3, <2>4, <2>5 DEF n, r, q
<1>5. CASE q < Bytes(2)
  <2>1. n = 2 /\ r = q \div 1
    BY <1>1, <1>2, <1>5, FourBytes DEF Widened, Narrowed
  <2>2. r = q
    BY <1>1, <2>1
  <2>3. q * RangeTop <= q * Bytes(2)
    BY <1>1, <1>2, Products
  <2> HIDE DEF n, r
  <2> QED
    BY <1>1, <1>2, <1>5, <2>1, <2>2, <2>3 DEF n, r, q
<1>6. q >= Bytes(3) \/ (q < Bytes(3) /\ q >= Bytes(2)) \/ q < Bytes(2)
  BY <1>1, <1>2
<1> QED
  BY <1>3, <1>4, <1>5, <1>6 DEF q, n, r

LEMMA QuotientTwice ==
  ASSUME NEW a \in Nat, NEW b \in Nat, b > 0, NEW c \in Nat, c > 0
  PROVE  (a \div b) \div c = a \div (c * b)
<1> DEFINE q == a \div b
           r == a % b
           d == q \div c
           m == q % c
<1>1. q \in Nat /\ r \in Nat /\ r < b /\ a = b * q + r
  BY Quotient
<1> HIDE DEF q, r
<1>2. d \in Nat /\ m \in Nat /\ m < c /\ q = c * d + m
  BY <1>1, Quotient
<1> HIDE DEF d, m
<1>3. a = (c * b) * d + (b * m + r)
  <2>1. b * (c * d + m) = (c * b) * d + b * m
    BY <1>2, Z3
  <2>2. b * m \in Nat /\ c * b \in Nat /\ (c * b) * d \in Nat
    BY <1>2, Products
  <2> QED
    BY <1>1, <1>2, <2>1, <2>2
<1>4. b * m + r \in Nat /\ b * m + r < c * b
  <2>1. b * (m + 1) <= b * c
    BY <1>2, Products
  <2>2. b * (m + 1) = b * m + b /\ b * c = c * b
    BY <1>2, Z3
  <2>3. b * m \in Nat /\ c * b \in Nat
    BY <1>2, Products
  <2> QED
    BY <1>1, <2>1, <2>2, <2>3
<1>5. c * b \in Nat /\ c * b > 0
  <2>1. \A x, y \in Nat : x > 0 /\ y > 0 => x * y > 0
    BY Z3
  <2> QED
    BY <2>1, Products
<1>6. a \div (c * b) = d
  BY <1>2, <1>3, <1>4, <1>5, QuotientIs
<1> QED
  BY <1>6 DEF q, d

\* The bytes that leave the base stand for its upper part.
LEMMA TopBytesFollow ==
  ASSUME NEW b \in ByteSeqs, NEW x \in Nat, x < Bytes(4), NEW n \in 0 .. 2
  PROVE  /\ b \o TopBytes(x, n) \in ByteSeqs
         /\ Len(b \o TopBytes(x, n)) = Len(b) + n
         /\ Number(b \o TopBytes(x, n)) = Number(b) * Bytes(n) + x \div Bytes(4 - n)
<1> DEFINE top == TopBytes(x, n)
           c == b \o top
           y == (x \div Bytes(3)) % Byte
           z == (x \div Bytes(2)) % Byte
<1>1. Len(b) \in Nat /\ DOMAIN b = 1 .. Len(b) /\ Number(b) \in Nat
  BY ByteSeqIs, PaddedIs
<1>2. y \in 0 .. Byte - 1 /\ z \in 0 .. Byte - 1
  <2>1. x \div Bytes(3) \in Nat /\ x \div Bytes(2) \in Nat
    BY BytesPositive, Quotient
  <2> QED
    BY <2>1, ByteIs, Quotient
<1>3. \A p, q \in 0 .. Byte - 1 : <<p>> \in Seq(ByteValues) /\ <<p, q>> \in Seq(ByteValues)
  BY DEF ByteValues
<1>4. CASE n = 0
  <2>1. top = <<>>
    BY <1>4 DEF TopBytes
  <2>2. c = b
    BY <2>1 DEF ByteSeqs
  <2>3. x \div Bytes(4) = 0
    <3>1. Bytes(4) \in Nat /\ Bytes(4) > 0 /\ Bytes(4) * 0 + x = x
      BY BytesPositive
    <3> QED
      BY <3>1, QuotientIs
  <2>4. Number(b) * 1 = Number(b)
    BY <1>1
  <2>5. 4 - n = 4 /\ Bytes(n) = 1 /\ Len(b) + n = Len(b)
    BY <1>1, <1>4, ByteIs
  <2>6. Number(b) = Number(b) * Bytes(n) + x \div Bytes(4 - n)
    BY <1>1, <2>3, <2>4, <2>5
  <2> QED
    BY <2>2, <2>5, <2>6, Zenon
<1>5. CASE n = 1
  <2>1. top = <<y>>
    <3>1. top = [i \in 1 .. 1 |-> (x \div Bytes(4 - i)) % Byte]
      BY <1>5 DEF TopBytes
    <3>2. 4 - 1 = 3
      OBVIOUS
    <3> QED
      BY <3>1, <3>2
  <2> HIDE DEF top, y
  <2>2. c = Append(b, y)
    BY <1>2, <2>1 DEF ByteSeqs
  <2>3. x \div Bytes(3) = y
    <3>1. x \div Bytes(3) < Byte /\ x \div Bytes(3) \in Nat
      <4>1. Bytes(3) \in Nat /\ Bytes(3) > 0 /\ Bytes(4) = Bytes(3) * Byte
        BY BytesPositive, FourBytes, ByteIs, Products
      <4> QED
        BY <4>1, ByteIs, Quotient, QuotientBelow
    <3> QED
      BY <3>1, ByteIs DEF y
  <2>4. Append(b, y) \in ByteSeqs /\ Len(Append(b, y)) = Len(b) + 1
        /\ Number(Append(b, y)) = Number(b) * Byte + y
    BY <1>2, NumberOfMore
  <2>5. 4 - n = 3 /\ Bytes(n) = Byte
    BY <1>5, ByteIs
  <2> QED
    BY <1>5, <2>2, <2>3, <2>4, <2>5, Zenon DEF c, top
<1>6. CASE n = 2
  <2>1. top = <<y, z>>
    <3>1. top = [i \in 1 .. 2 |-> (x \div Bytes(4 - i)) % Byte]
      BY <1>6 DEF TopBytes
    <3>2. 4 - 1 = 3 /\ 4 - 2 = 2
      OBVIOUS
    <3> QED
      BY <3>1, <3>2
  <2>2. x \div Bytes(2) \in Nat /\ x \div Bytes(3) \in Nat /\ (x \div Bytes(2)) \div Byte = x \div Bytes(3)
        /\ x \div Bytes(3) < Byte
    <3>1. Bytes(3) = Byte * Bytes(2) /\ Bytes(4) = Bytes(3) * Byte
      BY BytesPositive, FourBytes, ByteIs, Products
    <3>2. Bytes(2) \in Nat /\ Bytes(2) > 0 /\ Bytes(3) \in Nat /\ Bytes(3) > 0
      BY BytesPositive
    <3> QED
      BY <3>1, <3>2, ByteIs, Quotient, QuotientBelow, QuotientTwice
  <2>3. y = x \div Bytes(3)
    BY <2>2, ByteIs
  <2>4. x \div Bytes(2) = Byte * y + z
    <3> DEFINE v == x \div Bytes(2)
    <3>1. v \in Nat /\ y = v \div Byte /\ z = v % Byte
      BY <2>2, <2>3
    <3> HIDE DEF v, y, z
    <3>2. v = Byte * (v \div Byte) + (v % Byte)
      BY <3>1, ByteIs, Quotient
    <3>3. v = Byte * y + z
      BY <3>1, <3>2
    <3> QED
      BY <3>3 DEF v
  <2> HIDE DEF top, y, z
  <2> DEFINE d == Append(b, y)
  <2>5. c = Append(d, z)
    BY <1>2, <2>1 DEF ByteSeqs
  <2>6. d \in ByteSeqs /\ Len(d) = Len(b) + 1 /\ Number(d) = Number(b) * Byte + y
    BY <1>2, NumberOfMore
  <2> HIDE DEF d
  <2>7. c \in ByteSeqs /\ Len(c) = Len(d) + 1 /\ Number(c) = Number(d) * Byte + z
    BY <1>2, <2>5, <2>6, NumberOfMore
  <2>8. (Number(b) * Byte + y) * Byte = Number(b) * Bytes(2) + Byte * y
    <3>1. \A k, w, v \in Nat : (k * w + v) * w = k * (w * w) + w * v
      BY Z3
    <3>2. y \in Nat
      BY <1>2, ByteIs
    <3> QED
      BY <1>1, <3>1, <3>2, ByteIs, FourBytes
  <2>9. Number(c) = Number(b) * Bytes(2) + x \div Bytes(2)
    <3>1. Number(b) * Bytes(2) \in Nat /\ Byte * y \in Nat /\ z \in Nat
      <4>1. y \in Nat /\ z \in Nat
        BY <1>2, ByteIs
      <4> QED
        BY <1>1, <4>1, ByteIs, BytesPositive, Products
    <3> QED
      BY <2>4, <2>6, <2>7, <2>8, <3>1
  <2> HIDE DEF c
  <2>10. Len(c) = Len(b) + 2
    BY <1>1, <2>6, <2>7
  <2> QED
    BY <1>6, <2>7, <2>9, <2>10 DEF c, top
<1> QED
  BY <1>4, <1>5, <1>6

\* The rest of the base, shifted.
LEMMA BaseShifted ==
  ASSUME NEW x \in Nat, x < Bytes(4), NEW n \in 0 .. 2, NEW k \in Nat
  PROVE  /\ (x * Bytes(n)) % Bytes(4) \in Nat /\ (x * Bytes(n)) % Bytes(4) < Bytes(4)
         /\ (k * Bytes(n) + x \div Bytes(4 - n)) * Bytes(4) + ((x * Bytes(n)) % Bytes(4))
              = (k * Bytes(4) + x) * Bytes(n)
<1> DEFINE p == Bytes(n)
           m == Bytes(4 - n)
           hi == x \div m
           lo == x % m
<1>1. p \in Nat /\ p > 0 /\ m \in Nat /\ m > 0 /\ Bytes(4) = p * m /\ Bytes(4) \in Nat /\ Bytes(4) > 0
  <2>1. n \in Nat /\ 4 - n \in Nat /\ n \in 0 .. 4
    OBVIOUS
  <2> QED
    BY <2>1, BytesPositive, FourBytes
<1>2. hi \in Nat /\ lo \in Nat /\ lo < m /\ x = m * hi + lo
  BY <1>1, Quotient
<1> HIDE DEF p, m, hi, lo
<1>3. x * p = Bytes(4) * hi + lo * p
  <2>1. (m * hi + lo) * p = (p * m) * hi + lo * p
    BY <1>1, <1>2, Z3
  <2> QED
    BY <1>1, <1>2, <2>1
<1>4. lo * p \in Nat /\ lo * p < Bytes(4) /\ x * p \in Nat
  <2>1. (lo + 1) * p <= m * p /\ lo * p \in Nat /\ m * p = p * m /\ x * p \in Nat
    BY <1>1, <1>2, Products
  <2>2. (lo + 1) * p = lo * p + p
    BY <1>1, <1>2, Z3
  <2> QED
    BY <1>1, <2>1, <2>2
<1>5. (x * p) % Bytes(4) = lo * p
  <2> DEFINE y == x * p
             u == lo * p
             b == Bytes(4)
  <2>1. y \in Nat /\ u \in Nat /\ u < b /\ y = b * hi + u /\ b \in Nat /\ b > 0 /\ hi \in Nat
    BY <1>1, <1>2, <1>3, <1>4
  <2> HIDE DEF y, u, b
  <2>2. y % b = u
    BY <2>1, QuotientIs, Zenon
  <2> QED
    BY <2>2 DEF y, u, b
<1>6. (k * p + hi) * (p * m) + lo * p = (k * (p * m) + (m * hi + lo)) * p
  BY <1>1, <1>2, Z3
<1>7. (k * p + hi) * Bytes(4) + lo * p = (k * Bytes(4) + x) * p
  BY <1>1, <1>2, <1>6
<1> QED
  BY <1>1, <1>4, <1>5, <1>7 DEF p, m, hi

\* The lower limit of the interval, as all that was written and the base
\* after it, and the interval's room.
Low(e) == Number(e.buffer) * Bytes(4) + e.base

EncOK(e) ==
  /\ e \in [base : Nat, range : Nat, buffer : ByteSeqs, error : {FALSE}]
  /\ e.base < Bytes(4)
  /\ Byte <= e.range /\ e.range <= RangeTop
  /\ Low(e) + e.range * RangeTop <= Bytes(4 + Len(e.buffer))

LEMMA EncInitOK == EncOK(EncInit) /\ Low(EncInit) = 0 /\ Len(EncInit.buffer) = 0
<1>1. <<>> \in ByteSeqs /\ Len(<<>>) = 0
  BY DEF ByteSeqs
<1>2. Number(<<>>) = 0
  BY <1>1, PaddedIs, ValueIs DEF Number
<1>3. Low(EncInit) = 0
  <2>1. 0 * Bytes(4) = 0
    BY BytesPositive
  <2> QED
    BY <1>2, <2>1 DEF Low, EncInit
<1>4. RangeTop * RangeTop <= Bytes(4) /\ RangeTop * RangeTop \in Nat /\ RangeTop \in Nat /\ Byte <= RangeTop
  <2>1. RangeTop + 1 = Bytes(2) /\ RangeTop \in Nat /\ Bytes(2) \in Nat /\ Byte < Bytes(2) /\ Byte \in Nat
    BY FourBytes, BytesPositive, ByteIs
  <2>2. RangeTop * RangeTop <= Bytes(2) * RangeTop /\ Bytes(2) * RangeTop <= Bytes(2) * Bytes(2)
    BY <2>1, Products
  <2>3. RangeTop * RangeTop \in Nat /\ Bytes(2) * RangeTop \in Nat /\ Bytes(2) * Bytes(2) \in Nat
    BY <2>1, Products
  <2> QED
    BY <2>1, <2>2, <2>3, FourBytes
<1>5. Bytes(4) > 0 /\ Bytes(4) \in Nat
  BY BytesPositive
<1>6. EncInit \in [base : Nat, range : Nat, buffer : ByteSeqs, error : {FALSE}]
  BY <1>1, <1>4 DEF EncInit
<1>7. EncInit.base = 0 /\ EncInit.range = RangeTop /\ EncInit.buffer = <<>>
  BY DEF EncInit
<1>8. Low(EncInit) + EncInit.range * RangeTop <= Bytes(4 + Len(EncInit.buffer))
  <2>1. 4 + Len(EncInit.buffer) = 4
    BY <1>1, <1>7
  <2> QED
    BY <1>3, <1>4, <1>5, <1>7, <2>1
<1>9. Len(EncInit.buffer) = 0
  BY <1>1, <1>7
<1>10. EncInit.base < Bytes(4) /\ Byte <= EncInit.range /\ EncInit.range <= RangeTop
  BY <1>4, <1>5, <1>7
<1> QED
  BY <1>3, <1>6, <1>8, <1>9, <1>10, Zenon DEF EncOK

\* With the carry, the buffer and the base are the number they were before.
LEMMA CarryKeepsNumber ==
  ASSUME NEW e, EncOK(e), NEW more \in Nat, more < e.range * RangeTop
  PROVE  LET sum == e.base + more
             b   == IF sum >= Bytes(4) THEN CarryInto(e.buffer) ELSE e.buffer
             x   == sum % Bytes(4)
         IN  /\ b \in ByteSeqs /\ Len(b) = Len(e.buffer)
             /\ x \in Nat /\ x < Bytes(4)
             /\ Number(b) * Bytes(4) + x = Low(e) + more
             /\ sum >= Bytes(4) => Number(e.buffer) + 1 < Bytes(Len(e.buffer))
<1> DEFINE sum == e.base + more
           k == Number(e.buffer)
           l == Len(e.buffer)
           w == Bytes(4)
           x == sum % w
<1>1. /\ e.buffer \in ByteSeqs /\ k \in Nat /\ l \in Nat /\ e.base \in Nat /\ e.base < w
      /\ e.range \in Nat /\ e.range <= RangeTop /\ RangeTop \in Nat
  BY PaddedIs, FourBytes DEF EncOK
<1>2. w \in Nat /\ w > 0 /\ Bytes(l) \in Nat /\ Bytes(4 + l) = w * Bytes(l)
  BY <1>1, BytesPositive, BytesSum
<1>3. Low(e) = k * w + e.base /\ k * w \in Nat /\ w * k = k * w
  BY <1>1, <1>2, Products DEF Low
<1>4. Low(e) + e.range * RangeTop <= w * Bytes(l)
  BY <1>2 DEF EncOK
<1>5. e.range * RangeTop \in Nat /\ e.range * RangeTop < w
  <2>1. e.range * RangeTop <= RangeTop * RangeTop /\ RangeTop * RangeTop <= Bytes(2) * RangeTop
    <3>1. Bytes(2) \in Nat /\ RangeTop <= Bytes(2)
      BY <1>1, FourBytes, BytesPositive
    <3>2. e.range * RangeTop <= RangeTop * RangeTop
      BY <1>1, Products
    <3>3. RangeTop * RangeTop <= Bytes(2) * RangeTop
      BY <1>1, <3>1, Products
    <3> QED
      BY <3>2, <3>3
  <2>2. Bytes(2) * RangeTop = w - Bytes(2)
    <3>1. \A y \in Nat : y * (y - 1) = y * y - y
      BY Z3
    <3> QED
      BY <3>1, FourBytes, BytesPositive
  <2>3. Bytes(2) \in Nat /\ Bytes(2) > 0 /\ e.range * RangeTop \in Nat /\ RangeTop * RangeTop \in Nat
        /\ Bytes(2) * RangeTop \in Nat
    BY <1>1, BytesPositive, Products
  <2> HIDE DEF w
  <2> QED
    BY <1>2, <2>1, <2>2, <2>3
<1> HIDE DEF w, k, l
<1>6. CASE sum >= w
  <2>1. x = sum - w
    <3>1. sum - w \in Nat /\ sum - w < w /\ sum = w * 1 + (sum - w) /\ sum \in Nat
      BY <1>1, <1>2, <1>5, <1>6
    <3> HIDE DEF sum
    <3> QED
      BY <1>2, <3>1, QuotientIs
  <2>2. (k + 1) * w = k * w + w /\ w * (k + 1) = (k + 1) * w
    BY <1>1, <1>2, Z3
  <2>3. w * (k + 1) < w * Bytes(l)
    BY <1>1, <1>2, <1>3, <1>4, <1>5, <1>6, <2>2
  <2>4. k + 1 < Bytes(l)
    <3>1. Bytes(l) <= k + 1 => w * Bytes(l) <= w * (k + 1)
      BY <1>1, <1>2, Products
    <3>2. w * Bytes(l) \in Nat /\ w * (k + 1) \in Nat
      BY <1>1, <1>2, Products
    <3> QED
      BY <1>1, <1>2, <2>3, <3>1, <3>2
  <2>5. CarryInto(e.buffer) \in ByteSeqs /\ Len(CarryInto(e.buffer)) = l /\ Number(CarryInto(e.buffer)) = k + 1
    BY <1>1, <2>4, CarryAdds DEF k, l
  <2>6. x \in Nat /\ x < w /\ (k + 1) * w + x = Low(e) + more
    BY <1>1, <1>2, <1>3, <1>5, <1>6, <2>1, <2>2
  <2> HIDE DEF x, sum
  <2> QED
    BY <1>6, <2>4, <2>5, <2>6 DEF x, w, sum, l, k
<1>7. CASE ~(sum >= w)
  <2>1. x = sum
    <3>1. sum \in Nat /\ sum < w /\ sum = w * 0 + sum
      BY <1>1, <1>2, <1>7
    <3> HIDE DEF sum
    <3> QED
      BY <1>2, <3>1, QuotientIs
  <2>2. x \in Nat /\ x < w /\ k * w + x = Low(e) + more
    BY <1>1, <1>2, <1>3, <1>7, <2>1
  <2> HIDE DEF x, sum
  <2> QED
    BY <1>1, <1>7, <2>2 DEF x, w, sum, l, k
<1> QED
  BY <1>6, <1>7

\* A symbol that fits the buffer narrows the interval to its own, and the
\* interval keeps within what the buffer can carry.
LEMMA EncodeStep ==
  ASSUME NEW e, EncOK(e), NEW cdf, IsTable(cdf), NEW data \in 0 .. Len(cdf) - 2,
         ~EncodeSymbol(e, cdf, data).error
  PROVE  LET d == EncodeSymbol(e, cdf, data)
             q == e.range * (cdf[data + 2] - cdf[data + 1])
         IN  /\ EncOK(d)
             /\ d.range = Narrowed(q)
             /\ Len(d.buffer) = Len(e.buffer) + Widened(q)
             /\ Low(d) = (Low(e) + e.range * cdf[data + 1]) * Bytes(Widened(q))
<1> DEFINE d    == EncodeSymbol(e, cdf, data)
           low  == cdf[data + 1]
           high == cdf[data + 2]
           more == e.range * low
           q    == e.range * (high - low)
           n    == Widened(q)
           sum  == e.base + more
           b    == IF sum >= Bytes(4) THEN CarryInto(e.buffer) ELSE e.buffer
           x    == sum % Bytes(4)
           c    == b \o TopBytes(x, n)
           y    == (x * Bytes(n)) % Bytes(4)
<1>1. low \in Nat /\ high \in Nat /\ low < high /\ high <= RangeTop
  BY IntervalOf
<1>2. /\ e.range \in Nat /\ Byte <= e.range /\ e.range <= RangeTop
      /\ RangeTop \in Nat /\ e.buffer \in ByteSeqs /\ Len(e.buffer) \in Nat /\ Low(e) \in Nat
      /\ Low(e) + e.range * RangeTop <= Bytes(4 + Len(e.buffer)) /\ e.base \in Nat
      /\ ~e.error
  <2>1. e \in [base : Nat, range : Nat, buffer : ByteSeqs, error : {FALSE}]
    BY DEF EncOK
  <2>2. e.buffer \in ByteSeqs /\ e.base \in Nat /\ e.range \in Nat /\ ~e.error
    BY <2>1
  <2>3. Number(e.buffer) * Bytes(4) \in Nat /\ Len(e.buffer) \in Nat
    BY <2>2, PaddedIs, BytesPositive, Products
  <2>4. Low(e) \in Nat
    BY <2>2, <2>3 DEF Low
  <2>5. RangeTop \in Nat
    BY FourBytes
  <2> QED
    BY <2>2, <2>3, <2>4, <2>5, Zenon DEF EncOK
<1> HIDE DEF low, high
<1>3. /\ q \in Nat /\ n \in 0 .. 2 /\ Narrowed(q) \in Nat /\ Byte <= Narrowed(q) /\ Narrowed(q) <= RangeTop
      /\ Narrowed(q) * RangeTop <= q * Bytes(n)
  <2>1. high - low \in Nat /\ 1 <= high - low /\ high - low <= RangeTop
    BY <1>1, <1>2
  <2> QED
    BY <1>2, <2>1, NarrowedIs
<1>4. more \in Nat /\ more + q = e.range * high /\ e.range * high <= e.range * RangeTop /\ more < e.range * RangeTop
  <2>1. e.range * low + e.range * (high - low) = e.range * high
    <3>1. high - low \in Nat /\ low + (high - low) = high
      BY <1>1
    <3>2. e.range * (low + (high - low)) = e.range * low + e.range * (high - low)
      BY <1>1, <1>2, <3>1, Products
    <3> QED
      BY <3>1, <3>2
  <2>2. e.range * high <= e.range * RangeTop /\ e.range * low \in Nat /\ e.range * RangeTop \in Nat
    BY <1>1, <1>2, Products
  <2>3. e.range * (low + 1) <= e.range * high /\ e.range * (low + 1) = e.range * low + e.range
    <3>1. e.range * (low + 1) = e.range * low + e.range
      <4>1. e.range * (low + 1) = e.range * low + e.range * 1 /\ e.range * 1 = e.range
        BY <1>1, <1>2, Products
      <4> QED
        BY <4>1
    <3>2. low + 1 \in Nat /\ low + 1 <= high
      BY <1>1
    <3> QED
      BY <1>1, <1>2, <3>1, <3>2, Products
  <2>4. e.range > 0 /\ e.range * high \in Nat
    BY <1>1, <1>2, ByteIs, Products
  <2> QED
    BY <1>2, <2>1, <2>2, <2>3, <2>4
<1>5. /\ b \in ByteSeqs /\ Len(b) = Len(e.buffer) /\ x \in Nat /\ x < Bytes(4)
      /\ Number(b) * Bytes(4) + x = Low(e) + more /\ Number(b) \in Nat
  <2>1. /\ b \in ByteSeqs /\ Len(b) = Len(e.buffer) /\ x \in Nat /\ x < Bytes(4)
        /\ Number(b) * Bytes(4) + x = Low(e) + more
    <3> HIDE DEF more
    <3> QED
      BY <1>4, CarryKeepsNumber
  <2> QED
    BY <2>1, PaddedIs
<1>6. d = [base |-> y, range |-> Narrowed(q), buffer |-> c, error |-> FALSE]
  <2>1. d = IF e.error THEN e
            ELSE IF Len(b) + n > MAX_ARITHM_BYTES
                 THEN [e EXCEPT !.buffer = b, !.error = TRUE]
                 ELSE [base |-> y, range |-> Narrowed(q), buffer |-> c, error |-> FALSE]
    BY Zenon DEF EncodeSymbol, low, high
  <2> HIDE DEF b, y, c, n, q
  <2>2. CASE Len(b) + n > MAX_ARITHM_BYTES
    <3>1. d = [e EXCEPT !.buffer = b, !.error = TRUE]
      BY <1>2, <2>1, <2>2, Zenon
    <3>2. d.error
      <4> HIDE DEF d
      <4>1. e \in [base : Nat, range : Nat, buffer : ByteSeqs, error : {FALSE}]
        BY DEF EncOK
      <4> QED
        BY <3>1, <4>1
    <3> QED
      BY <3>2
  <2> QED
    BY <1>2, <2>1, <2>2, Zenon
<1>7. c \in ByteSeqs /\ Len(c) = Len(b) + n /\ Number(c) = Number(b) * Bytes(n) + x \div Bytes(4 - n)
  <2> HIDE DEF b, x, n
  <2> QED
    BY <1>3, <1>5, TopBytesFollow
<1>8. y \in Nat /\ y < Bytes(4) /\ Number(c) * Bytes(4) + y = (Number(b) * Bytes(4) + x) * Bytes(n)
  <2> HIDE DEF b, x, n
  <2>1. /\ y \in Nat /\ y < Bytes(4)
        /\ (Number(b) * Bytes(n) + x \div Bytes(4 - n)) * Bytes(4) + y = (Number(b) * Bytes(4) + x) * Bytes(n)
    BY <1>3, <1>5, BaseShifted
  <2> HIDE DEF y, c
  <2> QED
    BY <1>7, <2>1
<1> HIDE DEF y, c, n, b, x, q, more, sum, d
<1>9. d.base = y /\ d.range = Narrowed(q) /\ d.buffer = c /\ ~d.error
  BY <1>6
<1>10. Low(d) = (Low(e) + more) * Bytes(n)
  BY <1>5, <1>8, <1>9 DEF Low
<1>11. d \in [base : Nat, range : Nat, buffer : ByteSeqs, error : {FALSE}]
  BY <1>3, <1>6, <1>7, <1>8
<1>12. Low(d) + d.range * RangeTop <= Bytes(4 + Len(d.buffer))
  <2> DEFINE p    == Bytes(n)
             m    == Bytes(4 + Len(e.buffer))
             room == e.range * RangeTop
             l    == Low(e)
             end  == l + (more + q)
             rest == d.range * RangeTop
             part == e.range * high
  <2>1. n \in Nat /\ 4 + Len(e.buffer) \in Nat /\ q \in Nat /\ more \in Nat /\ l \in Nat
    BY <1>2, <1>3, <1>4
  <2>2. p \in Nat /\ m \in Nat
    BY <2>1, BytesPositive
  <2>3. Bytes(4 + Len(d.buffer)) = m * p
    <3>1. 4 + Len(d.buffer) = (4 + Len(e.buffer)) + n
      <4>1. Len(d.buffer) = Len(e.buffer) + n /\ Len(e.buffer) \in Nat
        BY <1>2, <1>5, <1>7, <1>9
      <4> QED
        BY <2>1, <4>1
    <3> QED
      BY <2>1, <3>1, BytesSum
  <2>4. rest <= q * p /\ rest \in Nat
    BY <1>2, <1>3, <1>9, Products
  <2>5. room \in Nat /\ part \in Nat /\ more + q = part /\ part <= room /\ l + room <= m
    BY <1>1, <1>2, <1>4, Products
  <2>6. Low(d) = (l + more) * p
    BY <1>10
  <2> HIDE DEF p, m, room, l, rest, part
  <2>7. end \in Nat /\ end <= m /\ end = (l + more) + q /\ l + more \in Nat
    BY <2>1, <2>2, <2>5
  <2> HIDE DEF end
  <2>8. end * p <= m * p /\ end * p = (l + more) * p + q * p
    BY <2>1, <2>2, <2>7, Products
  <2>9. (l + more) * p \in Nat /\ q * p \in Nat /\ m * p \in Nat
    BY <2>1, <2>2, <2>7, Products
  <2>10. Low(d) + rest <= m * p
    BY <2>4, <2>6, <2>8, <2>9
  <2> QED
    BY <2>3, <2>10 DEF rest
<1>13. EncOK(d)
  <2>1. d.base < Bytes(4) /\ Byte <= d.range /\ d.range <= RangeTop
    BY <1>3, <1>8, <1>9
  <2> QED
    BY <1>11, <1>12, <2>1, Zenon DEF EncOK
<1>14. Len(d.buffer) = Len(e.buffer) + n
  BY <1>5, <1>7, <1>9
<1>15. EncOK(d) /\ d.range = Narrowed(q) /\ Len(d.buffer) = Len(e.buffer) + n
       /\ Low(d) = (Low(e) + more) * Bytes(n)
  BY <1>9, <1>10, <1>13, <1>14
<1> QED
  BY <1>15 DEF d, q, n, more, low, high

-----------------------------------------------------------------------------
(* The symbol read back *)

\* The stream is in the interval: it is what the encoder has written and the
\* decoder has read, and what both have still to come.
Inside(s, e) ==
  LET at == Value(s)[Len(e.buffer) + 4]
  IN  Low(e) <= at /\ at < Low(e) + e.range * RangeTop

LEMMA EncOKIs ==
  ASSUME NEW e, EncOK(e)
  PROVE  /\ e.buffer \in ByteSeqs /\ Len(e.buffer) \in Nat /\ e.base \in Nat /\ e.range \in Nat
         /\ ~e.error /\ Low(e) \in Nat /\ Byte <= e.range /\ e.range <= RangeTop /\ RangeTop \in Nat
<1>1. e \in [base : Nat, range : Nat, buffer : ByteSeqs, error : {FALSE}]
  BY DEF EncOK
<1>2. e.buffer \in ByteSeqs /\ e.base \in Nat /\ e.range \in Nat /\ ~e.error
  BY <1>1
<1>3. Number(e.buffer) * Bytes(4) \in Nat /\ Len(e.buffer) \in Nat
  BY <1>2, PaddedIs, BytesPositive, Products
<1>4. Low(e) \in Nat
  BY <1>2, <1>3 DEF Low
<1>5. RangeTop \in Nat
  BY FourBytes
<1> QED
  BY <1>2, <1>3, <1>4, <1>5, Zenon DEF EncOK

\* A stream in the interval after a symbol was in that of the symbol before.
LEMMA InsideBefore ==
  ASSUME NEW s \in Streams, NEW e, EncOK(e), NEW cdf, IsTable(cdf), NEW data \in 0 .. Len(cdf) - 2,
         ~EncodeSymbol(e, cdf, data).error, Inside(s, EncodeSymbol(e, cdf, data))
  PROVE  LET at == Value(s)[Len(e.buffer) + 4]
         IN  /\ at \in Nat
             /\ Low(e) + e.range * cdf[data + 1] <= at
             /\ at < Low(e) + e.range * cdf[data + 2]
             /\ Inside(s, e)
<1> DEFINE d    == EncodeSymbol(e, cdf, data)
           low  == cdf[data + 1]
           high == cdf[data + 2]
           q    == e.range * (high - low)
           n    == Widened(q)
           p    == Bytes(n)
           l    == Len(e.buffer) + 4
           at   == Value(s)[l]
           then == Value(s)[l + n]
           a    == Low(e) + e.range * low
<1>1. low \in Nat /\ high \in Nat /\ low < high /\ high <= RangeTop
  BY IntervalOf
<1>2. e.range \in Nat /\ Low(e) \in Nat /\ l \in Nat /\ Byte <= e.range /\ e.range <= RangeTop /\ RangeTop \in Nat
  BY EncOKIs
<1>3. d.range = Narrowed(q) /\ Len(d.buffer) = Len(e.buffer) + n /\ Low(d) = a * p
  BY EncodeStep
<1> HIDE DEF low, high, d
<1>4. q \in Nat /\ n \in Nat /\ Narrowed(q) \in Nat /\ Narrowed(q) * RangeTop <= q * p
  <2> DEFINE w == high - low
  <2>1. w \in Nat /\ 1 <= w /\ w <= RangeTop
    BY <1>1, <1>2
  <2> HIDE DEF w
  <2>2. /\ e.range * w \in Nat /\ Widened(e.range * w) \in 0 .. 2 /\ Narrowed(e.range * w) \in Nat
        /\ Narrowed(e.range * w) * RangeTop <= (e.range * w) * Bytes(Widened(e.range * w))
    BY <1>2, <2>1, NarrowedIs
  <2>3. q \in Nat /\ n \in 0 .. 2 /\ Narrowed(q) \in Nat /\ Narrowed(q) * RangeTop <= q * p
    BY <2>2 DEF w
  <2> HIDE DEF q, n, p
  <2>4. n \in Nat
    BY <2>3
  <2> QED
    BY <2>3, <2>4
<1>5. at \in Nat /\ then \in Nat /\ p \in Nat /\ p > 0 /\ at * p <= then /\ then < at * p + p
  <2> HIDE DEF q, n, l
  <2>1. Value(s) \in [Nat -> Nat]
    BY ValueIs
  <2>2. n \in Nat /\ l \in Nat /\ l + n \in Nat
    BY <1>2, <1>4
  <2>3. p \in Nat /\ p > 0
    BY <2>2, BytesPositive
  <2>4. at * p <= then /\ then < at * p + p
    BY <2>2, ValueFurther
  <2> QED
    BY <2>1, <2>2, <2>3, <2>4
<1>6. a \in Nat /\ a + q = Low(e) + e.range * high /\ e.range * high <= e.range * RangeTop
      /\ e.range * high \in Nat /\ e.range * RangeTop \in Nat /\ Low(e) <= a
  <2>1. high - low \in Nat /\ low + (high - low) = high
    BY <1>1
  <2>2. e.range * (low + (high - low)) = e.range * low + e.range * (high - low)
    BY <1>1, <1>2, <2>1, Products
  <2>3. e.range * low \in Nat /\ e.range * high \in Nat /\ e.range * RangeTop \in Nat
        /\ e.range * high <= e.range * RangeTop
    BY <1>1, <1>2, Products
  <2> DEFINE x == e.range * low
             y == e.range * high
             z == e.range * RangeTop
  <2>4. x + q = y /\ x \in Nat /\ y \in Nat /\ z \in Nat /\ y <= z /\ a = Low(e) + x
    BY <2>1, <2>2, <2>3
  <2> HIDE DEF a, q, x, y, z
  <2>5. a \in Nat /\ a + q = Low(e) + y /\ Low(e) <= a
    <3> DEFINE k == Low(e)
    <3>1. k \in Nat /\ q \in Nat /\ a = k + x
      BY <1>2, <1>4, <2>4
    <3>2. x \in Nat /\ y = x + q
      BY <2>4
    <3> HIDE DEF k
    <3>3. a \in Nat /\ a + q = k + y /\ k <= a
      BY <3>1, <3>2
    <3> QED
      BY <3>3 DEF k
  <2> QED
    BY <2>4, <2>5 DEF y, z
<1>7. a * p <= then /\ then < a * p + Narrowed(q) * RangeTop
  <2>1. Len(d.buffer) + 4 = l + n
    <3>1. Len(e.buffer) \in Nat
      BY EncOKIs
    <3> QED
      BY <1>3, <1>4, <3>1
  <2> QED
    BY <1>3, <2>1 DEF Inside, d
<1> DEFINE new  == Narrowed(q) * RangeTop
           last == Low(e) + e.range * high
<1>8. new \in Nat /\ new <= q * p
  BY <1>2, <1>4, Products
<1> HIDE DEF a, q, n, p, at, then, new
<1>9. a <= at
  <2>1. at + 1 <= a => (at + 1) * p <= a * p
    BY <1>5, <1>6, Products
  <2>2. (at + 1) * p = at * p + 1 * p /\ 1 * p = p
    BY <1>5, Products
  <2>3. at * p \in Nat /\ a * p \in Nat
    BY <1>5, <1>6, Products
  <2>4. ~((at + 1) * p <= a * p)
    BY <1>5, <1>7, <2>2, <2>3 DEF new
  <2> QED
    BY <1>5, <1>6, <2>1, <2>4
<1>10. at < a + q
  <2>1. a + q <= at => (a + q) * p <= at * p
    BY <1>4, <1>5, <1>6, Products
  <2>2. (a + q) * p = a * p + q * p
    BY <1>4, <1>5, <1>6, Products
  <2>3. at * p \in Nat /\ a * p \in Nat /\ q * p \in Nat /\ (a + q) * p \in Nat
    BY <1>4, <1>5, <1>6, Products
  <2>4. then < a * p + new
    BY <1>7 DEF new
  <2>5. ~((a + q) * p <= at * p)
    BY <1>5, <1>8, <2>2, <2>3, <2>4
  <2> QED
    BY <1>4, <1>5, <1>6, <2>1, <2>5
<1>11. Low(e) <= at /\ at < Low(e) + e.range * RangeTop
  <2> DEFINE x == e.range * high
             y == e.range * RangeTop
  <2>1. x \in Nat /\ y \in Nat /\ x <= y /\ a + q = Low(e) + x
    BY <1>6
  <2> HIDE DEF x, y
  <2>2. Low(e) <= at /\ at < Low(e) + y
    BY <1>2, <1>5, <1>6, <1>9, <1>10, <2>1
  <2> QED
    BY <2>2 DEF y
<1>12. Inside(s, e)
  BY <1>11 DEF Inside, at
<1>13. at < Low(e) + e.range * high
  BY <1>6, <1>10
<1> QED
  BY <1>5, <1>9, <1>12, <1>13 DEF at, a, low, high

\* The decoder's memory, and the stream it stands for: the first four bytes
\* were taken by its base, and it reads zeros where the stream ends.
Errors == {"none", "cdf out of range", "normalization failed", "payload too long", "read beyond",
           "check failed"}

DecStates == [base : Nat, range : Nat, ix : Nat, len : Nat, error : Errors, memory : ByteSeqs]

Reads(d, s, l) ==
  /\ d \in DecStates
  /\ d.ix = IF l < d.len THEN l ELSE d.len
  /\ \A j \in Nat : s[j + 5] = IF j < d.len THEN d.memory[j + 5] ELSE 0

LEMMA ShiftInReads ==
  ASSUME NEW s \in Streams, NEW l \in Nat, NEW d, Reads(d, s, l)
  PROVE  LET t == ShiftIn(d)
         IN  /\ Reads(t, s, l + 1)
             /\ t.base = d.base * Byte + s[l + 5]
             /\ t.range = d.range /\ t.error = d.error /\ t.len = d.len /\ t.memory = d.memory
<1> DEFINE t == ShiftIn(d)
<1>1. d \in DecStates /\ d.ix = (IF l < d.len THEN l ELSE d.len) /\ d.len \in Nat /\ d.base \in Nat
      /\ \A j \in Nat : s[j + 5] = IF j < d.len THEN d.memory[j + 5] ELSE 0
  BY DEF Reads, DecStates
<1>2. s[l + 5] = (IF d.ix < d.len THEN d.memory[d.ix + 5] ELSE 0) /\ s[l + 5] \in Nat
  <2>1. s[l + 5] = IF l < d.len THEN d.memory[l + 5] ELSE 0
    BY <1>1
  <2>2. s[l + 5] \in 0 .. Byte - 1
    BY DEF Streams
  <2> QED
    BY <1>1, <2>1, <2>2, ByteIs
<1>3. t = [d EXCEPT !.base = d.base * Byte + s[l + 5], !.ix = IF d.ix < d.len THEN d.ix + 1 ELSE d.ix]
  BY <1>2, Zenon DEF ShiftIn
<1>4. d.base * Byte + s[l + 5] \in Nat
  <2>1. d.base * Byte \in Nat
    BY <1>1, ByteIs, Products
  <2> QED
    BY <1>2, <2>1
<1>5. (IF d.ix < d.len THEN d.ix + 1 ELSE d.ix) = IF l + 1 < d.len THEN l + 1 ELSE d.len
  BY <1>1
<1> DEFINE base == d.base * Byte + s[l + 5]
           ix   == IF d.ix < d.len THEN d.ix + 1 ELSE d.ix
<1>6. base \in Nat /\ ix \in Nat
  BY <1>1, <1>4
<1> HIDE DEF base, ix
<1>7. /\ t \in DecStates /\ t.base = base /\ t.ix = ix /\ t.range = d.range /\ t.error = d.error
      /\ t.len = d.len /\ t.memory = d.memory
  <2>1. t = [d EXCEPT !.base = base, !.ix = ix]
    BY <1>3 DEF base, ix
  <2> HIDE DEF t
  <2> QED
    BY <1>1, <1>6, <2>1 DEF DecStates
<1> HIDE DEF t
<1>8. Reads(t, s, l + 1)
  <2>1. t.ix = IF l + 1 < t.len THEN l + 1 ELSE t.len
    BY <1>5, <1>7 DEF ix
  <2> QED
    BY <1>1, <1>7, <2>1 DEF Reads
<1> QED
  BY <1>7, <1>8 DEF t, base

\* A decoder that has what is behind k has, one byte further, what is behind
\* k shifted.
LEMMA ShiftInFollows ==
  ASSUME NEW s \in Streams, NEW l \in Nat, NEW d, Reads(d, s, l), NEW k \in Nat,
         k + d.base = Value(s)[l + 4]
  PROVE  k * Byte + ShiftIn(d).base = Value(s)[l + 5]
<1> DEFINE v == Value(s)[l + 4]
           b == s[l + 5]
<1>1. d.base \in Nat /\ Byte \in Nat /\ b \in Nat
  <2>1. d \in DecStates
    BY DEF Reads
  <2>2. s[l + 5] \in 0 .. Byte - 1
    BY DEF Streams
  <2> QED
    BY <2>1, <2>2, ByteIs DEF DecStates
<1>2. Value(s)[l + 5] = v * Byte + b
  <2>1. l + 4 \in Nat /\ (l + 4) + 1 = l + 5
    OBVIOUS
  <2> QED
    BY <2>1, ValueIs
<1>3. ShiftIn(d).base = d.base * Byte + b
  BY ShiftInReads
<1> DEFINE x == k * Byte
           y == d.base * Byte
<1>4. v * Byte = x + y /\ x \in Nat /\ y \in Nat
  <2>1. (k + d.base) * Byte = k * Byte + d.base * Byte /\ k * Byte \in Nat /\ d.base * Byte \in Nat
    BY <1>1, Products
  <2> QED
    BY <2>1
<1> DEFINE w == ShiftIn(d).base
<1> HIDE DEF v, b, x, y, w
<1>5. w = y + b
  BY <1>3 DEF w, y
<1>6. x + w = (x + y) + b
  BY <1>1, <1>4, <1>5
<1> QED
  BY <1>2, <1>4, <1>6 DEF x, w

\* What DecodeSymbol shifts.
ShiftedIn(d, n) == CASE n = 0 -> d
                     [] n = 1 -> ShiftIn(d)
                     [] n = 2 -> ShiftIn(ShiftIn(d))

LEMMA ShiftedInFollows ==
  ASSUME NEW s \in Streams, NEW l \in Nat, NEW d, Reads(d, s, l), NEW k \in Nat,
         k + d.base = Value(s)[l + 4], NEW n \in 0 .. 2
  PROVE  LET t == ShiftedIn(d, n)
         IN  /\ Reads(t, s, l + n)
             /\ k * Bytes(n) + t.base = Value(s)[l + n + 4]
             /\ t.range = d.range /\ t.error = d.error /\ t.len = d.len /\ t.memory = d.memory
<1> DEFINE u == ShiftIn(d)
           t == ShiftIn(u)
<1>1. Reads(u, s, l + 1) /\ u.range = d.range /\ u.error = d.error /\ u.len = d.len /\ u.memory = d.memory
  BY ShiftInReads
<1>2. k * Byte + u.base = Value(s)[l + 5]
  BY ShiftInFollows
<1>3. k * Byte \in Nat /\ l + 1 \in Nat
  BY ByteIs, Products
<1> HIDE DEF u
<1>4. Reads(t, s, (l + 1) + 1) /\ t.range = u.range /\ t.error = u.error /\ t.len = u.len /\ t.memory = u.memory
  BY <1>1, <1>3, ShiftInReads
<1>5. (k * Byte) * Byte + t.base = Value(s)[(l + 1) + 5]
  <2>1. (l + 1) + 4 = l + 5
    OBVIOUS
  <2>2. (k * Byte) + u.base = Value(s)[(l + 1) + 4]
    BY <1>2, <2>1
  <2> QED
    BY <1>1, <1>3, <2>2, ShiftInFollows
<1>6. Bytes(0) = 1 /\ Bytes(1) = Byte /\ Bytes(2) = Byte * Byte
  BY ByteIs, FourBytes
<1>7. k * Bytes(0) = k /\ (k * Byte) * Byte = k * (Byte * Byte)
  <2>1. Byte \in Nat
    BY ByteIs
  <2> QED
    BY <1>6, <2>1
<1> HIDE DEF t
<1>8. CASE n = 0
  <2>1. ShiftedIn(d, n) = d /\ l + n = l /\ l + n + 4 = l + 4
    BY <1>8 DEF ShiftedIn
  <2> QED
    BY <1>7, <1>8, <2>1
<1>9. CASE n = 1
  <2>1. ShiftedIn(d, n) = u /\ l + n = l + 1 /\ l + n + 4 = l + 5
    BY <1>9 DEF ShiftedIn, u
  <2> QED
    BY <1>1, <1>2, <1>6, <1>9, <2>1
<1>10. CASE n = 2
  <2>1. ShiftedIn(d, n) = t /\ l + n = (l + 1) + 1 /\ l + n + 4 = (l + 1) + 5
    BY <1>10 DEF ShiftedIn, u, t
  <2> QED
    BY <1>1, <1>4, <1>5, <1>6, <1>7, <1>10, <2>1
<1> QED
  BY <1>8, <1>9, <1>10

\* One interval of the table holds the base.
LEMMA HolderIs ==
  ASSUME NEW d, d.base \in Nat, d.range \in Nat, NEW cdf, IsTable(cdf), NEW data \in 0 .. Len(cdf) - 2,
         d.range * cdf[data + 1] <= d.base, d.base < d.range * cdf[data + 2]
  PROVE  Holder(d, cdf) = {data}
<1>1. /\ cdf \in Seq(Nat) /\ Len(cdf) \in Nat /\ data \in Nat
      /\ \A i, j \in 1 .. Len(cdf) : i < j => cdf[i] < cdf[j]
  BY DEF IsTable
<1>2. \A i \in 1 .. Len(cdf) : cdf[i] \in Nat /\ d.range * cdf[i] \in Nat
  BY <1>1, Products
<1>3. \A i, j \in 1 .. Len(cdf) : i <= j => d.range * cdf[i] <= d.range * cdf[j]
  <2> TAKE i, j \in 1 .. Len(cdf)
  <2> HAVE i <= j
  <2>1. i = j \/ i < j
    OBVIOUS
  <2>2. cdf[i] \in Nat /\ cdf[j] \in Nat
    BY <1>2
  <2>3. cdf[i] = cdf[j] \/ cdf[i] < cdf[j]
    BY <1>1, <2>1
  <2>4. cdf[i] <= cdf[j]
    BY <2>2, <2>3
  <2> QED
    BY <2>2, <2>4, Products
<1> DEFINE f[i \in 1 .. Len(cdf)] == d.range * cdf[i]
<1>4. \A i \in 1 .. Len(cdf) : f[i] = d.range * cdf[i]
  BY Zenon
<1>5. /\ \A i \in 1 .. Len(cdf) : f[i] \in Nat
      /\ \A i, j \in 1 .. Len(cdf) : i <= j => f[i] <= f[j]
  BY <1>2, <1>3, <1>4
<1>6. data + 1 \in 1 .. Len(cdf) /\ data + 2 \in 1 .. Len(cdf)
  BY <1>1
<1>7. f[data + 1] <= d.base /\ d.base < f[data + 2]
  BY <1>4, <1>6
<1>8. Holder(d, cdf) = {i \in 0 .. Len(cdf) - 2 : f[i + 1] <= d.base /\ d.base < f[i + 2]}
  <2>1. \A i \in 0 .. Len(cdf) - 2 : i + 1 \in 1 .. Len(cdf) /\ i + 2 \in 1 .. Len(cdf)
    BY <1>1
  <2>2. \A i \in 0 .. Len(cdf) - 2 : f[i + 1] = d.range * cdf[i + 1] /\ f[i + 2] = d.range * cdf[i + 2]
    BY <1>4, <2>1
  <2> HIDE DEF f
  <2> QED
    BY <2>2 DEF Holder
<1> HIDE DEF f
<1>9. \A i \in 0 .. Len(cdf) - 2 : f[i + 1] <= d.base /\ d.base < f[i + 2] => i = data
  <2> TAKE i \in 0 .. Len(cdf) - 2
  <2> HAVE f[i + 1] <= d.base /\ d.base < f[i + 2]
  <2>1. i \in Nat /\ i + 1 \in 1 .. Len(cdf) /\ i + 2 \in 1 .. Len(cdf)
    BY <1>1
  <2>2. ~(i < data)
    <3>1. i < data => i + 2 <= data + 1
      BY <1>1, <2>1
    <3>2. i < data => f[i + 2] <= f[data + 1]
      BY <1>5, <1>6, <2>1, <3>1
    <3>3. f[i + 2] \in Nat /\ f[data + 1] \in Nat
      BY <1>5, <1>6, <2>1
    <3> QED
      BY <1>7, <3>2, <3>3
  <2>3. ~(data < i)
    <3>1. data < i => data + 2 <= i + 1
      BY <1>1, <2>1
    <3>2. data < i => f[data + 2] <= f[i + 1]
      BY <1>5, <1>6, <2>1, <3>1
    <3>3. f[i + 1] \in Nat /\ f[data + 2] \in Nat
      BY <1>5, <1>6, <2>1
    <3> QED
      BY <1>7, <3>2, <3>3
  <2> QED
    BY <1>1, <2>1, <2>2, <2>3
<1> QED
  BY <1>7, <1>8, <1>9

\* The decoder is where the encoder was: it has what the stream is above the
\* lower limit.
Follows(d, s, e) ==
  /\ Reads(d, s, Len(e.buffer)) /\ d.error = "none" /\ d.range = e.range
  /\ Low(e) + d.base = Value(s)[Len(e.buffer) + 4]

\* The decoder reads the symbol, and has gone where the encoder went.
LEMMA DecodeStep ==
  ASSUME NEW s \in Streams, NEW e, EncOK(e), NEW cdf, IsTable(cdf), NEW data \in 0 .. Len(cdf) - 2,
         ~EncodeSymbol(e, cdf, data).error, Inside(s, EncodeSymbol(e, cdf, data)),
         NEW d, Follows(d, s, e)
  PROVE  LET r == DecodeSymbol(d, cdf)
         IN  /\ r.data = data
             /\ Follows(r.rc, s, EncodeSymbol(e, cdf, data))
             /\ r.rc.len = d.len /\ r.rc.memory = d.memory
<1> DEFINE g    == EncodeSymbol(e, cdf, data)
           low  == cdf[data + 1]
           high == cdf[data + 2]
           q    == e.range * (high - low)
           n    == Widened(q)
           part == e.range * low
           base == d.base - part
           l    == Len(e.buffer)
           v    == Value(s)[l + 4]
           c    == [d EXCEPT !.base = base, !.range = Narrowed(q)]
           t    == ShiftedIn(c, n)
<1>1. low \in Nat /\ high \in Nat /\ low < high /\ high <= RangeTop /\ RangeTop \in Nat
  BY IntervalOf, FourBytes
<1>2. e.range \in Nat /\ Byte <= e.range /\ e.range <= RangeTop /\ l \in Nat /\ Low(e) \in Nat
  BY EncOKIs
<1>3. d \in DecStates /\ Reads(d, s, l) /\ d.error = "none" /\ d.range = e.range /\ Low(e) + d.base = v
      /\ d.base \in Nat
  BY DEF Follows, Reads, DecStates
<1>4. g.range = Narrowed(q) /\ Len(g.buffer) = l + n /\ Low(g) = (Low(e) + part) * Bytes(n)
  BY EncodeStep
<1>5. v \in Nat /\ Low(e) + part <= v /\ v < Low(e) + e.range * high
  BY InsideBefore
<1>6. q \in Nat /\ n \in 0 .. 2 /\ (n > 0 => q < Bytes(4 - n)) /\ Narrowed(q) \in Nat
  <2> DEFINE w == high - low
  <2>1. w \in Nat /\ 1 <= w /\ w <= RangeTop
    BY <1>1
  <2> HIDE DEF w
  <2>2. /\ e.range * w \in Nat /\ Widened(e.range * w) \in 0 .. 2 /\ Narrowed(e.range * w) \in Nat
        /\ Widened(e.range * w) > 0 => e.range * w < Bytes(4 - Widened(e.range * w))
    BY <1>2, <2>1, NarrowedIs
  <2> QED
    BY <2>2 DEF w
<1>7. part \in Nat /\ e.range * high = part + q
  <2>1. high - low \in Nat /\ low + (high - low) = high
    BY <1>1
  <2>2. e.range * (low + (high - low)) = e.range * low + e.range * (high - low)
    BY <1>1, <1>2, <2>1, Products
  <2>3. e.range * low \in Nat
    BY <1>1, <1>2, Products
  <2> QED
    BY <2>1, <2>2, <2>3
<1> HIDE DEF g, part, v, l
<1>8. part <= d.base /\ d.base < part + q
  <2> DEFINE k == Low(e)
  <2>1. k \in Nat /\ k + d.base = v /\ k + part <= v /\ v < k + (part + q)
    BY <1>2, <1>3, <1>5, <1>7
  <2> HIDE DEF k, q
  <2> QED
    BY <1>3, <1>5, <1>6, <1>7, <2>1
<1>9. Holder(d, cdf) = {data}
  <2>1. d.range * cdf[data + 1] <= d.base /\ d.base < d.range * cdf[data + 2]
    BY <1>3, <1>7, <1>8 DEF part
  <2>2. d.range \in Nat
    BY <1>2, <1>3
  <2> QED
    BY <1>3, <2>1, <2>2, HolderIs
<1>10. base \in Nat /\ base < q /\ Low(e) + part \in Nat /\ (Low(e) + part) + base = v
  <2> DEFINE k == Low(e)
  <2>1. k \in Nat /\ k + d.base = v
    BY <1>2, <1>3
  <2> HIDE DEF k, q
  <2>2. base \in Nat /\ base < q /\ k + part \in Nat /\ (k + part) + base = v
    BY <1>3, <1>5, <1>6, <1>7, <1>8, <2>1
  <2> QED
    BY <2>2 DEF k
<1> HIDE DEF base
<1>11. ~(base >= Bytes(4 - n) /\ n > 0)
  <2> HIDE DEF q, n
  <2>1. n > 0 => 4 - n \in Nat
    BY <1>6
  <2>2. n > 0 => Bytes(4 - n) \in Nat
    BY <2>1, BytesPositive
  <2> QED
    BY <1>6, <1>10, <2>2
<1>12. DecodeSymbol(d, cdf) = [rc |-> t, data |-> data]
  <2>1. (CHOOSE i \in Holder(d, cdf) : TRUE) = data
    BY <1>9
  <2>2. Holder(d, cdf) # {}
    BY <1>9
  <2> QED
    BY <1>3, <1>11, <2>1, <2>2, Zenon DEF DecodeSymbol, ShiftedIn, base, part
<1>13. Reads(c, s, l) /\ c.base = base /\ c.range = Narrowed(q) /\ c.error = "none" /\ c.len = d.len
       /\ c.memory = d.memory
  <2> DEFINE range == Narrowed(q)
  <2>1. range \in Nat
    BY <1>6
  <2> HIDE DEF range
  <2>2. [d EXCEPT !.base = base, !.range = range] \in DecStates
    BY <1>3, <1>10, <2>1 DEF DecStates
  <2> DEFINE k == [d EXCEPT !.base = base, !.range = range]
  <2>3. k.base = base /\ k.range = range /\ k.error = "none" /\ k.len = d.len /\ k.memory = d.memory
        /\ k.ix = d.ix
    BY <1>3 DEF DecStates
  <2> HIDE DEF k
  <2>4. Reads(k, s, l)
    BY <1>3, <2>2, <2>3 DEF Reads, k
  <2> QED
    BY <2>3, <2>4 DEF k, range
<1> HIDE DEF c
<1>14. /\ Reads(t, s, l + n) /\ (Low(e) + part) * Bytes(n) + t.base = Value(s)[l + n + 4]
       /\ t.range = c.range /\ t.error = c.error /\ t.len = c.len /\ t.memory = c.memory
  <2> DEFINE k == Low(e) + part
  <2>1. k + c.base = Value(s)[l + 4]
    BY <1>10, <1>13 DEF v
  <2> HIDE DEF q, n
  <2>2. k \in Nat /\ l \in Nat /\ n \in 0 .. 2 /\ Reads(c, s, l)
    BY <1>2, <1>6, <1>10, <1>13
  <2> HIDE DEF k
  <2>3. /\ Reads(t, s, l + n) /\ k * Bytes(n) + t.base = Value(s)[l + n + 4]
        /\ t.range = c.range /\ t.error = c.error /\ t.len = c.len /\ t.memory = c.memory
    BY <2>1, <2>2, ShiftedInFollows, SMTT(60)
  <2> QED
    BY <2>3 DEF k
<1> HIDE DEF t, n, q
<1>15. Follows(t, s, g)
  <2>1. Reads(t, s, Len(g.buffer)) /\ t.error = "none" /\ t.range = g.range
        /\ Low(g) + t.base = Value(s)[Len(g.buffer) + 4]
    BY <1>4, <1>13, <1>14
  <2> QED
    BY <2>1, Zenon DEF Follows
<1>16. t.len = d.len /\ t.memory = d.memory
  BY <1>13, <1>14
<1> QED
  BY <1>12, <1>15, <1>16 DEF g

-----------------------------------------------------------------------------
(* Symbol after symbol *)

\* The encoder after each symbol.
LEMMA Encoding ==
  ASSUME NEW rc, NEW symbols, Len(symbols) \in Nat
  PROVE  \E at : /\ at[0] = rc
                 /\ \A k \in 1 .. Len(symbols) :
                      at[k] = EncodeSymbol(at[k - 1], symbols[k].cdf, symbols[k].data)
                 /\ EncodeSymbols(rc, symbols) = at[Len(symbols)]
<1> DEFINE n == Len(symbols)
           Step(g, i) == IF i = 0 THEN rc ELSE EncodeSymbol(g[i - 1], symbols[i].cdf, symbols[i].data)
           Encodes(g, k) == g = [i \in 0 .. k |-> Step(g, i)]
           K == {k \in Nat : \E g : Encodes(g, k)}
<1>1. 0 \in K
  <2> DEFINE g == [i \in 0 .. 0 |-> rc]
  <2>1. \A i \in 0 .. 0 : i = 0
    OBVIOUS
  <2>2. Encodes(g, 0)
    BY <2>1
  <2> QED
    BY <2>2
<1>2. ASSUME NEW k \in Nat, k \in K
      PROVE  k + 1 \in K
  <2>1. PICK g : Encodes(g, k)
    BY <1>2
  <2> DEFINE h == [i \in 0 .. k + 1 |-> Step(g, i)]
  <2>2. \A i \in 0 .. k + 1 : i # 0 => i - 1 \in 0 .. k
    OBVIOUS
  <2>3. \A i \in 0 .. k : h[i] = g[i]
    <3>1. \A i \in 0 .. k : i \in 0 .. k + 1
      OBVIOUS
    <3>2. \A i \in 0 .. k : g[i] = Step(g, i)
      BY <2>1, Zenon
    <3> QED
      BY <3>1, <3>2, Zenon
  <2>4. \A i \in 0 .. k + 1 : Step(g, i) = Step(h, i)
    BY <2>2, <2>3, Zenon
  <2>5. Encodes(h, k + 1)
    BY <2>4, Zenon
  <2> HIDE DEF h, Encodes
  <2> QED
    BY <2>5
<1>3. \A k \in Nat : k \in K
  <2> HIDE DEF K
  <2> QED
    BY <1>1, <1>2, Induction, Zenon
<1> DEFINE f == CHOOSE g : Encodes(g, n)
<1>4. Encodes(f, n)
  <2>1. \E g : Encodes(g, n)
    BY <1>3
  <2> HIDE DEF Encodes
  <2> QED
    BY <2>1, Zenon
<1>5. EncodeSymbols(rc, symbols) = f[n]
  BY Zenon DEF EncodeSymbols
<1> HIDE DEF f
<1>6. 0 \in 0 .. n /\ \A k \in 1 .. n : k \in 0 .. n /\ k # 0
  OBVIOUS
<1>7. f[0] = rc
  BY <1>4, <1>6, Zenon
<1>8. \A k \in 1 .. n : f[k] = EncodeSymbol(f[k - 1], symbols[k].cdf, symbols[k].data)
  BY <1>4, <1>6, Zenon
<1> QED
  BY <1>5, <1>7, <1>8, Zenon

\* The decoder after each symbol.
LEMMA Reading ==
  ASSUME NEW rc, NEW cdfs, Len(cdfs) \in Nat
  PROVE  \E at : /\ at[0] = Unread(rc)
                 /\ \A k \in 1 .. Len(cdfs) :
                      at[k] = Added(at[k - 1], DecodeSymbol(at[k - 1].rc, cdfs[k]))
                 /\ ReadEach(rc, cdfs) = at[Len(cdfs)]
<1> DEFINE n == Len(cdfs)
           Step(g, i) == IF i = 0 THEN Unread(rc) ELSE Added(g[i - 1], DecodeSymbol(g[i - 1].rc, cdfs[i]))
           Decodes(g, k) == g = [i \in 0 .. k |-> Step(g, i)]
           K == {k \in Nat : \E g : Decodes(g, k)}
<1>1. 0 \in K
  <2> DEFINE g == [i \in 0 .. 0 |-> Unread(rc)]
  <2>1. \A i \in 0 .. 0 : i = 0
    OBVIOUS
  <2>2. Decodes(g, 0)
    BY <2>1
  <2> QED
    BY <2>2
<1>2. ASSUME NEW k \in Nat, k \in K
      PROVE  k + 1 \in K
  <2>1. PICK g : Decodes(g, k)
    BY <1>2
  <2> DEFINE h == [i \in 0 .. k + 1 |-> Step(g, i)]
  <2>2. \A i \in 0 .. k + 1 : i # 0 => i - 1 \in 0 .. k
    OBVIOUS
  <2>3. \A i \in 0 .. k : h[i] = g[i]
    <3>1. \A i \in 0 .. k : i \in 0 .. k + 1
      OBVIOUS
    <3>2. \A i \in 0 .. k : g[i] = Step(g, i)
      BY <2>1, Zenon
    <3> QED
      BY <3>1, <3>2, Zenon
  <2>4. \A i \in 0 .. k + 1 : Step(g, i) = Step(h, i)
    BY <2>2, <2>3, Zenon
  <2>5. Decodes(h, k + 1)
    BY <2>4, Zenon
  <2> HIDE DEF h, Decodes
  <2> QED
    BY <2>5
<1>3. \A k \in Nat : k \in K
  <2> HIDE DEF K
  <2> QED
    BY <1>1, <1>2, Induction, Zenon
<1> DEFINE f == CHOOSE g : Decodes(g, n)
<1>4. Decodes(f, n)
  <2>1. \E g : Decodes(g, n)
    BY <1>3
  <2> HIDE DEF Decodes
  <2> QED
    BY <2>1, Zenon
<1>5. ReadEach(rc, cdfs) = f[n]
  BY Zenon DEF ReadEach
<1> HIDE DEF f
<1>6. 0 \in 0 .. n /\ \A k \in 1 .. n : k \in 0 .. n /\ k # 0
  OBVIOUS
<1>7. f[0] = Unread(rc)
  BY <1>4, <1>6, Zenon
<1>8. \A k \in 1 .. n : f[k] = Added(f[k - 1], DecodeSymbol(f[k - 1].rc, cdfs[k]))
  BY <1>4, <1>6, Zenon
<1> QED
  BY <1>5, <1>7, <1>8, Zenon

\* A symbol of a table.
IsSymbol(x) == IsTable(x.cdf) /\ x.data \in 0 .. Len(x.cdf) - 2

CdfsOf(symbols) == [i \in 1 .. Len(symbols) |-> symbols[i].cdf]
DataOf(symbols) == [i \in 1 .. Len(symbols) |-> symbols[i].data]

\* An encoder without an error has had none before.
LEMMA ErrorStays ==
  ASSUME NEW e, NEW cdf, NEW data, ~EncodeSymbol(e, cdf, data).error
  PROVE  ~e.error
<1>1. e.error => EncodeSymbol(e, cdf, data) = e
  BY Zenon DEF EncodeSymbol
<1> QED
  BY <1>1, Zenon

\* The encoder has kept its interval, after each symbol.
LEMMA EncodingOK ==
  ASSUME NEW Symbols, \A x \in Symbols : IsSymbol(x), NEW symbols \in Seq(Symbols),
         NEW rc, EncOK(rc), ~EncodeSymbols(rc, symbols).error
  PROVE  \E at : /\ at[0] = rc
                 /\ \A k \in 1 .. Len(symbols) :
                      at[k] = EncodeSymbol(at[k - 1], symbols[k].cdf, symbols[k].data)
                 /\ EncodeSymbols(rc, symbols) = at[Len(symbols)]
                 /\ \A k \in 0 .. Len(symbols) : EncOK(at[k]) /\ ~at[k].error
<1> DEFINE n == Len(symbols)
<1>1. n \in Nat /\ \A k \in 1 .. n : IsTable(symbols[k].cdf) /\ symbols[k].data \in 0 .. Len(symbols[k].cdf) - 2
  BY DEF IsSymbol
<1>2. PICK enc : /\ enc[0] = rc
                 /\ \A k \in 1 .. n : enc[k] = EncodeSymbol(enc[k - 1], symbols[k].cdf, symbols[k].data)
                 /\ EncodeSymbols(rc, symbols) = enc[n]
  <2>1. Len(symbols) \in Nat
    BY <1>1
  <2>2. \E at : /\ at[0] = rc
                /\ \A k \in 1 .. Len(symbols) :
                     at[k] = EncodeSymbol(at[k - 1], symbols[k].cdf, symbols[k].data)
                /\ EncodeSymbols(rc, symbols) = at[Len(symbols)]
    BY <2>1, Encoding
  <2> QED
    BY <2>2
<1> DEFINE Sound  == {i \in Nat : i <= n => ~enc[n - i].error}
           Proper == {i \in Nat : i <= n => EncOK(enc[i])}
<1> HIDE DEF n
<1>3. \A j \in Nat : j \in Sound
  <2>1. 0 \in Sound
    BY <1>1, <1>2
  <2>2. ASSUME NEW j \in Nat, j \in Sound
        PROVE  j + 1 \in Sound
    <3>1. CASE j + 1 <= n
      <4>1. n - j \in 1 .. n /\ (n - j) - 1 = n - (j + 1) /\ ~enc[n - j].error
        BY <1>1, <2>2, <3>1
      <4>2. enc[n - j] = EncodeSymbol(enc[n - (j + 1)], symbols[n - j].cdf, symbols[n - j].data)
        BY <1>2, <4>1
      <4>3. ~enc[n - (j + 1)].error
        BY <4>1, <4>2, ErrorStays, Zenon
      <4> QED
        BY <4>3
    <3> QED
      BY <3>1
  <2> HIDE DEF Sound
  <2> QED
    BY <2>1, <2>2, Induction, Zenon
<1>4. \A k \in 0 .. n : ~enc[k].error
  <2> TAKE k \in 0 .. n
  <2>1. n - k \in Nat /\ n - k <= n /\ n - (n - k) = k
    BY <1>1
  <2> QED
    BY <1>3, <2>1
<1>5. \A k \in Nat : k \in Proper
  <2>1. 0 \in Proper
    BY <1>2
  <2>2. ASSUME NEW k \in Nat, k \in Proper
        PROVE  k + 1 \in Proper
    <3>1. CASE k + 1 <= n
      <4>1. k + 1 \in 1 .. n /\ k + 1 \in 0 .. n /\ (k + 1) - 1 = k /\ EncOK(enc[k])
        BY <1>1, <2>2, <3>1
      <4>2. enc[k + 1] = EncodeSymbol(enc[k], symbols[k + 1].cdf, symbols[k + 1].data)
        BY <1>2, <4>1
      <4>3. EncOK(enc[k + 1])
        <5>1. ~enc[k + 1].error /\ IsTable(symbols[k + 1].cdf)
              /\ symbols[k + 1].data \in 0 .. Len(symbols[k + 1].cdf) - 2
          BY <1>1, <1>4, <4>1
        <5> DEFINE x == symbols[k + 1]
                   e == enc[k]
        <5>2. ~EncodeSymbol(e, x.cdf, x.data).error /\ EncOK(e)
          BY <4>1, <4>2, <5>1
        <5> HIDE DEF x, e
        <5>3. EncOK(EncodeSymbol(e, x.cdf, x.data))
          BY <5>1, <5>2, EncodeStep DEF x
        <5> QED
          BY <4>2, <5>3 DEF x, e
      <4> QED
        BY <4>3
    <3> QED
      BY <3>1
  <2> HIDE DEF Proper
  <2> QED
    BY <2>1, <2>2, Induction, Zenon
<1>6. \A k \in 0 .. n : EncOK(enc[k])
  BY <1>1, <1>5
<1> QED
  BY <1>2, <1>4, <1>6, Zenon DEF n

\* Whatever the stream, if it ends in the interval of the encoder, then the
\* decoder reads from it what was encoded.
LEMMA InsideReadsBack ==
  ASSUME NEW Symbols, \A x \in Symbols : IsSymbol(x), NEW symbols \in Seq(Symbols),
         NEW rc, EncOK(rc), ~EncodeSymbols(rc, symbols).error,
         NEW s \in Streams, Inside(s, EncodeSymbols(rc, symbols)),
         NEW d, Follows(d, s, rc)
  PROVE  LET e == EncodeSymbols(rc, symbols)
             r == ReadEach(d, CdfsOf(symbols))
         IN  /\ EncOK(e)
             /\ r.data = DataOf(symbols)
             /\ Follows(r.rc, s, e)
             /\ r.rc.len = d.len /\ r.rc.memory = d.memory
<1> DEFINE n    == Len(symbols)
           cdfs == CdfsOf(symbols)
<1>1. n \in Nat /\ \A k \in 1 .. n : IsTable(symbols[k].cdf) /\ symbols[k].data \in 0 .. Len(symbols[k].cdf) - 2
  BY DEF IsSymbol
<1>2. Len(cdfs) = n /\ \A k \in 1 .. n : cdfs[k] = symbols[k].cdf
  <2>1. cdfs = [k \in 1 .. n |-> symbols[k].cdf]
    BY DEF CdfsOf
  <2> QED
    BY <1>1, <2>1
<1> HIDE DEF cdfs
<1>3. PICK enc : /\ enc[0] = rc
                 /\ \A k \in 1 .. n : enc[k] = EncodeSymbol(enc[k - 1], symbols[k].cdf, symbols[k].data)
                 /\ EncodeSymbols(rc, symbols) = enc[n]
                 /\ \A k \in 0 .. n : EncOK(enc[k]) /\ ~enc[k].error
  BY EncodingOK
<1>4. PICK dec : /\ dec[0] = Unread(d)
                 /\ \A k \in 1 .. n : dec[k] = Added(dec[k - 1], DecodeSymbol(dec[k - 1].rc, cdfs[k]))
                 /\ ReadEach(d, cdfs) = dec[n]
  <2>1. Len(cdfs) \in Nat
    BY <1>1, <1>2
  <2>2. \E at : /\ at[0] = Unread(d)
                /\ \A k \in 1 .. Len(cdfs) : at[k] = Added(at[k - 1], DecodeSymbol(at[k - 1].rc, cdfs[k]))
                /\ ReadEach(d, cdfs) = at[Len(cdfs)]
    BY <2>1, Reading, Zenon
  <2> QED
    BY <1>2, <2>2
<1> DEFINE Contains == {i \in Nat : i <= n => Inside(s, enc[n - i])}
           ReadSoFar(k) == /\ dec[k].data = [i \in 1 .. k |-> symbols[i].data]
                           /\ Follows(dec[k].rc, s, enc[k])
                           /\ dec[k].rc.len = d.len /\ dec[k].rc.memory = d.memory
           Readable == {i \in Nat : i <= n => ReadSoFar(i)}
<1> HIDE DEF n
<1>5. \A j \in Nat : j \in Contains
  <2>1. 0 \in Contains
    BY <1>1, <1>3
  <2>2. ASSUME NEW j \in Nat, j \in Contains
        PROVE  j + 1 \in Contains
    <3>1. CASE j + 1 <= n
      <4>1. n - j \in 1 .. n /\ n - j \in 0 .. n /\ n - (j + 1) \in 0 .. n /\ (n - j) - 1 = n - (j + 1)
            /\ Inside(s, enc[n - j])
        BY <1>1, <2>2, <3>1
      <4>2. enc[n - j] = EncodeSymbol(enc[n - (j + 1)], symbols[n - j].cdf, symbols[n - j].data)
        BY <1>3, <4>1
      <4>3. EncOK(enc[n - (j + 1)]) /\ ~enc[n - j].error
        BY <1>3, <4>1
      <4>4. Inside(s, enc[n - (j + 1)])
        <5>1. IsTable(symbols[n - j].cdf) /\ symbols[n - j].data \in 0 .. Len(symbols[n - j].cdf) - 2
          BY <1>1, <4>1
        <5> DEFINE x == symbols[n - j]
                   e == enc[n - (j + 1)]
        <5>2. EncOK(e) /\ ~EncodeSymbol(e, x.cdf, x.data).error /\ Inside(s, EncodeSymbol(e, x.cdf, x.data))
          BY <4>1, <4>2, <4>3
        <5> HIDE DEF x, e
        <5>3. Inside(s, e)
          BY <5>1, <5>2, InsideBefore DEF x
        <5> QED
          BY <5>3 DEF e
      <4> QED
        BY <4>4
    <3> QED
      BY <3>1
  <2> HIDE DEF Contains
  <2> QED
    BY <2>1, <2>2, Induction, Zenon
<1>6. \A k \in 0 .. n : Inside(s, enc[k])
  <2> TAKE k \in 0 .. n
  <2>1. n - k \in Nat /\ n - k <= n /\ n - (n - k) = k
    BY <1>1
  <2> QED
    BY <1>5, <2>1
<1>7. \A k \in Nat : k \in Readable
  <2>1. 0 \in Readable
    <3>1. dec[0].data = <<>> /\ dec[0].rc = d
      BY <1>4 DEF Unread
    <3>2. [i \in 1 .. 0 |-> symbols[i].data] = <<>>
      OBVIOUS
    <3> QED
      BY <1>3, <3>1, <3>2
  <2>2. ASSUME NEW k \in Nat, k \in Readable
        PROVE  k + 1 \in Readable
    <3>1. CASE k + 1 <= n
      <4> DEFINE a == dec[k]
                 b == DecodeSymbol(a.rc, cdfs[k + 1])
      <4>1. k + 1 \in 1 .. n /\ k + 1 \in 0 .. n /\ k \in 0 .. n /\ (k + 1) - 1 = k /\ ReadSoFar(k)
        BY <1>1, <2>2, <3>1
      <4>2. enc[k + 1] = EncodeSymbol(enc[k], symbols[k + 1].cdf, symbols[k + 1].data)
        BY <1>3, <4>1
      <4>3. dec[k + 1] = Added(a, b) /\ cdfs[k + 1] = symbols[k + 1].cdf
        BY <1>2, <1>4, <4>1
      <4>4. /\ EncOK(enc[k]) /\ ~enc[k + 1].error /\ Inside(s, enc[k + 1]) /\ Follows(a.rc, s, enc[k])
            /\ IsTable(symbols[k + 1].cdf) /\ symbols[k + 1].data \in 0 .. Len(symbols[k + 1].cdf) - 2
        BY <1>1, <1>3, <1>6, <4>1
      <4>5. b.data = symbols[k + 1].data /\ Follows(b.rc, s, enc[k + 1]) /\ b.rc.len = a.rc.len
            /\ b.rc.memory = a.rc.memory
        BY <4>2, <4>3, <4>4, DecodeStep
      <4> HIDE DEF b
      <4>6. dec[k + 1].rc = b.rc /\ dec[k + 1].data = Append(a.data, b.data)
        BY <4>3 DEF Added
      <4>7. Append(a.data, b.data) = [i \in 1 .. k + 1 |-> symbols[i].data]
        <5> DEFINE w == [i \in 1 .. k |-> symbols[i].data]
                   x == symbols[k + 1].data
        <5>1. a.data = w /\ b.data = x
          BY <4>1, <4>5
        <5>2. Len(w) = k /\ DOMAIN w = 1 .. k /\ \A i \in 1 .. k : w[i] = symbols[i].data
          OBVIOUS
        <5> HIDE DEF w
        <5>3. Append(w, x) = [i \in 1 .. k + 1 |-> IF i = k + 1 THEN x ELSE w[i]]
          <6>1. w \in Seq(Nat) /\ x \in Nat
            <7>1. \A i \in 1 .. k + 1 : symbols[i].data \in Nat
              <8>1. \A i \in 1 .. k + 1 : i \in 1 .. n
                BY <1>1, <3>1
              <8> QED
                BY <1>1, <8>1
            <7>2. \A i \in 1 .. k : w[i] \in Nat
              BY <5>2, <7>1
            <7>3. w \in [1 .. k -> Nat]
              BY <7>2 DEF w
            <7> QED
              BY <7>1, <7>3
          <6> HIDE DEF x
          <6> DEFINE y == Append(w, x)
                     z == [i \in 1 .. k + 1 |-> IF i = k + 1 THEN x ELSE w[i]]
          <6>2. /\ y \in Seq(Nat) /\ Len(y) = k + 1 /\ y[k + 1] = x
                /\ \A i \in 1 .. k : y[i] = w[i]
            BY <5>2, <6>1, AppendProperties
          <6> HIDE DEF y
          <6>3. DOMAIN y = 1 .. k + 1 /\ y = [i \in DOMAIN y |-> y[i]]
            BY <6>2
          <6>4. \A i \in 1 .. k + 1 : y[i] = IF i = k + 1 THEN x ELSE w[i]
            BY <6>2
          <6>5. y = z
            BY <6>3, <6>4
          <6> QED
            BY <6>5 DEF y
        <5>4. \A i \in 1 .. k + 1 : (IF i = k + 1 THEN x ELSE w[i]) = symbols[i].data
          BY <5>2
        <5> QED
          BY <5>1, <5>3, <5>4
      <4>8. ReadSoFar(k + 1)
        BY <4>1, <4>5, <4>6, <4>7
      <4> QED
        BY <4>8
    <3> QED
      BY <3>1
  <2> HIDE DEF Readable
  <2> QED
    BY <2>1, <2>2, Induction, Zenon
<1>8. ReadSoFar(n) /\ EncOK(enc[n])
  BY <1>1, <1>3, <1>7
<1> QED
  BY <1>3, <1>4, <1>8, Zenon DEF n, cdfs, DataOf

-----------------------------------------------------------------------------
(* The end of the stream *)

LEMMA LeadingZerosIs ==
  ASSUME NEW x \in Nat, x > 0, x < Two[2 * ByteBits]
  PROVE  /\ LeadingZeros(x) \in 0 .. 2 * ByteBits - 1
         /\ x < Two[2 * ByteBits - LeadingZeros(x)] /\ Two[2 * ByteBits - LeadingZeros(x) - 1] <= x
<1> DEFINE w == 2 * ByteBits
           Fits(z) == x < Two[w - z] /\ (z < w => x >= Two[w - z - 1])
<1>1. w \in Nat
  BY CoderAssumption
<1>2. Two[0] = 1 /\ \A n \in Nat : Two[n] \in Nat
  BY TwoIs
<1> DEFINE T == {n \in Nat : x < Two[n]}
<1>3. PICK n \in T : \A k \in T : n <= k
  <2>1. w \in T
    BY <1>1
  <2> HIDE DEF T
  <2>2. T # {} /\ T \in SUBSET Nat
    BY <2>1 DEF T
  <2> QED
    BY <2>2, LeastNumber
<1> HIDE DEF w
<1>4. n \in Nat /\ x < Two[n] /\ n <= w /\ n # 0
  <2>1. w \in T
    BY <1>1 DEF w
  <2>2. n \in Nat /\ x < Two[n] /\ n <= w
    BY <1>3, <2>1
  <2> QED
    BY <1>2, <2>2
<1>5. n - 1 \in Nat /\ Two[n - 1] <= x
  <2>1. n - 1 \in Nat /\ ~(n <= n - 1)
    BY <1>4
  <2>2. n - 1 \notin T
    BY <1>3, <2>1
  <2> QED
    BY <1>2, <2>1, <2>2
<1>6. \E z \in 0 .. w : Fits(z)
  <2>1. w - n \in 0 .. w /\ w - (w - n) = n /\ (w - (w - n)) - 1 = n - 1
    BY <1>1, <1>4
  <2>2. Fits(w - n)
    BY <1>4, <1>5, <2>1
  <2> QED
    BY <2>1, <2>2
<1>7. LeadingZeros(x) = CHOOSE z \in 0 .. w : Fits(z)
  BY DEF LeadingZeros, w
<1>8. LeadingZeros(x) \in 0 .. w /\ Fits(LeadingZeros(x))
  <2> HIDE DEF Fits
  <2> QED
    BY <1>6, <1>7, Zenon
<1>9. LeadingZeros(x) < w
  <2>1. LeadingZeros(x) = w => x < Two[0]
    BY <1>1, <1>8
  <2>2. LeadingZeros(x) # w
    BY <1>2, <2>1
  <2> QED
    BY <1>1, <1>8, <2>2
<1> QED
  BY <1>1, <1>8, <1>9 DEF w

\* Bits that Finish writes behind the buffer, the bytes they take, and the
\* bits of the last one that are left over.
ToStore(e) == LeadingZeros(e.range - 1) + 2
TailSize(e) == IF ToStore(e) > ByteBits THEN 2 ELSE 1
Gap(e)     == TailSize(e) * ByteBits - ToStore(e)

LEMMA TailIs ==
  ASSUME NEW e, EncOK(e)
  PROVE  /\ ToStore(e) \in 2 .. 2 * ByteBits /\ TailSize(e) \in 1 .. 2 /\ Gap(e) \in 0 .. ByteBits - 1
         /\ Two[2 * ByteBits + 1 - ToStore(e)] < e.range
<1> DEFINE x == e.range - 1
           z == LeadingZeros(x)
<1>1. e.range \in Nat /\ Byte <= e.range /\ e.range <= RangeTop /\ Byte >= 4 /\ Byte \in Nat
  BY EncOKIs, ByteIs
<1>2. ByteBits \in Nat /\ ByteBits >= 2 /\ 2 * ByteBits \in Nat
  BY CoderAssumption
<1>3. Two[2 * ByteBits] \in Nat /\ RangeTop = Two[2 * ByteBits] - 1
  BY <1>2, TwoIs DEF RangeTop, Bytes
<1>4. x \in Nat /\ x > 0 /\ x < Two[2 * ByteBits]
  BY <1>1, <1>3
<1> HIDE DEF x
<1>5. z \in 0 .. 2 * ByteBits - 1 /\ x < Two[2 * ByteBits - z] /\ Two[2 * ByteBits - z - 1] <= x
  BY <1>4, LeadingZerosIs
<1>6. z <= ByteBits
  <2> DEFINE k == 2 * ByteBits - z
             m == ByteBits - 1
  <2>1. k \in Nat /\ m \in Nat /\ m + 1 = ByteBits
    BY <1>2, <1>5
  <2> HIDE DEF k, m
  <2>2. Byte = 2 * Two[m] /\ Two[m] \in Nat /\ Two[k] \in Nat
    <3>1. Byte = Two[ByteBits]
      BY <1>2 DEF Byte, Bytes
    <3> QED
      BY <2>1, <3>1, TwoIs
  <2>3. x = e.range - 1 /\ x < Two[k]
    BY <1>5 DEF x, k
  <2>4. ~(Two[k] <= Two[m])
    BY <1>1, <2>2, <2>3
  <2>5. ~(k <= m)
    BY <2>1, <2>4, TwoMonotone
  <2> QED
    BY <1>2, <1>5, <2>5 DEF k, m
<1>7. ToStore(e) = z + 2
  BY DEF ToStore, x
<1> HIDE DEF z
<1>8. ToStore(e) \in 2 .. 2 * ByteBits /\ 2 * ByteBits + 1 - ToStore(e) = 2 * ByteBits - z - 1
  BY <1>2, <1>5, <1>6, <1>7
<1>9. TailSize(e) \in 1 .. 2 /\ Gap(e) \in 0 .. ByteBits - 1
  <2>1. CASE ToStore(e) > ByteBits
    <3>1. TailSize(e) = 2
      BY <2>1 DEF TailSize
    <3> QED
      BY <1>2, <1>8, <2>1, <3>1 DEF Gap
  <2>2. CASE ~(ToStore(e) > ByteBits)
    <3>1. TailSize(e) = 1
      BY <2>2 DEF TailSize
    <3> QED
      BY <1>2, <1>8, <2>2, <3>1 DEF Gap
  <2> QED
    BY <2>1, <2>2
<1>10. Two[2 * ByteBits + 1 - ToStore(e)] < e.range
  <2>1. 2 * ByteBits - z - 1 \in Nat
    BY <1>2, <1>5
  <2>2. Two[2 * ByteBits - z - 1] \in Nat
    BY <2>1, TwoIs
  <2>3. x = e.range - 1
    BY DEF x
  <2> QED
    BY <1>1, <1>5, <1>8, <2>2, <2>3
<1> QED
  BY <1>8, <1>9, <1>10

\* The bytes of the stream, and the ones that fill the last.
LEMMA StreamLength ==
  ASSUME NEW e, EncOK(e)
  PROVE  LET nBits == NBits(Len(e.buffer), e.range)
         IN  /\ nBits = Len(e.buffer) * ByteBits + ToStore(e)
             /\ NBytes(Len(e.buffer), e.range) = Len(e.buffer) + TailSize(e)
             /\ (IF nBits % ByteBits = 0 THEN 0 ELSE Two[ByteBits - (nBits % ByteBits)] - 1) = Two[Gap(e)] - 1
<1> DEFINE l     == Len(e.buffer)
           t     == ToStore(e)
           m     == ByteBits
           nBits == NBits(l, e.range)
<1>1. l \in Nat /\ m \in Nat /\ m >= 2
  BY EncOKIs, CoderAssumption
<1>2. t \in 2 .. 2 * m /\ TailSize(e) = (IF t > m THEN 2 ELSE 1) /\ Gap(e) = TailSize(e) * m - t
  BY TailIs DEF TailSize, Gap
<1>3. nBits = l * m + t
  <2> DEFINE z == LeadingZeros(e.range - 1)
             k == l * m
  <2>1. nBits = k + z + 2 /\ t = z + 2
    BY DEF NBits, ToStore
  <2>2. k \in Nat
    BY <1>1, Products
  <2>3. z \in Nat
    <3> DEFINE x == e.range - 1
    <3>1. e.range \in Nat /\ Byte <= e.range /\ e.range <= RangeTop /\ Byte >= 4 /\ Byte \in Nat
      BY EncOKIs, ByteIs
    <3>2. Two[2 * ByteBits] \in Nat /\ RangeTop = Two[2 * ByteBits] - 1
      <4>1. 2 * ByteBits \in Nat
        BY <1>1
      <4> QED
        BY <4>1, TwoIs DEF RangeTop, Bytes
    <3>3. x \in Nat /\ x > 0 /\ x < Two[2 * ByteBits]
      BY <3>1, <3>2
    <3> HIDE DEF x
    <3>4. LeadingZeros(x) \in 0 .. 2 * ByteBits - 1
      BY <3>3, LeadingZerosIs
    <3> QED
      BY <1>1, <3>4 DEF x
  <2> HIDE DEF z, k, t, nBits
  <2>4. nBits = k + t
    BY <2>1, <2>2, <2>3
  <2> QED
    BY <2>4 DEF k
<1> HIDE DEF nBits, t
<1> DEFINE k == l * m
<1>4. k \in Nat /\ (l + 1) * m = k + m /\ (l + 2) * m = k + m + m /\ k = m * l /\ k + m = m * (l + 1)
      /\ k + m + m = m * (l + 2)
  <2>1. l * m \in Nat
    BY <1>1, Products
  <2> QED
    BY <1>1, <2>1
<1> HIDE DEF k, m
<1>5. NBytes(l, e.range) = (nBits + m - 1) \div m /\ nBits = k + t /\ nBits \in Nat
  <2>1. NBytes(l, e.range) = (nBits + m - 1) \div m
    BY DEF NBytes, nBits, m
  <2> QED
    BY <1>1, <1>2, <1>3, <1>4, <2>1 DEF k
<1>6. CASE t > m
  <2>1. TailSize(e) = 2 /\ Gap(e) = 2 * m - t
    BY <1>2, <1>6
  <2> DEFINE a == nBits + m - 1
             r == t - m - 1
  <2>2. a \in Nat /\ r \in Nat /\ r < m /\ a = m * (l + 2) + r /\ m > 0 /\ l + 2 \in Nat
    BY <1>1, <1>2, <1>4, <1>5, <1>6
  <2> HIDE DEF a, r
  <2>3. a \div m = l + 2
    BY <1>1, <2>2, QuotientIs
  <2>4. NBytes(l, e.range) = l + TailSize(e)
    BY <1>5, <2>1, <2>3 DEF a
  <2>5. CASE t = 2 * m
    <3> DEFINE y == m * (l + 2)
    <3>1. nBits = y + 0 /\ 0 < m /\ l + 2 \in Nat
      <4>1. y = k + m + m
        BY <1>4
      <4> HIDE DEF y
      <4>2. k \in Nat /\ m \in Nat /\ nBits = k + t /\ t = m + m
        <5>1. m \in Nat /\ k \in Nat /\ nBits = k + t
          BY <1>1, <1>4, <1>5
        <5>2. t = m + m
          BY <2>5, <5>1
        <5> QED
          BY <5>1, <5>2
      <4>3. nBits = y + 0
        BY <4>1, <4>2
      <4>4. 0 < m /\ l + 2 \in Nat
        BY <1>1
      <4> QED
        BY <4>3, <4>4
    <3>2. nBits % m = 0
      BY <1>1, <1>5, <3>1, QuotientIs
    <3>3. Gap(e) = 0
      BY <1>1, <2>1, <2>5
    <3> QED
      BY <1>3, <2>4, <3>2, <3>3, TwoIs DEF l, m, t, nBits
  <2>6. CASE t # 2 * m
    <3> DEFINE w == t - m
    <3>1. nBits = m * (l + 1) + w /\ w < m /\ l + 1 \in Nat /\ w \in Nat /\ w # 0 /\ m > 0
      BY <1>1, <1>2, <1>4, <1>5, <1>6, <2>6
    <3> HIDE DEF w
    <3>2. nBits % m = w
      BY <1>1, <1>5, <3>1, QuotientIs
    <3>3. Gap(e) = m - w
      BY <1>1, <1>2, <2>1 DEF w
    <3> QED
      BY <1>3, <2>4, <3>1, <3>2, <3>3 DEF l, m, t, nBits
  <2> QED
    BY <2>5, <2>6
<1>7. CASE ~(t > m)
  <2>1. TailSize(e) = 1 /\ Gap(e) = m - t
    BY <1>1, <1>2, <1>7
  <2> DEFINE a == nBits + m - 1
             r == t - 1
  <2>2. a \in Nat /\ r \in Nat /\ r < m /\ a = m * (l + 1) + r /\ m > 0 /\ l + 1 \in Nat
    BY <1>1, <1>2, <1>4, <1>5, <1>7
  <2> HIDE DEF a, r
  <2>3. a \div m = l + 1
    BY <1>1, <2>2, QuotientIs
  <2>4. NBytes(l, e.range) = l + TailSize(e)
    BY <1>5, <2>1, <2>3 DEF a
  <2>5. CASE t = m
    <3>1. nBits = m * (l + 1) + 0 /\ 0 < m /\ l + 1 \in Nat
      BY <1>1, <1>4, <1>5, <2>5
    <3>2. nBits % m = 0
      BY <1>1, <1>5, <3>1, QuotientIs
    <3>3. Gap(e) = 0
      BY <1>1, <2>1, <2>5
    <3> QED
      BY <1>3, <2>4, <3>2, <3>3, TwoIs DEF l, m, t, nBits
  <2>6. CASE t # m
    <3>1. nBits = m * l + t /\ t < m /\ t \in Nat /\ t # 0 /\ m > 0
      BY <1>1, <1>2, <1>4, <1>5, <1>7, <2>6
    <3>2. nBits % m = t
      BY <1>1, <1>5, <3>1, QuotientIs
    <3> QED
      BY <1>3, <2>1, <2>4, <3>1, <3>2 DEF l, m, t, nBits
  <2> QED
    BY <2>5, <2>6
<1> QED
  BY <1>6, <1>7

LEMMA StrictProduct ==
  ASSUME NEW x \in Nat, NEW y \in Nat, NEW z \in Nat, x < y, z > 0
  PROVE  z * x < z * y
<1>1. x + 1 <= y
  OBVIOUS
<1>2. z * (x + 1) <= z * y /\ z * (x + 1) = z * x + z * 1 /\ z * 1 = z
  BY <1>1, Products
<1>3. z * x \in Nat /\ z * y \in Nat
  BY Products
<1> QED
  BY <1>2, <1>3

\* The rest of a multiple.
LEMMA MultipleRest ==
  ASSUME NEW u \in Nat, u > 0, NEW m \in Nat, NEW v \in Nat, v > 0
  PROVE  m % v \in Nat /\ m % v < v /\ (u * m) % (u * v) = u * (m % v)
<1> DEFINE k == m \div v
           r == m % v
           w == u * v
<1>1. k \in Nat /\ r \in Nat /\ r < v /\ m = v * k + r
  BY Quotient
<1> HIDE DEF k, r
<1>2. w \in Nat /\ u * m \in Nat /\ u * r \in Nat /\ v * k \in Nat
  BY <1>1, Products
<1>3. u * m = w * k + u * r
  <2>1. u * (v * k + r) = u * (v * k) + u * r
    BY <1>1, <1>2, Products
  <2>2. u * (v * k) = (u * v) * k
    BY <1>1
  <2> QED
    BY <1>1, <2>1, <2>2
<1>4. u * r < w
  BY <1>1, StrictProduct
<1>5. w > 0
  BY <1>2, <1>4
<1> HIDE DEF w
<1>6. (u * m) % w = u * r
  <2> DEFINE a == u * m
             b == u * r
  <2>1. a \in Nat /\ b \in Nat /\ b < w /\ a = w * k + b
    BY <1>2, <1>3, <1>4
  <2> HIDE DEF a, b
  <2>2. a % w = b
    BY <1>1, <1>2, <1>5, <2>1, QuotientIs
  <2> QED
    BY <2>2 DEF a, b
<1> QED
  BY <1>1, <1>6 DEF r, w

\* A byte of the base is the same byte of its upper three.
LEMMA UpperByte ==
  ASSUME NEW g \in Nat, NEW i \in 1 .. 2
  PROVE  (((g * Byte) % Bytes(4)) \div Bytes(4 - i)) % Byte = (g \div Bytes(3 - i)) % Byte
<1> DEFINE h   == Bytes(3 - i)
           sum == g * Byte
           c   == sum \div Bytes(4)
           x   == sum % Bytes(4)
           p   == Bytes(4 - i)
           k   == Bytes(i - 1)
           y   == x \div p
           r   == x % p
<1>1. 3 - i \in Nat /\ 4 - i \in Nat /\ i - 1 \in Nat /\ i \in Nat /\ 4 - i = (3 - i) + 1 /\ i = (i - 1) + 1
      /\ i \in 0 .. 4
  OBVIOUS
<1>2. h \in Nat /\ h > 0 /\ p \in Nat /\ p > 0 /\ k \in Nat /\ k > 0 /\ Byte \in Nat /\ Byte > 0
      /\ Bytes(4) \in Nat /\ Bytes(4) > 0
  BY <1>1, BytesPositive, ByteIs
<1>3. p = h * Byte /\ Bytes(i) = k * Byte /\ Bytes(4) = Bytes(i) * p
  <2>1. Bytes((3 - i) + 1) = Bytes(3 - i) * Bytes(1) /\ Bytes((i - 1) + 1) = Bytes(i - 1) * Bytes(1)
    BY <1>1, BytesSum
  <2>2. Bytes(4 - i) = Bytes((3 - i) + 1) /\ Bytes(i) = Bytes((i - 1) + 1)
    BY <1>1, Zenon
  <2>3. Bytes(4) = Bytes(i) * Bytes(4 - i)
    BY <1>1, FourBytes
  <2> QED
    BY <2>1, <2>2, <2>3, ByteIs, Zenon
<1>4. sum \in Nat
  BY <1>2, Products
<1> HIDE DEF h, k, sum, p
<1>5. c \in Nat /\ x \in Nat /\ sum = Bytes(4) * c + x
  BY <1>2, <1>4, Quotient
<1> HIDE DEF c, x
<1>6. y \in Nat /\ r \in Nat /\ r < p /\ x = p * y + r
  BY <1>2, <1>5, Quotient
<1> HIDE DEF y, r
<1> DEFINE z == Bytes(i) * c
           t == k * c
<1>7. z \in Nat /\ t \in Nat /\ z = Byte * t /\ Bytes(i) \in Nat
  <2>1. k * c \in Nat /\ Bytes(i) \in Nat
    BY <1>1, <1>2, <1>5, Products, BytesPositive
  <2>2. (k * Byte) * c = Byte * (k * c)
    BY <1>2, <1>5
  <2>3. Byte * (k * c) \in Nat
    BY <1>2, <2>1, Products
  <2> QED
    BY <1>3, <2>1, <2>2, <2>3
<1>8. sum = p * (z + y) + r
  <2>1. Bytes(4) * c = p * z
    BY <1>2, <1>3, <1>5, <1>7
  <2>2. p * (z + y) = p * z + p * y /\ p * z \in Nat /\ p * y \in Nat
    BY <1>2, <1>6, <1>7, Products
  <2> QED
    BY <1>5, <1>6, <2>1, <2>2
<1> HIDE DEF z, t
<1>9. sum \div p = z + y
  <2>1. z + y \in Nat
    BY <1>6, <1>7
  <2> QED
    BY <1>2, <1>4, <1>6, <1>8, <2>1, QuotientIs
<1>10. sum \div p = g \div h
  <2> DEFINE q == g \div h
             f == g % h
  <2>1. q \in Nat /\ f \in Nat /\ f < h /\ g = h * q + f
    BY <1>2, Quotient
  <2> HIDE DEF q, f
  <2>2. g * Byte = (h * Byte) * q + f * Byte
    <3>1. (h * q + f) * Byte = (h * q) * Byte + f * Byte
      <4>1. h * q \in Nat
        BY <1>2, <2>1, Products
      <4> QED
        BY <1>2, <2>1, <4>1, Products
    <3>2. (h * q) * Byte = (h * Byte) * q
      BY <1>2, <2>1
    <3> QED
      BY <2>1, <3>1, <3>2
  <2> DEFINE b == f * Byte
  <2>3. b < p /\ b \in Nat
    <3>1. Byte * f < Byte * h
      BY <1>2, <2>1, StrictProduct
    <3>2. Byte * f = f * Byte /\ Byte * h = h * Byte /\ f * Byte \in Nat
      BY <1>2, <2>1, Products
    <3> QED
      BY <1>3, <3>1, <3>2
  <2> HIDE DEF b
  <2>4. sum = p * q + b
    BY <1>3, <2>2 DEF sum, b
  <2>5. sum \div p = q
    BY <1>2, <1>4, <2>1, <2>3, <2>4, QuotientIs
  <2> QED
    BY <2>5 DEF q
<1>11. (z + y) % Byte = y % Byte
  <2> DEFINE q == y \div Byte
             f == y % Byte
  <2>1. q \in Nat /\ f \in Nat /\ f < Byte /\ y = Byte * q + f
    BY <1>2, <1>6, Quotient
  <2> HIDE DEF q, f
  <2>2. z + y = Byte * (t + q) + f
    <3>1. Byte * (t + q) = Byte * t + Byte * q /\ Byte * t \in Nat /\ Byte * q \in Nat
      BY <1>2, <1>7, <2>1, Products
    <3> QED
      BY <1>7, <2>1, <3>1
  <2>3. t + q \in Nat /\ z + y \in Nat
    BY <1>6, <1>7, <2>1
  <2> DEFINE a == z + y
  <2> HIDE DEF a
  <2>4. a % Byte = f
    <3>1. a \in Nat /\ a = Byte * (t + q) + f
      BY <2>2, <2>3 DEF a
    <3> QED
      BY <1>2, <2>1, <2>3, <3>1, QuotientIs
  <2> QED
    BY <2>4 DEF a, f
<1>12. (g \div h) % Byte = y % Byte
  BY <1>9, <1>10, <1>11
<1> QED
  BY <1>12 DEF y, x, sum, h, p

\* What Finish rounds to, and the base of what it rounds up.
LastUnit(e) == Two[3 * ByteBits - ToStore(e)]

Rounded(e) ==
  LET sum == e.base \div Byte + (Bytes(3) \div 2) \div Two[ToStore(e) - 1]
  IN  sum - (sum % LastUnit(e))

LEMMA HalfIsUnit ==
  ASSUME NEW t \in 1 .. 2 * ByteBits
  PROVE  (Bytes(3) \div 2) \div Two[t - 1] = Two[3 * ByteBits - t]
<1> DEFINE n == 3 * ByteBits
           a == Bytes(3)
           b == Two[t - 1]
           u == Two[n - t]
<1>1. ByteBits \in Nat /\ t \in Nat /\ t - 1 \in Nat /\ n \in Nat /\ n - t \in Nat /\ t + (n - t) = n /\ (t - 1) + 1 = t
  BY CoderAssumption
<1>2. a \in Nat /\ b \in Nat /\ b > 0 /\ u \in Nat /\ 2 * b = Two[t]
  <2>1. a = Two[n] /\ Two[n] \in Nat
    BY <1>1, TwoIs DEF Bytes
  <2> QED
    BY <1>1, <2>1, TwoIs
<1>3. a = Two[t] * u
  <2>1. a = Two[n]
    BY DEF Bytes
  <2>2. Two[t + (n - t)] = Two[t] * Two[n - t]
    BY <1>1, TwoSum
  <2> QED
    BY <1>1, <2>1, <2>2
<1> HIDE DEF a, b, u, n
<1>4. (a \div 2) \div b = a \div (b * 2)
  <2>1. 2 \in Nat /\ 2 > 0
    OBVIOUS
  <2> QED
    BY <1>2, <2>1, QuotientTwice
<1>5. a \div (b * 2) = u
  <2> DEFINE c == b * 2
  <2>1. c \in Nat /\ c > 0 /\ a = c * u + 0
    <3>1. c = Two[t] /\ c \in Nat /\ c > 0
      BY <1>2
    <3>2. Two[t] * u \in Nat
      BY <1>2, <3>1, Products
    <3> QED
      BY <1>3, <3>1, <3>2
  <2> HIDE DEF c
  <2>2. a \div c = u
    <3>1. 0 \in Nat /\ 0 < c
      BY <2>1
    <3> QED
      BY <1>2, <2>1, <3>1, QuotientIs
  <2> QED
    BY <2>2 DEF c
<1> QED
  BY <1>4, <1>5 DEF a, b, u, n

\* Two units fit the range.
LEMMA TwoUnitsFit ==
  ASSUME NEW e, EncOK(e)
  PROVE  /\ LastUnit(e) \in Nat /\ LastUnit(e) > 0 /\ LastUnit(e) * Byte \in Nat
         /\ LastUnit(e) * Byte + LastUnit(e) * Byte <= e.range * RangeTop
<1> DEFINE t == ToStore(e)
           m == ByteBits
           w == Two[2 * m + 1 - t]
           v == LastUnit(e) * Byte
           r == RangeTop
           x == e.range
<1>1. t \in 2 .. 2 * m /\ w < x
  BY TailIs
<1>2. m \in Nat /\ x \in Nat /\ r \in Nat /\ x <= r
  BY EncOKIs, CoderAssumption
<1> HIDE DEF t
<1>3. 3 * m - t \in Nat /\ 2 * m + 1 - t \in Nat /\ 2 * m \in Nat
      /\ (2 * m + 1 - t) + 2 * m = ((3 * m - t) + m) + 1 /\ 1 * m = m
  BY <1>1, <1>2
<1>4. LastUnit(e) \in Nat /\ LastUnit(e) > 0 /\ w \in Nat /\ v \in Nat /\ v = Two[(3 * m - t) + m]
  <2>1. LastUnit(e) \in Nat /\ LastUnit(e) > 0 /\ w \in Nat
    BY <1>3, TwoIs DEF LastUnit, t
  <2>2. Two[(3 * m - t) + m] = Two[3 * m - t] * Two[m]
    BY <1>2, <1>3, TwoSum
  <2>3. Byte = Two[m]
    BY <1>3 DEF Byte, Bytes
  <2>4. v \in Nat
    BY <2>1, ByteIs, Products
  <2> QED
    BY <2>1, <2>2, <2>3, <2>4 DEF LastUnit, t
<1>5. v + v = w * (r + 1)
  <2>1. Two[(2 * m + 1 - t) + 2 * m] = w * Two[2 * m]
    BY <1>3, TwoSum
  <2>2. Two[((3 * m - t) + m) + 1] = 2 * Two[(3 * m - t) + m]
    <3>1. (3 * m - t) + m \in Nat
      BY <1>2, <1>3
    <3> QED
      BY <3>1, TwoIs
  <2>3. Two[2 * m] = r + 1
    <3>1. Two[2 * m] \in Nat
      BY <1>3, TwoIs
    <3> QED
      BY <3>1 DEF RangeTop, Bytes
  <2> DEFINE y == w * Two[2 * m]
  <2>4. y = 2 * v
    BY <1>3, <1>4, <2>1, <2>2
  <2>5. y = w * (r + 1)
    BY <2>3
  <2> HIDE DEF y, v
  <2>6. y = v + v
    BY <1>4, <2>4
  <2> QED
    BY <2>5, <2>6
<1> HIDE DEF v, w, r, x
<1>6. w * (r + 1) <= x * r
  <2>1. w * (r + 1) = w * r + w * 1 /\ w * 1 = w
    BY <1>2, <1>4, Products
  <2>2. w + 1 <= x
    BY <1>1, <1>2, <1>4
  <2>3. (w + 1) * r <= x * r /\ (w + 1) * r = w * r + 1 * r /\ 1 * r = r
    BY <1>2, <1>4, <2>2, Products
  <2>4. w * r \in Nat /\ x * r \in Nat
    BY <1>2, <1>4, Products
  <2>5. w <= r
    BY <1>1, <1>2, <1>4
  <2> QED
    BY <1>2, <1>4, <2>1, <2>3, <2>4, <2>5
<1>7. v + v <= x * r
  BY <1>5, <1>6
<1> QED
  BY <1>4, <1>7 DEF v, r, x

LEMMA RoundedIs ==
  ASSUME NEW e, EncOK(e)
  PROVE  LET more == Rounded(e) * Byte - e.base
         IN  /\ Rounded(e) \in Nat /\ \E m \in Nat : Rounded(e) = LastUnit(e) * m
             /\ more \in Nat /\ more + LastUnit(e) * Byte <= e.range * RangeTop
<1> DEFINE u   == LastUnit(e)
           f   == e.base \div Byte
           low == e.base % Byte
           sum == f + u
           m   == sum \div u
           p   == sum % u
           g   == Rounded(e)
<1>1. u \in Nat /\ u > 0 /\ Byte \in Nat /\ Byte > 0 /\ e.base \in Nat
  BY TwoUnitsFit, EncOKIs, ByteIs
<1>2. f \in Nat /\ low \in Nat /\ low < Byte /\ e.base = Byte * f + low
  BY <1>1, Quotient
<1>3. g = sum - p
  <2>1. ToStore(e) \in 1 .. 2 * ByteBits
    BY TailIs
  <2>2. (Bytes(3) \div 2) \div Two[ToStore(e) - 1] = LastUnit(e)
    BY <2>1, HalfIsUnit DEF LastUnit
  <2> QED
    BY <2>2, Zenon DEF Rounded
<1> HIDE DEF u, f, low, g
<1>4. m \in Nat /\ p \in Nat /\ p < u /\ sum = u * m + p
  <2>1. sum \in Nat
    BY <1>1, <1>2
  <2> HIDE DEF sum
  <2> QED
    BY <1>1, <2>1, Quotient
<1> HIDE DEF m, p
<1>5. g \in Nat /\ g = u * m /\ f + 1 <= g /\ g <= f + u
  <2> DEFINE x == u * m
  <2>1. x \in Nat
    BY <1>1, <1>4, Products
  <2>2. g = x
    <3>1. sum = x + p /\ g = sum - p
      BY <1>3, <1>4
    <3> HIDE DEF x, sum
    <3> QED
      BY <1>4, <2>1, <3>1
  <2>3. f + u = x + p
    BY <1>4
  <2> HIDE DEF x
  <2> QED
    BY <1>1, <1>2, <1>4, <2>1, <2>2, <2>3 DEF x
<1> DEFINE a == f * Byte
           b == u * Byte
           c == g * Byte
           r == e.range * RangeTop
<1>6. a \in Nat /\ b \in Nat /\ c \in Nat /\ a + Byte <= c /\ c <= a + b /\ a = Byte * f
  <2>1. (f + 1) * Byte <= g * Byte /\ g * Byte <= (f + u) * Byte
    BY <1>1, <1>2, <1>5, Products
  <2>2. (f + 1) * Byte = f * Byte + 1 * Byte /\ 1 * Byte = Byte /\ (f + u) * Byte = f * Byte + u * Byte
    BY <1>1, <1>2, Products
  <2>3. a \in Nat /\ b \in Nat /\ c \in Nat /\ a = Byte * f
    BY <1>1, <1>2, <1>5, Products
  <2> QED
    BY <2>1, <2>2, <2>3
<1>7. r \in Nat /\ b + b <= r
  <2>1. r \in Nat
    BY EncOKIs, Products
  <2> QED
    BY <2>1, TwoUnitsFit DEF u
<1> HIDE DEF a, b, c, r
<1>8. c - e.base \in Nat /\ (c - e.base) + b <= r
  BY <1>1, <1>2, <1>6, <1>7
<1> QED
  BY <1>4, <1>5, <1>8 DEF g, u, b, c, r

\* How far Finish goes up, and what it has written before it fills the last
\* byte: the carry first, and the bytes of what it rounded to.
More(e)    == Rounded(e) * Byte - e.base
Carried(e) == IF e.base + More(e) >= Bytes(4) THEN CarryInto(e.buffer) ELSE e.buffer
Last(e)    == (e.base + More(e)) % Bytes(4)
Whole(e)   == Carried(e) \o TopBytes(Last(e), TailSize(e))

LEMMA SumIs ==
  ASSUME NEW e, EncOK(e)
  PROVE  /\ More(e) \in Nat /\ More(e) < e.range * RangeTop
         /\ More(e) + LastUnit(e) * Byte <= e.range * RangeTop
         /\ e.base + More(e) = Rounded(e) * Byte
<1> DEFINE b == LastUnit(e) * Byte
           r == e.range * RangeTop
           c == Rounded(e) * Byte
<1>1. /\ Rounded(e) \in Nat /\ More(e) \in Nat /\ More(e) + b <= r
  BY RoundedIs DEF More
<1>2. b \in Nat /\ r \in Nat /\ e.base \in Nat /\ LastUnit(e) \in Nat /\ LastUnit(e) > 0 /\ Byte > 0 /\ Byte \in Nat
  BY TwoUnitsFit, EncOKIs, ByteIs, Products
<1>3. b > 0
  <2>1. LastUnit(e) * 0 < LastUnit(e) * Byte /\ LastUnit(e) * 0 = 0
    BY <1>2, StrictProduct
  <2> QED
    BY <2>1
<1>4. c \in Nat /\ More(e) = c - e.base
  <2>1. c \in Nat
    BY <1>1, <1>2, Products
  <2> QED
    BY <2>1 DEF More
<1> HIDE DEF b, r, c
<1>5. More(e) < r /\ e.base + More(e) = c
  BY <1>1, <1>2, <1>3, <1>4
<1> QED
  BY <1>1, <1>5 DEF b, r, c

LEMMA WholeIs ==
  ASSUME NEW e, EncOK(e)
  PROVE  LET b == Carried(e)
             x == Last(e)
             n == TailSize(e)
         IN  /\ b \in ByteSeqs /\ Len(b) = Len(e.buffer) /\ Number(b) \in Nat
             /\ x \in Nat /\ x < Bytes(4)
             /\ Number(b) * Bytes(4) + x = Low(e) + More(e)
             /\ Whole(e) \in ByteSeqs /\ Len(Whole(e)) = Len(e.buffer) + n
             /\ Number(Whole(e)) = Number(b) * Bytes(n) + x \div Bytes(4 - n)
<1> DEFINE b == Carried(e)
           x == Last(e)
           n == TailSize(e)
<1>1. b \in ByteSeqs /\ Len(b) = Len(e.buffer) /\ x \in Nat /\ x < Bytes(4)
      /\ Number(b) * Bytes(4) + x = Low(e) + More(e)
  <2>1. More(e) \in Nat /\ More(e) < e.range * RangeTop
    BY SumIs
  <2> QED
    BY <2>1, CarryKeepsNumber DEF Carried, Last
<1>2. n \in 0 .. 2
  BY TailIs
<1> HIDE DEF b, x, n
<1>3. /\ b \o TopBytes(x, n) \in ByteSeqs /\ Len(b \o TopBytes(x, n)) = Len(b) + n
      /\ Number(b \o TopBytes(x, n)) = Number(b) * Bytes(n) + x \div Bytes(4 - n)
  BY <1>1, <1>2, TopBytesFollow
<1>4. Number(b) \in Nat
  BY <1>1, PaddedIs
<1>5. Whole(e) = b \o TopBytes(x, n)
  BY DEF Whole, b, x, n
<1> QED
  BY <1>1, <1>3, <1>4, <1>5 DEF b, x, n

\* The bytes that Finish takes of what it rounded to.
LEMMA TailBytes ==
  ASSUME NEW e, EncOK(e)
  PROVE  LET g == Rounded(e)
         IN  TopBytes(Last(e), TailSize(e)) = IF ToStore(e) > ByteBits
                                          THEN <<(g \div Bytes(2)) % Byte, (g \div Byte) % Byte>>
                                          ELSE <<(g \div Bytes(2)) % Byte>>
<1> DEFINE g == Rounded(e)
           x == Last(e)
<1>1. \A i \in 1 .. 2 : (x \div Bytes(4 - i)) % Byte = (g \div Bytes(3 - i)) % Byte
  <2> TAKE i \in 1 .. 2
  <2>1. x = (g * Byte) % Bytes(4)
    BY SumIs DEF Last
  <2>2. g \in Nat
    BY RoundedIs
  <2> QED
    BY <2>1, <2>2, UpperByte
<1> HIDE DEF g, x
<1>2. (x \div Bytes(4 - 1)) % Byte = (g \div Bytes(2)) % Byte
  <2>1. 1 \in 1 .. 2 /\ 3 - 1 = 2
    OBVIOUS
  <2> QED
    BY <1>1, <2>1
<1>3. (x \div Bytes(4 - 2)) % Byte = (g \div Byte) % Byte
  <2>1. 2 \in 1 .. 2 /\ 3 - 2 = 1
    OBVIOUS
  <2> QED
    BY <1>1, <2>1 DEF Byte
<1> DEFINE y == (g \div Bytes(2)) % Byte
           z == (g \div Byte) % Byte
<1> HIDE DEF y, z
<1>4. CASE ToStore(e) > ByteBits
  <2>1. TailSize(e) = 2
    BY <1>4 DEF TailSize
  <2>2. TopBytes(x, 2) = [i \in 1 .. 2 |-> (x \div Bytes(4 - i)) % Byte]
    BY DEF TopBytes
  <2>3. \A i \in 1 .. 2 : i = 1 \/ i = 2
    OBVIOUS
  <2>4. TopBytes(x, 2) = [i \in 1 .. 2 |-> IF i = 1 THEN y ELSE z]
    <3>1. \A i \in 1 .. 2 : (x \div Bytes(4 - i)) % Byte = IF i = 1 THEN y ELSE z
      BY <1>2, <1>3, <2>3 DEF y, z
    <3> QED
      BY <2>2, <3>1, Zenon
  <2>5. [i \in 1 .. 2 |-> IF i = 1 THEN y ELSE z] = <<y, z>>
    OBVIOUS
  <2> QED
    BY <1>4, <2>1, <2>4, <2>5 DEF g, x, y, z
<1>5. CASE ~(ToStore(e) > ByteBits)
  <2>1. TailSize(e) = 1
    BY <1>5 DEF TailSize
  <2>2. TopBytes(x, 1) = [i \in 1 .. 1 |-> (x \div Bytes(4 - i)) % Byte]
    BY DEF TopBytes
  <2>3. \A i \in 1 .. 1 : i = 1
    OBVIOUS
  <2>4. TopBytes(x, 1) = [i \in 1 .. 1 |-> y]
    <3>1. \A i \in 1 .. 1 : (x \div Bytes(4 - i)) % Byte = y
      BY <1>2, <2>3 DEF y
    <3> QED
      BY <2>2, <3>1, Zenon
  <2>5. [i \in 1 .. 1 |-> y] = <<y>>
    OBVIOUS
  <2> QED
    BY <1>5, <2>1, <2>4, <2>5 DEF g, x, y, z
<1> QED
  BY <1>4, <1>5

\* What Finish rounded to ends in the bits of the last byte that are over.
LEMMA LastIsRound ==
  ASSUME NEW e, EncOK(e)
  PROVE  LET g == Two[Gap(e)]
             h == Bytes(4 - TailSize(e))
         IN  /\ g \in Nat /\ g > 0 /\ h \in Nat /\ h > 0
             /\ LastUnit(e) * Byte = h * g
             /\ \E k \in Nat : Last(e) = h * (g * k)
<1> DEFINE t == ToStore(e)
           n == TailSize(e)
           m == ByteBits
           g == Two[Gap(e)]
           h == Bytes(4 - n)
           u == LastUnit(e) * Byte
<1>1. t \in 2 .. 2 * m /\ n \in 1 .. 2 /\ Gap(e) \in 0 .. m - 1 /\ Gap(e) = n * m - t
  BY TailIs DEF Gap
<1>2. m \in Nat /\ m >= 2 /\ Byte \in Nat
  BY CoderAssumption, ByteIs
<1> HIDE DEF t, n
<1>3. /\ Gap(e) \in Nat /\ 4 - n \in Nat /\ 3 * m - t \in Nat /\ t \in Nat /\ 4 * m - t \in Nat
      /\ (3 * m - t) + m = 4 * m - t /\ (4 * m - t) + t = 4 * m
      /\ (4 - n) * m \in Nat /\ (4 - n) * m + Gap(e) = 4 * m - t
  <2>1. n = 1 \/ n = 2
    BY <1>1
  <2>2. CASE n = 1
    BY <1>1, <1>2, <2>2
  <2>3. CASE n = 2
    BY <1>1, <1>2, <2>3
  <2> QED
    BY <2>1, <2>2, <2>3
<1>4. g \in Nat /\ g > 0 /\ h \in Nat /\ h > 0
  BY <1>3, TwoIs, BytesPositive
<1>5. u = h * g
  <2>1. Two[(4 - n) * m + Gap(e)] = Two[(4 - n) * m] * Two[Gap(e)]
    BY <1>3, TwoSum
  <2>2. Two[(3 * m - t) + m] = Two[3 * m - t] * Two[m]
    BY <1>2, <1>3, TwoSum
  <2>3. Byte = Two[m]
    <3>1. 1 * m = m
      BY <1>2
    <3> QED
      BY <3>1 DEF Byte, Bytes
  <2>4. LastUnit(e) = Two[3 * m - t]
    BY DEF LastUnit, t
  <2>5. h = Two[(4 - n) * m]
    BY DEF Bytes
  <2> QED
    BY <1>3, <2>1, <2>2, <2>3, <2>4, <2>5
<1>6. PICK k \in Nat : Rounded(e) = LastUnit(e) * k
  BY RoundedIs
<1>7. u \in Nat /\ u > 0 /\ LastUnit(e) \in Nat
  <2>1. u \in Nat /\ LastUnit(e) \in Nat
    BY TwoUnitsFit
  <2>2. g * 0 < g * h /\ g * 0 = 0 /\ g * h = h * g
    BY <1>4, StrictProduct, Products
  <2> QED
    BY <1>5, <2>1, <2>2
<1> DEFINE v == Two[t]
<1>8. v \in Nat /\ v > 0 /\ Bytes(4) = u * v
  <2>1. Two[(4 * m - t) + t] = Two[4 * m - t] * Two[t]
    BY <1>3, TwoSum
  <2>2. Two[(3 * m - t) + m] = Two[3 * m - t] * Two[m]
    BY <1>2, <1>3, TwoSum
  <2>3. Byte = Two[m]
    <3>1. 1 * m = m
      BY <1>2
    <3> QED
      BY <3>1 DEF Byte, Bytes
  <2>4. LastUnit(e) = Two[3 * m - t]
    BY DEF LastUnit, t
  <2>5. Bytes(4) = Two[4 * m]
    BY DEF Bytes
  <2>6. u = Two[4 * m - t]
    BY <1>3, <2>2, <2>3, <2>4
  <2> QED
    BY <1>3, <2>1, <2>5, <2>6, TwoIs
<1>9. Last(e) = (u * k) % (u * v)
  <2>1. Last(e) = (Rounded(e) * Byte) % Bytes(4)
    BY SumIs DEF Last
  <2>2. (LastUnit(e) * k) * Byte = (LastUnit(e) * Byte) * k
    BY <1>2, <1>6, <1>7
  <2> QED
    BY <1>6, <1>8, <2>1, <2>2
<1> HIDE DEF u, v, g, h
<1>10. k % v \in Nat /\ Last(e) = u * (k % v)
  BY <1>7, <1>8, <1>9, MultipleRest
<1>11. u * (k % v) = h * (g * (k % v))
  <2> DEFINE j == k % v
  <2>1. j \in Nat
    BY <1>10
  <2> HIDE DEF j
  <2>2. (h * g) * j = h * (g * j)
    BY <1>4, <2>1
  <2> QED
    BY <1>5, <2>2 DEF j
<1>12. \E j \in Nat : Last(e) = h * (g * j)
  BY <1>10, <1>11
<1> QED
  BY <1>4, <1>5, <1>12 DEF g, h, n, u

\* The last byte of the stream before it is filled.
LEMMA LastByte ==
  ASSUME NEW e, EncOK(e)
  PROVE  LET g == Two[Gap(e)]
             h == Bytes(4 - TailSize(e))
             y == Whole(e)[Len(e.buffer) + TailSize(e)]
         IN  /\ h * (Last(e) \div h) = Last(e)
             /\ y \in Nat /\ y % g = 0 /\ y + g <= Byte
<1> DEFINE n == TailSize(e)
           g == Two[Gap(e)]
           h == Bytes(4 - n)
           x == Last(e)
           b == Carried(e)
           y == Whole(e)[Len(e.buffer) + n]
           v == Two[ByteBits - Gap(e)]
<1>1. g \in Nat /\ g > 0 /\ h \in Nat /\ h > 0
  BY LastIsRound
<1>2. PICK k \in Nat : x = h * (g * k)
  BY LastIsRound
<1>3. n \in 1 .. 2 /\ Gap(e) \in 0 .. ByteBits - 1 /\ ByteBits \in Nat
  BY TailIs, CoderAssumption
<1>4. v \in Nat /\ v > 0 /\ Byte = g * v /\ Byte > 0 /\ Byte \in Nat
  <2>1. ByteBits - Gap(e) \in Nat /\ Gap(e) \in Nat /\ Gap(e) + (ByteBits - Gap(e)) = ByteBits /\ 1 * ByteBits = ByteBits
    BY <1>3
  <2>2. Two[Gap(e) + (ByteBits - Gap(e))] = g * v
    BY <2>1, TwoSum
  <2>3. Byte = Two[ByteBits]
    BY <2>1 DEF Byte, Bytes
  <2>4. v \in Nat /\ v > 0
    BY <2>1, TwoIs
  <2> QED
    BY <2>1, <2>2, <2>3, <2>4, ByteIs
<1>5. y = (x \div h) % Byte
  <2>1. b \in ByteSeqs /\ Len(b) = Len(e.buffer) /\ Len(b) \in Nat
    BY WholeIs, ByteSeqIs
  <2>2. TopBytes(x, n) = [i \in 1 .. n |-> (x \div Bytes(4 - i)) % Byte]
    BY DEF TopBytes
  <2> DEFINE w == TopBytes(x, n)
  <2>3. Len(w) = n /\ w[n] = (x \div h) % Byte
    <3>1. n \in Nat /\ n \in 1 .. n
      BY <1>3
    <3> HIDE DEF n, x
    <3>2. w[n] = (x \div Bytes(4 - n)) % Byte
      BY <2>2, <3>1, Zenon
    <3>3. Len(w) = n
      <4> DEFINE c(i) == (x \div Bytes(4 - i)) % Byte
      <4>1. w = [i \in 1 .. n |-> c(i)]
        BY <2>2, Zenon
      <4> HIDE DEF c, w
      <4> QED
        BY <3>1, <4>1
    <3> QED
      BY <3>2, <3>3
  <2> HIDE DEF b, w, n
  <2>4. (b \o w)[Len(b) + n] = w[n]
    <3>1. w \in Seq(Nat)
      <4> DEFINE c(i) == (x \div Bytes(4 - i)) % Byte
      <4>1. \A i \in 1 .. n : c(i) \in Nat
        <5> TAKE i \in 1 .. n
        <5>1. 4 - i \in Nat /\ x \in Nat
          BY <1>3, WholeIs
        <5>2. Bytes(4 - i) \in Nat /\ Bytes(4 - i) > 0
          BY <5>1, BytesPositive
        <5>3. x \div Bytes(4 - i) \in Nat
          BY <5>1, <5>2, Quotient
        <5> QED
          BY <1>4, <5>3, Quotient
      <4>2. w = [i \in 1 .. n |-> c(i)]
        BY <2>2, Zenon DEF w
      <4> HIDE DEF c
      <4> QED
        BY <1>3, <4>1, <4>2
    <3>2. b \in Seq(Nat)
      <4>1. \A i \in 1 .. Len(b) : b[i] \in Nat
        BY <2>1, ByteSeqIs
      <4>2. b \in Seq(0 .. Byte - 1)
        BY <2>1 DEF ByteSeqs, ByteValues
      <4>3. DOMAIN b = 1 .. Len(b) /\ b = [i \in DOMAIN b |-> b[i]]
        BY <4>2
      <4> QED
        BY <2>1, <4>1, <4>3
    <3>3. Len(b) + n \in Len(b) + 1 .. Len(b) + Len(w) /\ (Len(b) + n) - Len(b) = n
      BY <1>3, <2>1, <2>3
    <3> QED
      BY <3>1, <3>2, <3>3, ConcatProperties
  <2>5. Whole(e) = b \o w
    BY DEF Whole, b, w, n
  <2> QED
    BY <2>1, <2>3, <2>4, <2>5
<1>6. x \div h = g * k /\ g * k \in Nat
  <2> DEFINE a == g * k
  <2>1. a \in Nat
    BY <1>1, Products
  <2>2. x \in Nat /\ x = h * a + 0
    <3>1. h * a \in Nat
      BY <1>1, <2>1, Products
    <3> QED
      BY <1>2, <3>1
  <2> HIDE DEF a, x, h
  <2>3. x \div h = a
    <3>1. 0 \in Nat /\ 0 < h
      BY <1>1
    <3> QED
      BY <1>1, <2>1, <2>2, <3>1, QuotientIs
  <2> QED
    BY <2>1, <2>3 DEF a
<1> HIDE DEF y, x, h, g, v
<1>7. y = g * (k % v) /\ k % v \in Nat /\ k % v < v
  <2>1. k % v \in Nat /\ k % v < v /\ (g * k) % (g * v) = g * (k % v)
    <3>1. g \in Nat /\ g > 0 /\ v \in Nat /\ v > 0 /\ k \in Nat
      BY <1>1, <1>2, <1>4
    <3> QED
      BY <3>1, MultipleRest, Zenon
  <2>2. y = (g * k) % (g * v)
    BY <1>4, <1>5, <1>6, Zenon
  <2> QED
    BY <2>1, <2>2, Zenon
<1> DEFINE j == k % v
<1>8. j \in Nat /\ j + 1 <= v /\ y = g * j
  <2>1. j \in Nat /\ j < v /\ y = g * j
    BY <1>7
  <2> HIDE DEF j
  <2> QED
    BY <1>4, <2>1
<1> HIDE DEF j
<1>9. y \in Nat /\ y % g = 0
  <2>1. y \in Nat
    BY <1>1, <1>8, Products
  <2>2. y = g * j + 0 /\ 0 < g /\ 0 \in Nat
    BY <1>1, <1>8, <2>1
  <2> QED
    BY <1>1, <1>8, <2>1, <2>2, QuotientIs
<1>10. y + g <= Byte
  <2>1. g * (j + 1) <= g * v /\ g * (j + 1) = g * j + g * 1 /\ g * 1 = g
    BY <1>1, <1>4, <1>8, Products
  <2> QED
    BY <1>4, <1>8, <2>1
<1>11. h * (x \div h) = x
  BY <1>2, <1>6
<1> QED
  BY <1>9, <1>10, <1>11 DEF y, x, h, g, n

\* What Finish leaves: what it has written, the last byte filled with ones.
LEMMA FinishIs ==
  ASSUME NEW e, EncOK(e), NBytes(Len(e.buffer), e.range) <= MAX_ARITHM_BYTES
  PROVE  LET n == Len(e.buffer) + TailSize(e)
             g == Two[Gap(e)]
             y == Whole(e)[n]
         IN  Finish(e) = [Whole(e) EXCEPT ![n] = y + (g - 1)]
<1> DEFINE nBits == NBits(Len(e.buffer), e.range)
           n     == Len(e.buffer) + TailSize(e)
           g     == Two[Gap(e)]
           l     == Len(e.buffer)
           y     == Whole(e)[n]
           ones  == IF nBits % ByteBits = 0 THEN 0 ELSE Two[ByteBits - (nBits % ByteBits)] - 1
           toStore == nBits - l * ByteBits
           rounded == e.base \div Byte + (Bytes(3) \div 2) \div Two[toStore - 1]
           base24  == rounded - (rounded % Two[3 * ByteBits - toStore])
           buffer  == IF base24 >= Bytes(3) THEN CarryInto(e.buffer) ELSE e.buffer
           tail    == IF toStore > ByteBits
                      THEN <<(base24 \div Bytes(2)) % Byte, (base24 \div Byte) % Byte>>
                      ELSE <<(base24 \div Bytes(2)) % Byte>>
           whole   == buffer \o tail
           stored  == IF Len(whole) > MAX_ARITHM_BYTES THEN SubSeq(whole, 1, MAX_ARITHM_BYTES) ELSE whole
           nBytes  == NBytes(l, e.range)
<1>1. nBits = l * ByteBits + ToStore(e) /\ nBytes = n /\ ones = g - 1
  BY StreamLength
<1>2. Finish(e) = IF nBytes <= Len(stored)
                  THEN [stored EXCEPT ![nBytes] = (@ - (@ % (ones + 1))) + ones]
                  ELSE stored
  BY Zenon DEF Finish
<1>3. toStore = ToStore(e)
  <2> DEFINE k == l * ByteBits
             t == ToStore(e)
  <2>1. k \in Nat /\ t \in Nat
    <3>1. l \in Nat /\ ByteBits \in Nat
      BY EncOKIs, CoderAssumption
    <3>2. k \in Nat
      BY <3>1, Products
    <3>3. t \in 2 .. 2 * ByteBits
      BY TailIs
    <3> HIDE DEF k, t
    <3>4. 2 * ByteBits \in Nat
      BY <3>1
    <3> QED
      BY <3>2, <3>3, <3>4
  <2>2. nBits = k + t
    BY <1>1
  <2> HIDE DEF k, t, nBits
  <2>3. nBits - k = t
    BY <2>1, <2>2
  <2> QED
    BY <2>3 DEF k, t
<1> HIDE DEF toStore, ones, nBits, nBytes
<1>4. base24 = Rounded(e)
  BY <1>3, Zenon DEF Rounded, LastUnit
<1> HIDE DEF base24, rounded
<1>5. base24 >= Bytes(3) <=> e.base + More(e) >= Bytes(4)
  <2> DEFINE a == Rounded(e)
             b == Bytes(3)
  <2>1. a \in Nat /\ b \in Nat /\ Byte \in Nat /\ Byte > 0
    BY RoundedIs, BytesPositive, ByteIs
  <2>2. e.base + More(e) = a * Byte /\ Bytes(4) = Byte * b
    BY SumIs, FourBytes
  <2> HIDE DEF a, b
  <2>3. a * Byte \in Nat /\ Byte * b \in Nat /\ a * Byte = Byte * a
    BY <2>1, Products
  <2>4. b <= a => Byte * b <= Byte * a
    BY <2>1, Products
  <2>5. a < b => Byte * a < Byte * b
    BY <2>1, StrictProduct
  <2>6. a >= b <=> a * Byte >= Byte * b
    BY <2>1, <2>3, <2>4, <2>5
  <2> QED
    BY <1>4, <2>2, <2>6 DEF a, b
<1>6. buffer = Carried(e)
  BY <1>5, Zenon DEF Carried
<1>7. tail = TopBytes(Last(e), TailSize(e))
  BY <1>3, <1>4, TailBytes, Zenon
<1> HIDE DEF buffer, tail
<1>8. whole = Whole(e)
  BY <1>6, <1>7 DEF Whole
<1> HIDE DEF whole
<1>9. Len(whole) = n /\ stored = whole /\ n \in Nat
  <2>1. Len(Whole(e)) = n /\ Whole(e) \in ByteSeqs
    BY WholeIs
  <2>2. n \in Nat
    BY <2>1, ByteSeqIs
  <2>3. n <= MAX_ARITHM_BYTES
    BY <1>1 DEF nBytes
  <2>4. MAX_ARITHM_BYTES \in Nat
    BY CoderAssumption
  <2> HIDE DEF n
  <2>5. ~(Len(whole) > MAX_ARITHM_BYTES)
    BY <1>8, <2>1, <2>2, <2>3, <2>4
  <2> QED
    BY <1>8, <2>1, <2>2, <2>5
<1> HIDE DEF stored, n
<1>10. Finish(e) = [whole EXCEPT ![n] = (whole[n] - (whole[n] % (ones + 1))) + ones]
  <2>1. nBytes <= Len(stored)
    BY <1>1, <1>9
  <2>2. Finish(e) = [stored EXCEPT ![nBytes] = (stored[nBytes] - (stored[nBytes] % (ones + 1))) + ones]
    BY <1>2, <2>1, Zenon
  <2> QED
    BY <1>1, <1>9, <2>2, Zenon
<1>11. (y - (y % (ones + 1))) + ones = y + (g - 1)
  <2>1. y \in Nat /\ y % g = 0 /\ g \in Nat /\ g > 0
    BY LastByte, LastIsRound DEF n
  <2>2. ones + 1 = g
    BY <1>1, <2>1
  <2> HIDE DEF y, g
  <2>3. y % (ones + 1) = 0
    BY <2>1, <2>2, Zenon
  <2>4. (y - 0) + ones = y + (g - 1)
    BY <1>1, <2>1
  <2> QED
    BY <2>3, <2>4, Zenon
<1> QED
  BY <1>8, <1>10, <1>11 DEF n, g, y

LEMMA LastChanged ==
  ASSUME NEW b \in ByteSeqs, Len(b) > 0, NEW d \in Nat, b[Len(b)] + d < Byte
  PROVE  LET n == Len(b)
             c == [b EXCEPT ![n] = b[n] + d]
         IN  /\ c \in ByteSeqs /\ Len(c) = n /\ c[n] = b[n] + d
             /\ Number(c) = Number(b) + d
<1> DEFINE n == Len(b)
           y == b[n]
           c == [b EXCEPT ![n] = y + d]
<1>1. n \in Nat /\ n > 0 /\ DOMAIN b = 1 .. n /\ \A i \in 1 .. n : b[i] \in 0 .. Byte - 1 /\ b[i] \in Nat
  BY ByteSeqIs
<1>2. y \in Nat /\ y + d \in 0 .. Byte - 1 /\ Byte \in Nat /\ n \in 1 .. n
  <2>1. n \in 1 .. n
    BY <1>1
  <2>2. y \in Nat
    BY <1>1, <2>1
  <2> QED
    BY <2>1, <2>2, ByteIs
<1>3. c \in ByteSeqs /\ Len(c) = n /\ c[n] = y + d /\ \A i \in 1 .. n - 1 : c[i] = b[i]
  <2> DEFINE z == y + d
  <2> HIDE DEF n, y, z
  <2>1. c = [i \in 1 .. n |-> IF i = n THEN z ELSE b[i]]
    <3>1. b = [i \in 1 .. n |-> b[i]]
      <4>1. b \in Seq(0 .. Byte - 1)
        BY DEF ByteSeqs, ByteValues
      <4> QED
        BY <1>1, <4>1
    <3> QED
      BY <1>1, <3>1 DEF z
  <2>2. \A i \in 1 .. n : (IF i = n THEN z ELSE b[i]) \in 0 .. Byte - 1
    BY <1>1, <1>2 DEF z
  <2>3. c \in [1 .. n -> 0 .. Byte - 1] /\ c[n] = z /\ \A i \in 1 .. n - 1 : c[i] = b[i]
    <3> HIDE DEF c
    <3> QED
      BY <1>1, <1>2, <2>1, <2>2
  <2> HIDE DEF c
  <2> QED
    BY <1>1, <2>3, ByteSeqIs DEF z
<1> HIDE DEF c
<1> DEFINE s == Padded(b)
           t == Padded(c)
           k == n - 1
<1>4. s \in Streams /\ t \in Streams /\ k \in Nat /\ k + 1 = n /\ Number(b) = Value(s)[n] /\ Number(c) = Value(t)[n]
  BY <1>1, <1>3, PaddedIs DEF Number
<1>5. s[n] = y /\ t[n] = y + d /\ \A i \in 1 .. k : s[i] = t[i]
  <2>1. \A i \in 1 .. n : i \in Nat /\ s[i] = b[i] /\ t[i] = c[i]
    BY <1>1, <1>3 DEF Padded
  <2> QED
    BY <1>1, <1>2, <1>3, <2>1
<1> HIDE DEF s, t, k, y, n
<1>6. Value(s)[k] = Value(t)[k]
  BY <1>4, <1>5, ValueOfPrefix
<1> DEFINE a == Value(s)[k] * Byte
<1>7. a \in Nat /\ Number(b) = a + y /\ Number(c) = a + (y + d)
  <2>1. Value(s)[k] \in Nat
    BY <1>4, ValueIs
  <2>2. a \in Nat
    BY <1>2, <2>1, Products
  <2>3. Value(s)[k + 1] = Value(s)[k] * Byte + s[k + 1] /\ Value(t)[k + 1] = Value(t)[k] * Byte + t[k + 1]
    BY <1>4, ValueIs
  <2> QED
    BY <1>4, <1>5, <1>6, <2>2, <2>3
<1> HIDE DEF a
<1>8. Number(c) = Number(b) + d
  BY <1>2, <1>7
<1> QED
  BY <1>3, <1>8 DEF c, n, y

\* Any stream that begins with what Finish leaves is in the interval.
LEMMA FinishInside ==
  ASSUME NEW e, EncOK(e), NBytes(Len(e.buffer), e.range) <= MAX_ARITHM_BYTES
  PROVE  LET f == Finish(e)
             n == Len(e.buffer) + TailSize(e)
         IN  /\ f \in ByteSeqs /\ Len(f) = n /\ f[n] % Two[Gap(e)] = Two[Gap(e)] - 1
             /\ \A s \in Streams : (\A i \in 1 .. n : s[i] = f[i]) => Inside(s, e)
<1> DEFINE f == Finish(e)
           l == Len(e.buffer)
           m == TailSize(e)
           n == l + m
           g == Two[Gap(e)]
           d == g - 1
           h == Bytes(4 - m)
           w == Whole(e)
           x == Last(e)
           b == Number(Carried(e))
           y == w[n]
<1>1. l \in Nat /\ m \in 1 .. 2 /\ n \in Nat /\ n > 0 /\ 4 - m \in Nat /\ l + 4 = n + (4 - m) /\ m \in 0 .. 4
  <2>1. l \in Nat /\ m \in 1 .. 2
    BY EncOKIs, TailIs
  <2> HIDE DEF l, m
  <2> QED
    BY <2>1
<1>2. g \in Nat /\ g > 0 /\ d \in Nat /\ h \in Nat /\ h > 0 /\ LastUnit(e) * Byte = h * g /\ Byte \in Nat
  <2>1. g \in Nat /\ g > 0
    BY LastIsRound
  <2>2. d \in Nat
    <3> HIDE DEF g
    <3> QED
      BY <2>1
  <2> QED
    BY <2>1, <2>2, LastIsRound, ByteIs
<1>3. h * (x \div h) = x /\ y \in Nat /\ y % g = 0 /\ y + g <= Byte
  BY LastByte
<1>4. /\ b \in Nat /\ x \in Nat /\ x < Bytes(4) /\ b * Bytes(4) + x = Low(e) + More(e)
      /\ w \in ByteSeqs /\ Len(w) = n /\ Number(w) = b * Bytes(m) + x \div h
  BY WholeIs
<1>5. f = [w EXCEPT ![n] = y + d]
  BY FinishIs
<1>6. Low(e) \in Nat /\ More(e) \in Nat /\ More(e) + LastUnit(e) * Byte <= e.range * RangeTop
      /\ e.range * RangeTop \in Nat
  BY SumIs, EncOKIs, Products
<1> HIDE DEF f, l, m, g, h, w, x, b
<1>7. y + d < Byte
  <2> HIDE DEF y
  <2> QED
    BY <1>2, <1>3
<1>8. f \in ByteSeqs /\ Len(f) = n /\ f[n] = y + d /\ Number(f) = Number(w) + d
  <2>1. w[Len(w)] + d < Byte /\ Len(w) > 0
    BY <1>1, <1>4, <1>7
  <2> HIDE DEF d, n
  <2> QED
    BY <1>2, <1>4, <1>5, <2>1, LastChanged
<1>9. f[n] % g = d
  <2>1. y = g * (y \div g) + (y % g) /\ y \div g \in Nat
    <3> HIDE DEF y
    <3> QED
      BY <1>2, <1>3, Quotient
  <2> DEFINE q == y \div g
             a == y + d
  <2>2. g * q \in Nat /\ q \in Nat
    BY <1>2, <2>1, Products
  <2>3. y = g * q + 0
    BY <1>3, <2>1
  <2> HIDE DEF y, q
  <2>4. a \in Nat /\ a = g * q + d /\ d < g
    BY <1>2, <2>2, <2>3
  <2> HIDE DEF a, d
  <2>5. a % g = d
    BY <1>2, <2>2, <2>4, QuotientIs
  <2> QED
    BY <1>8, <2>5 DEF a
<1> DEFINE v == Number(w)
           o == Low(e) + More(e)
           u == h * g
           q == x \div h
<1>10. v \in Nat /\ v * h = o /\ o \in Nat
  <2>1. q \in Nat
    BY <1>2, <1>4, Quotient
  <2>2. Bytes(m) \in Nat /\ Bytes(4) = Bytes(m) * h
    <3>1. m \in Nat
      BY <1>1
    <3>2. Bytes(4) = Bytes(m) * Bytes(4 - m)
      BY <1>1, FourBytes
    <3> QED
      BY <3>1, <3>2, BytesPositive DEF h
  <2> DEFINE c == Bytes(m)
             z == b * c
  <2> HIDE DEF q, c
  <2>3. z \in Nat /\ v = z + q
    BY <1>4, <2>1, <2>2, Products DEF q, c
  <2>4. z * h = b * Bytes(4)
    <3>1. (b * c) * h = b * (c * h)
      BY <1>2, <1>4, <2>2 DEF c
    <3> QED
      BY <2>2, <3>1 DEF c
  <2> HIDE DEF v, z
  <2>5. (z + q) * h = z * h + q * h /\ q * h = h * q
    BY <1>2, <2>1, <2>3, Products
  <2>6. v * h = b * Bytes(4) + x
    BY <1>3, <2>3, <2>4, <2>5 DEF q
  <2> QED
    BY <1>4, <1>6, <2>1, <2>3, <2>6
<1> HIDE DEF v, o
<1>11. (v + d) * h = o + d * h /\ ((v + d) * h) + h = o + u /\ d * h \in Nat /\ u \in Nat
  <2>1. (v + d) * h = v * h + d * h /\ d * h \in Nat /\ u \in Nat
    <3> HIDE DEF d
    <3> QED
      BY <1>2, <1>10, Products
  <2>2. (d + 1) * h = d * h + 1 * h /\ 1 * h = h
    <3> HIDE DEF d
    <3> QED
      BY <1>2, Products
  <2>3. d + 1 = g /\ g * h = u
    BY <1>2, Products
  <2> DEFINE r == d * h
  <2>4. r + h = u
    BY <2>2, <2>3
  <2> HIDE DEF r, d, u
  <2> QED
    BY <1>2, <1>10, <2>1, <2>4 DEF r
<1>12. ASSUME NEW s \in Streams, \A i \in 1 .. n : s[i] = f[i]
       PROVE  Inside(s, e)
  <2> DEFINE at == Value(s)[l + 4]
  <2>1. Value(s)[n] = v + d
    <3>1. Padded(f) \in Streams /\ Number(f) = Value(Padded(f))[n]
      BY <1>8, PaddedIs DEF Number
    <3>2. \A i \in 1 .. n : s[i] = Padded(f)[i]
      <4>1. \A i \in 1 .. n : i \in Nat /\ Padded(f)[i] = f[i]
        <5> HIDE DEF n
        <5> QED
          BY <1>1, <1>8 DEF Padded
      <4> QED
        BY <1>12, <4>1
    <3>3. Value(s)[n] = Value(Padded(f))[n]
      <4> HIDE DEF n
      <4> QED
        BY <1>1, <3>1, <3>2, ValueOfPrefix
    <3> QED
      BY <1>8, <3>1, <3>3 DEF v
  <2>2. Value(s)[n] * h <= Value(s)[n + (4 - m)] /\ Value(s)[n + (4 - m)] < Value(s)[n] * h + h
    <3> HIDE DEF n
    <3> QED
      BY <1>1, ValueFurther DEF h
  <2>3. at \in Nat /\ at = Value(s)[n + (4 - m)]
    <3>1. l + 4 \in Nat
      BY <1>1
    <3> QED
      BY <1>1, <3>1, ValueIs
  <2> HIDE DEF at, n, d, u
  <2>4. o + d * h <= at /\ at < o + u
    BY <1>11, <2>1, <2>2, <2>3
  <2> DEFINE k == Low(e)
             i == More(e)
             r == e.range * RangeTop
             a == d * h
  <2>5. o = k + i /\ k \in Nat /\ i \in Nat /\ r \in Nat /\ i + u <= r /\ u \in Nat /\ a \in Nat
    BY <1>2, <1>6, <1>11 DEF o, u
  <2> HIDE DEF k, i, r, a
  <2>6. k <= at /\ at < k + r
    BY <2>3, <2>4, <2>5 DEF a
  <2> QED
    BY <2>6 DEF Inside, k, r, at, l
<1>13. \A s \in Streams : (\A i \in 1 .. n : s[i] = f[i]) => Inside(s, e)
  BY <1>12
<1> QED
  BY <1>8, <1>9, <1>13 DEF f, n, l, m, g

-----------------------------------------------------------------------------
(* The stream read back *)

\* The stream of a row of memory: its first bytes, then what the decoder's
\* memory has for it, then zeros.
StreamOf(row, d) == [i \in Nat |-> IF i \in 1 .. 4 THEN row[i]
                                   ELSE IF i >= 5 /\ i - 5 < d.len THEN d.memory[i] ELSE 0]

\* A decoder, whatever it has read before, and a stream of n bytes.
LEMMA DecInitFollows ==
  ASSUME NEW before \in DecStates, Len(before.memory) = MAX_ARITHM_BYTES + 4,
         NEW row \in ByteSeqs, Len(row) >= 4,
         NEW n \in Nat, n <= Len(row), n <= MAX_ARITHM_BYTES
  PROVE  LET d == DecInit(before, row, n)
             s == StreamOf(row, d)
         IN  /\ d \in DecStates /\ d.len = n /\ \A i \in 1 .. n : d.memory[i] = row[i]
             /\ s \in Streams /\ \A i \in 1 .. n : s[i] = row[i]
             /\ Follows(d, s, EncInit)
<1> DEFINE d    == DecInit(before, row, n)
           s    == StreamOf(row, d)
           max  == MAX_ARITHM_BYTES
           old  == before.memory
           head == SubSeq(row, 1, n)
           rest == SubSeq(old, n + 1, Len(old))
           mem  == head \o rest
           base == ((row[1] * Byte + row[2]) * Byte + row[3]) * Byte + row[4]
<1>1. /\ old \in ByteSeqs /\ max \in Nat /\ n <= max /\ Len(old) = max + 4 /\ Len(row) \in Nat /\ Byte \in Nat /\ Byte > 0
      /\ \A i \in 1 .. Len(row) : row[i] \in 0 .. Byte - 1 /\ row[i] \in Nat
  BY ByteSeqIs, CoderAssumption, ByteIs DEF DecStates
<1>2. d = [base |-> base, range |-> RangeTop, ix |-> 0, len |-> n, error |-> "none", memory |-> mem]
  <2>1. ~(n > max \/ n < 0)
    BY <1>1
  <2> QED
    BY <2>1, Zenon DEF DecInit
<1> HIDE DEF max, old
<1>3. head \in ByteSeqs /\ Len(head) = n /\ \A i \in 1 .. n : head[i] = row[i]
  <2>1. head = [i \in 1 .. n |-> row[i]]
    <3>1. row \in Seq(ByteValues)
      BY DEF ByteSeqs
    <3> QED
      BY <1>1, <3>1
  <2> HIDE DEF head
  <2>2. \A i \in 1 .. n : row[i] \in 0 .. Byte - 1
    BY <1>1
  <2>3. head \in [1 .. n -> 0 .. Byte - 1]
    BY <2>1, <2>2
  <2> QED
    BY <2>1, <2>3, ByteSeqIs
<1>4. rest \in ByteSeqs /\ Len(rest) = max + 4 - n
  <2>1. old \in Seq(ByteValues) /\ n + 1 \in Nat /\ Len(old) \in Nat /\ n + 1 <= Len(old)
    BY <1>1 DEF ByteSeqs
  <2>2. rest \in Seq(ByteValues) /\ Len(rest) = Len(old) - (n + 1) + 1
    <3>1. n + 1 \in 1 .. Len(old) + 1 /\ Len(old) \in n .. Len(old)
      BY <2>1
    <3> DEFINE a == n + 1
               z == Len(old)
    <3>2. a \in 1 .. z /\ z \in 1 .. Len(old) /\ a <= z
      BY <2>1
    <3> HIDE DEF a, z
    <3>3. SubSeq(old, a, z) \in Seq(ByteValues) /\ Len(SubSeq(old, a, z)) = z - a + 1
      BY <2>1, <3>2, SubSeqProperties
    <3> QED
      BY <3>3 DEF a, z
  <2> HIDE DEF rest
  <2> QED
    BY <1>1, <2>1, <2>2 DEF ByteSeqs
<1> HIDE DEF head, rest
<1>5. mem \in ByteSeqs /\ Len(mem) = max + 4 /\ \A i \in 1 .. n : mem[i] = row[i]
  <2>1. head \in Seq(ByteValues) /\ rest \in Seq(ByteValues)
    BY <1>3, <1>4 DEF ByteSeqs
  <2>2. mem \in Seq(ByteValues) /\ Len(mem) = Len(head) + Len(rest) /\ \A i \in 1 .. Len(head) : mem[i] = head[i]
    BY <2>1, ConcatProperties
  <2> HIDE DEF mem
  <2> QED
    BY <1>1, <1>3, <1>4, <2>2 DEF ByteSeqs
<1> HIDE DEF mem
<1>6. base \in Nat
  <2>1. row[1] \in Nat /\ row[2] \in Nat /\ row[3] \in Nat /\ row[4] \in Nat
    BY <1>1
  <2> DEFINE a == row[1] * Byte + row[2]
             b == a * Byte + row[3]
  <2>0. \A x, y \in Nat : x * Byte + y \in Nat
    <3> TAKE x, y \in Nat
    <3>1. x * Byte \in Nat
      BY <1>1, Products
    <3> DEFINE z == x * Byte
    <3> HIDE DEF z
    <3>2. z + y \in Nat
      BY <3>1 DEF z
    <3> QED
      BY <3>2 DEF z
  <2>2. a \in Nat
    BY <2>0, <2>1
  <2> HIDE DEF a
  <2>3. b \in Nat
    BY <2>0, <2>1, <2>2
  <2> HIDE DEF b
  <2>4. b * Byte + row[4] \in Nat
    BY <2>0, <2>1, <2>3
  <2> QED
    BY <2>4 DEF a, b
<1> HIDE DEF d
<1>7. d \in DecStates /\ d.len = n /\ d.memory = mem /\ d.base = base /\ d.range = RangeTop
      /\ d.ix = 0 /\ d.error = "none"
  <2>1. RangeTop \in Nat
    BY FourBytes
  <2> DEFINE top == RangeTop
  <2>2. d = [base |-> base, range |-> top, ix |-> 0, len |-> n, error |-> "none", memory |-> mem]
    BY <1>2, Zenon
  <2>3. top \in Nat
    BY <2>1
  <2> HIDE DEF base, top
  <2>4. d.len = n /\ d.memory = mem /\ d.base = base /\ d.range = top /\ d.ix = 0 /\ d.error = "none"
    BY <2>2
  <2>5. d \in DecStates
    <3>1. "none" \in Errors
      BY DEF Errors
    <3>2. mem \in ByteSeqs /\ base \in Nat /\ 0 \in Nat /\ n \in Nat /\ top \in Nat
      BY <1>5, <1>6, <2>3
    <3> QED
      BY <2>2, <3>1, <3>2, Zenon DEF DecStates
  <2> QED
    BY <2>4, <2>5 DEF top
<1>8. \A i \in Nat : s[i] = IF i \in 1 .. 4 THEN row[i] ELSE IF i >= 5 /\ i - 5 < n THEN mem[i] ELSE 0
  BY <1>7 DEF StreamOf
<1>9. s \in Streams
  <2>1. ASSUME NEW i \in Nat
        PROVE  s[i] \in 0 .. Byte - 1
    <3>1. CASE i \in 1 .. 4
      <4>1. s[i] = row[i] /\ i \in 1 .. Len(row)
        BY <1>1, <1>8, <3>1
      <4> QED
        BY <1>1, <4>1
    <3>2. CASE ~(i \in 1 .. 4) /\ i >= 5 /\ i - 5 < n
      <4>1. s[i] = mem[i] /\ i \in 1 .. Len(mem)
        BY <1>1, <1>5, <1>8, <3>2
      <4> QED
        BY <1>5, <4>1, ByteSeqIs
    <3>3. CASE ~(i \in 1 .. 4) /\ ~(i >= 5 /\ i - 5 < n)
      <4>1. s[i] = 0
        BY <1>8, <3>3
      <4> QED
        BY <1>1, <4>1
    <3> QED
      BY <3>1, <3>2, <3>3
  <2>2. s = [i \in Nat |-> s[i]]
    BY DEF StreamOf
  <2> HIDE DEF s
  <2> QED
    BY <2>1, <2>2 DEF Streams
<1> HIDE DEF s
<1>10. \A i \in 1 .. n : s[i] = row[i]
  <2> TAKE i \in 1 .. n
  <2>1. i \in Nat
    OBVIOUS
  <2>2. CASE i \in 1 .. 4
    BY <1>8, <2>1, <2>2
  <2>3. CASE ~(i \in 1 .. 4)
    <3>1. i >= 5 /\ i - 5 < n
      BY <2>1, <2>3
    <3>2. s[i] = mem[i]
      BY <1>8, <2>1, <2>3, <3>1
    <3> QED
      BY <1>5, <3>2
  <2> QED
    BY <2>2, <2>3
<1>11. Reads(d, s, 0)
  <2>1. d.ix = IF 0 < d.len THEN 0 ELSE d.len
    BY <1>7
  <2>2. ASSUME NEW j \in Nat
        PROVE  s[j + 5] = IF j < d.len THEN d.memory[j + 5] ELSE 0
    <3>1. j + 5 \in Nat /\ j + 5 \notin 1 .. 4 /\ j + 5 >= 5 /\ (j + 5) - 5 = j
      OBVIOUS
    <3> QED
      BY <1>7, <1>8, <3>1
  <2> QED
    BY <1>7, <2>1, <2>2 DEF Reads
<1>12. Value(s)[4] = base
  <2>1. s[1] = row[1] /\ s[2] = row[2] /\ s[3] = row[3] /\ s[4] = row[4]
    BY <1>8
  <2> DEFINE v == Value(s)
  <2>2. v[0] = 0 /\ \A i \in Nat : v[i + 1] = v[i] * Byte + s[i + 1]
    BY <1>9, ValueIs
  <2> HIDE DEF v
  <2>3. v[1] = v[0] * Byte + s[1] /\ v[2] = v[1] * Byte + s[2] /\ v[3] = v[2] * Byte + s[3] /\ v[4] = v[3] * Byte + s[4]
    <3>1. 0 + 1 = 1 /\ 1 + 1 = 2 /\ 2 + 1 = 3 /\ 3 + 1 = 4
      OBVIOUS
    <3> QED
      BY <2>2, <3>1
  <2>4. v[1] = row[1]
    <3>1. row[1] \in Nat
      BY <1>1
    <3>2. 0 * Byte = 0
      BY <1>1
    <3>3. v[1] = 0 + row[1]
      BY <2>1, <2>2, <2>3, <3>2, Zenon
    <3> QED
      BY <3>1, <3>3
  <2> QED
    BY <2>1, <2>3, <2>4, Zenon DEF v
<1>13. Follows(d, s, EncInit)
  <2>1. Low(EncInit) = 0 /\ Len(EncInit.buffer) = 0 /\ EncInit.range = RangeTop
    BY EncInitOK DEF EncInit
  <2>2. 0 + d.base = Value(s)[0 + 4]
    <3> HIDE DEF base
    <3> QED
      BY <1>6, <1>7, <1>12
  <2> QED
    BY <1>7, <1>11, <2>1, <2>2 DEF Follows
<1> QED
  BY <1>5, <1>7, <1>9, <1>10, <1>13 DEF s, d

\* A carry that runs back over the buffer finds a byte that is not full.
CarryEnds(buffer) == \E i \in DOMAIN buffer : /\ buffer[i] < Byte - 1
                                              /\ \A j \in i + 1 .. Len(buffer) : buffer[j] = Byte - 1

LEMMA CarryEndsBelow ==
  ASSUME NEW e, EncOK(e), NEW more \in Nat, more < e.range * RangeTop, e.base + more >= Bytes(4)
  PROVE  CarryEnds(e.buffer)
<1> DEFINE b == e.buffer
           s == Padded(b)
           n == Len(b)
<1>1. b \in ByteSeqs /\ n \in Nat /\ DOMAIN b = 1 .. n
  BY EncOKIs, ByteSeqIs
<1>2. s \in Streams /\ \A i \in 1 .. n : s[i] = b[i]
  BY <1>1, PaddedIs DEF Padded
<1>3. Value(s)[n] + 1 < Bytes(n)
  BY CarryKeepsNumber DEF Number
<1> HIDE DEF s
<1>4. PICK i \in 1 .. n : s[i] < Byte - 1 /\ \A j \in i + 1 .. n : s[j] = Byte - 1
  BY <1>1, <1>2, <1>3, SomeByteNotFull
<1>5. b[i] < Byte - 1 /\ \A j \in i + 1 .. n : b[j] = Byte - 1
  <2>1. \A j \in i + 1 .. n : j \in 1 .. n
    BY <1>1
  <2> QED
    BY <1>2, <1>4, <2>1
<1> QED
  BY <1>1, <1>5 DEF CarryEnds

\* range_encoder and range_enc_wrap_up: the loop that carries back over the
\* buffer ends within it, whatever was encoded before.
THEOREM CarryStops ==
  ASSUME NEW Symbols, \A x \in Symbols : IsSymbol(x), NEW symbols \in Seq(Symbols),
         ~EncodeSymbols(EncInit, symbols).error
  PROVE  LET e == EncodeSymbols(EncInit, symbols)
         IN  /\ \A x \in Symbols :
                  e.base + e.range * x.cdf[x.data + 1] >= Bytes(4) => CarryEnds(e.buffer)
             /\ Rounded(e) >= Bytes(3) => CarryEnds(e.buffer)
<1> DEFINE e == EncodeSymbols(EncInit, symbols)
<1>1. EncOK(e)
  <2>1. EncOK(EncInit)
    BY EncInitOK
  <2>2. \E at : /\ EncodeSymbols(EncInit, symbols) = at[Len(symbols)]
                /\ \A k \in 0 .. Len(symbols) : EncOK(at[k])
    BY <2>1, EncodingOK
  <2>3. Len(symbols) \in 0 .. Len(symbols)
    OBVIOUS
  <2> QED
    BY <2>2, <2>3
<1> HIDE DEF e
<1>2. ASSUME NEW x \in Symbols, e.base + e.range * x.cdf[x.data + 1] >= Bytes(4)
      PROVE  CarryEnds(e.buffer)
  <2> DEFINE low == x.cdf[x.data + 1]
             top == x.cdf[x.data + 2]
             a   == e.range * low
             b   == e.range * top
             r   == e.range * RangeTop
  <2>1. low \in Nat /\ top \in Nat /\ low < top /\ top <= RangeTop
    BY IntervalOf DEF IsSymbol
  <2>2. e.range \in Nat /\ Byte <= e.range /\ Byte >= 4 /\ RangeTop \in Nat /\ Byte \in Nat
    BY <1>1, EncOKIs, ByteIs
  <2> HIDE DEF low, top
  <2>3. a < b
    <3>1. e.range > 0
      BY <2>2
    <3> QED
      BY <2>1, <2>2, <3>1, StrictProduct
  <2>4. a \in Nat /\ b \in Nat /\ r \in Nat /\ b <= r
    BY <2>1, <2>2, Products
  <2>5. e.base + a >= Bytes(4)
    BY <1>2 DEF low
  <2> HIDE DEF a, b, r
  <2>6. a < r
    BY <2>3, <2>4
  <2> QED
    BY <1>1, <2>4, <2>5, <2>6, CarryEndsBelow DEF r
<1>3. ASSUME Rounded(e) >= Bytes(3)
      PROVE  CarryEnds(e.buffer)
  <2> DEFINE g == Rounded(e)
             b == Bytes(3)
  <2>1. g \in Nat /\ b \in Nat /\ Byte \in Nat /\ b <= g
    <3>1. g \in Nat /\ b \in Nat /\ Byte \in Nat
      BY <1>1, RoundedIs, BytesPositive, ByteIs
    <3> HIDE DEF g, b
    <3> QED
      BY <1>3, <3>1 DEF g, b
  <2>2. e.base + More(e) = g * Byte /\ Bytes(4) = Byte * b /\ More(e) \in Nat /\ More(e) < e.range * RangeTop
    BY <1>1, SumIs, FourBytes
  <2> HIDE DEF g, b
  <2>3. Byte * b <= g * Byte /\ g * Byte \in Nat /\ Byte * b \in Nat
    BY <2>1, Products
  <2>4. e.base + More(e) >= Bytes(4)
    BY <2>2, <2>3
  <2> QED
    BY <1>1, <2>2, <2>4, CarryEndsBelow
<1> QED
  BY <1>2, <1>3 DEF e

\* A packet's stream read back: whatever symbols were encoded, whatever the
\* decoder has read before and whatever lies in memory behind the stream, the
\* decoder reads these symbols, is at the end of the stream when it has
\* read them, and finds the end as range_enc_wrap_up leaves it.
THEOREM StreamReadsBack ==
  ASSUME NEW Symbols, \A x \in Symbols : IsSymbol(x), NEW symbols \in Seq(Symbols),
         ~EncodeSymbols(EncInit, symbols).error,
         NBytes(Len(EncodeSymbols(EncInit, symbols).buffer), EncodeSymbols(EncInit, symbols).range)
           <= MAX_ARITHM_BYTES,
         NEW before \in DecStates, Len(before.memory) = MAX_ARITHM_BYTES + 4,
         NEW row \in ByteSeqs, Len(row) >= 4, Len(row) >= Len(Finish(EncodeSymbols(EncInit, symbols))),
         \A i \in 1 .. Len(Finish(EncodeSymbols(EncInit, symbols))) :
           row[i] = Finish(EncodeSymbols(EncInit, symbols))[i]
  PROVE  LET n == Len(Finish(EncodeSymbols(EncInit, symbols)))
             r == ReadEach(DecInit(before, row, n), CdfsOf(symbols))
         IN  /\ r.data = DataOf(symbols)
             /\ r.rc.error = "none"
             /\ NBytes(r.rc.ix, r.rc.range) = n
             /\ CheckAfterDecoding(r.rc) = r.rc
<1> DEFINE e == EncodeSymbols(EncInit, symbols)
           f == Finish(e)
           n == Len(f)
           d == DecInit(before, row, n)
           s == StreamOf(row, d)
           r == ReadEach(d, CdfsOf(symbols))
           l == Len(e.buffer)
           g == Two[Gap(e)]
<1>1. EncOK(EncInit)
  BY EncInitOK
<1>2. EncOK(e)
  <2>1. \E at : /\ EncodeSymbols(EncInit, symbols) = at[Len(symbols)]
                /\ \A k \in 0 .. Len(symbols) : EncOK(at[k])
    BY <1>1, EncodingOK
  <2>2. Len(symbols) \in 0 .. Len(symbols)
    OBVIOUS
  <2> QED
    BY <2>1, <2>2
<1>3. NBytes(l, e.range) <= MAX_ARITHM_BYTES /\ NBytes(l, e.range) = l + TailSize(e)
  BY <1>2, StreamLength
<1>4. ~e.error /\ Len(row) >= n /\ \A i \in 1 .. n : row[i] = f[i]
  OBVIOUS
<1> HIDE DEF e
<1>5. /\ f \in ByteSeqs /\ n = l + TailSize(e) /\ f[n] % g = g - 1
      /\ \A t \in Streams : (\A i \in 1 .. n : t[i] = f[i]) => Inside(t, e)
  BY <1>2, <1>3, FinishInside
<1>6. l \in Nat /\ n \in Nat /\ n <= MAX_ARITHM_BYTES /\ l < n /\ n <= Len(row) /\ Len(row) \in Nat
  <2>1. l \in Nat /\ TailSize(e) \in 1 .. 2 /\ Len(row) \in Nat
    BY <1>2, EncOKIs, TailIs, ByteSeqIs
  <2> HIDE DEF f, l
  <2> QED
    BY <1>3, <1>4, <1>5, <2>1
<1> HIDE DEF f, n, l, g
<1>7. /\ d \in DecStates /\ d.len = n /\ \A i \in 1 .. n : d.memory[i] = row[i]
      /\ s \in Streams /\ \A i \in 1 .. n : s[i] = row[i]
      /\ Follows(d, s, EncInit)
  BY <1>6, DecInitFollows
<1>8. Inside(s, e)
  <2>1. \A i \in 1 .. n : s[i] = f[i]
    BY <1>4, <1>7
  <2> QED
    BY <1>5, <1>7, <2>1
<1> HIDE DEF d, s
<1>9. /\ r.data = DataOf(symbols) /\ Follows(r.rc, s, e) /\ r.rc.len = d.len /\ r.rc.memory = d.memory
  <2>1. ~EncodeSymbols(EncInit, symbols).error /\ Inside(s, EncodeSymbols(EncInit, symbols))
    BY <1>4, <1>8 DEF e
  <2> QED
    BY <1>1, <1>7, <2>1, InsideReadsBack DEF e
<1> DEFINE c == r.rc
<1> HIDE DEF r
<1>10. c.error = "none" /\ c.range = e.range /\ c.ix = l /\ c.len = n /\ c.memory[n] = f[n]
  <2>1. Reads(c, s, l) /\ c.error = "none" /\ c.range = e.range
    BY <1>9 DEF Follows, l
  <2>2. c.len = n /\ c.memory = d.memory
    BY <1>7, <1>9
  <2>3. c.ix = l
    BY <1>6, <2>1, <2>2 DEF Reads
  <2>4. n \in 1 .. n
    BY <1>6
  <2>5. c.memory[n] = f[n]
    BY <1>4, <1>7, <2>2, <2>4
  <2> QED
    BY <2>1, <2>2, <2>3, <2>5
<1> HIDE DEF c
<1>11. NBytes(c.ix, c.range) = n
  BY <1>3, <1>5, <1>10 DEF l
<1>12. CheckAfterDecoding(c) = c
  <2> DEFINE nBits == NBits(c.ix, c.range)
             ones  == IF nBits % ByteBits = 0 THEN 0 ELSE Two[ByteBits - (nBits % ByteBits)] - 1
  <2>1. ones = g - 1
    BY <1>2, <1>10, StreamLength DEF l, g
  <2>2. CheckAfterDecoding(c) = IF n - 1 >= c.len \/ c.memory[n] % (ones + 1) # ones
                                THEN [c EXCEPT !.error = "check failed"]
                                ELSE c
    BY <1>11, Zenon DEF CheckAfterDecoding
  <2> HIDE DEF ones
  <2>3. ~(n - 1 >= c.len)
    BY <1>6, <1>10
  <2>4. g \in Nat /\ ones + 1 = g
    <3>1. g \in Nat
      BY <1>2, LastIsRound DEF g
    <3> QED
      BY <2>1, <3>1
  <2>5. c.memory[n] % (ones + 1) = ones
    BY <1>5, <1>10, <2>1, <2>4, Zenon
  <2> QED
    BY <2>2, <2>3, <2>5, Zenon
<1> QED
  BY <1>9, <1>10, <1>11, <1>12 DEF c, r, d, n, f, e
=============================================================================
