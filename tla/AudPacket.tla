------------------------------ MODULE AudPacket ------------------------------
(***************************************************************************)
(* The payload of a voice packet: the blocks one call of the encoder made, *)
(* each behind its size in two bytes, at even offsets, and a size of zero  *)
(* at the end.  The sender packs them, the feeder and the record filter    *)
(* take them apart.  Nobody passes an offset that is not even, so that     *)
(* the payload starts at offset 0 here as it does in the packet.           *)
(***************************************************************************)
EXTENDS Integers, SequencesExt

CONSTANT Stale   \* what the pooled memory holds where nobody writes

ASSUME AudPacketAssumption == Stale \in 0 .. 255

\* fixBlockSize: the size, the block, and on to the next even offset.
FixBlockSize(packed, block) ==
  LET filled == packed \o <<Len(block) % 256, Len(block) \div 256>> \o block
  IN IF Len(filled) % 2 = 0 THEN filled ELSE Append(filled, Stale)

\* getEncodedPacket's loop, and closePacket.
Pack(blocks) == FoldLeft(FixBlockSize, <<>>, blocks) \o <<0, 0>>

BlockSize(payload, offset) == payload[offset + 1] + 256 * payload[offset + 2]

\* Seeded fault: the next block is looked for at an odd offset.
NextOffsetUnaligned(offset, size) == offset + 2 + size

\* Where getNextBlock goes on.
NextOffset(offset, size) == offset + 2 + size + (size % 2)

\* getNextBlock until it returns 0. A walk that missed the last size would
\* leave the payload; it ends there.
Blocks(payload) ==
  LET from[offset \in Nat] ==
        IF offset + 2 > Len(payload) THEN <<>>
        ELSE LET size == BlockSize(payload, offset)
                 last == offset + 2 + size
             IN IF size = 0 \/ last > Len(payload) THEN <<>>
                ELSE <<SubSeq(payload, offset + 3, last)>>
                     \o from[NextOffset(offset, size)]
  IN from[0]
=============================================================================
