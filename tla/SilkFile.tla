------------------------------ MODULE SilkFile ------------------------------
(***************************************************************************)
(* The recording: a magic string, and blocks of a header and a payload.    *)
(* SilkStorage writes it through a stdio stream opened to append and reads *)
(* it through another one.  A stream to append to starts at the end of     *)
(* what the file has on disk, keeps up to BufferSize bytes to itself, and  *)
(* appends them to the file, wherever that ends by then.                   *)
(***************************************************************************)
EXTENDS RTPProtocol

CONSTANT BufferSize   \* of a stdio stream

ASSUME SilkFileAssumption == BufferSize \in Nat \ {0}

\* "#!SILK\n" and sizeof(SilkBlockHeader).
Magic == <<35, 33, 83, 73, 76, 75, 10>>
BlockHeaderSize == 6

\* setFlag and setTimestamp: three bits of rate and thirteen of length.
BlockHeader(block) ==
  Htons(8192 * block.spr + (Len(block.payload) % 8192)) \o Htonl(block.timestamp)

\* fopen(path, "ab+"), fwrite and fclose: the stream, and the file on disk.
Opened(disk) == [open |-> TRUE, tell |-> Len(disk), buffer |-> <<>>]
Closed == [open |-> FALSE, tell |-> 0, buffer |-> <<>>]
Full(bytes) == (Len(bytes) \div BufferSize) * BufferSize
Written(stream, bytes) ==
  LET all == stream.buffer \o bytes
  IN [stream EXCEPT !.tell = @ + Len(bytes),
                    !.buffer = SubSeq(all, Full(all) + 1, Len(all))]
Flushed(stream, disk, bytes) ==
  LET all == stream.buffer \o bytes IN disk \o SubSeq(all, 1, Full(all))

\* Seeded fault: every stream that has nothing waiting starts with the magic.
BlockBytesPerStream(stream, block) ==
  (IF stream.buffer = <<>> THEN Magic ELSE <<>>) \o BlockHeader(block) \o block.payload

\* writeBlock: the magic goes before the first block of an empty file.
BlockBytes(stream, block) ==
  (IF stream.tell = 0 THEN Magic ELSE <<>>) \o BlockHeader(block) \o block.payload

\* writeBlock refuses an empty block.
MayWrite(block) == Len(block.payload) > 0

HasMagic(disk) == Len(disk) >= Len(Magic) /\ SubSeq(disk, 1, Len(Magic)) = Magic

OctetsAt(disk, offset) == Ntohs(disk, offset + 1) % 8192

\* readBlock fails in the middle of a block and on a length of zero.
CanReadBlock(disk, offset) ==
  /\ offset + BlockHeaderSize <= Len(disk)
  /\ disk[offset + 1] \div 32 <= 3
  /\ OctetsAt(disk, offset) > 0
  /\ offset + BlockHeaderSize + OctetsAt(disk, offset) <= Len(disk)

NextBlockAt(disk, offset) == offset + BlockHeaderSize + OctetsAt(disk, offset)

BlockAt(disk, offset) ==
  [spr |-> disk[offset + 1] \div 32,
   timestamp |-> Ntohl(disk, offset + 3),
   payload |-> SubSeq(disk, offset + BlockHeaderSize + 1, NextBlockAt(disk, offset))]
=============================================================================
