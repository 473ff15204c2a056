----------------------------- MODULE VoiceRecord -----------------------------
(***************************************************************************)
(* A talk on its way into a recording and out of it again.  The sender     *)
(* packs the encoder's blocks into packets and sends them with an empty    *)
(* preamble and an end; the network loses and reorders them; the receiver  *)
(* decodes them and hands them to the queue of a transaction, whose record *)
(* filter appends their blocks to the file named after the stream; and     *)
(* playLocalFile reads the file.                                           *)
(*                                                                         *)
(* A transaction holds the file open from its construction to its          *)
(* deletion.  A packet that no transaction of the stream takes any more    *)
(* raises another one, for the same file.                                  *)
(***************************************************************************)
EXTENDS AudPacket, SilkFile

CONSTANTS
  SSRC,           \* of the stream
  ExternData,     \* the extension of its packets
  VoiceTypes,     \* payload types its sender may use
  Packages,       \* what a call of the encoder may make: sequences of blocks
  Times,          \* seconds, as timestamps
  MaxPackets,     \* bound on the packets of the talk
  MaxTransactions \* bound on the transactions the stream is given

Silence == [i \in 1 .. 4 |-> 0]   \* the payload of an end packet

\* The encoder is given room for 1024 bytes, behind the sizes of its two layers.
MaxBlockSize == 4 + 1024
EncodedBlocks == {block \in Seq(Byte) : Len(block) \in 1 .. MaxBlockSize}

ASSUME VoiceRecordAssumption ==
  /\ SSRC \in Word /\ ExternData \in Extensions /\ ExternData # <<>>
  /\ VoiceTypes \subseteq 96 .. 99 /\ Times \subseteq Word
  /\ MaxPackets \in Nat \ {0} /\ 0 .. MaxPackets - 1 \subseteq Short
  /\ MaxTransactions \in Nat \ {0}
  /\ \A blocks \in Packages : blocks \in Seq(EncodedBlocks)

Transactions == 1 .. MaxTransactions

VARIABLES
  seq, talking,  \* context.seq, and whether the talk still goes on
  net,           \* packets on their way, with what each was made of
  raised,        \* transactions raised so far
  accepts,       \* those whose queue can be written
  stream,        \* of each, its record filter's stream,
  recordType,    \* and the payload type it records: its format and bandType
  hand,          \* the packet whose blocks the network thread records
  disk,          \* the file
  player, at,    \* the local file source, and its offset
  due,           \* history: blocks of the packets the filters took
  recorded,      \* history: blocks that writeBlock wrote, in that order
  played,        \* history: blocks that readBlock returned
  overlapped     \* history: the file was opened while it was open

talk == <<seq, talking, net>>
filters == <<raised, accepts, stream, recordType, hand, disk, due, recorded,
             overlapped>>
source == <<player, at, played>>
vars == <<talk, filters, source>>

Idle == [rec |-> 0, timestamp |-> 0, spr |-> 0, blocks |-> <<>>]
RTP_PT_UNKNOWN == 0
BlockType(pt) == CASE pt \in {96, 100} -> 0 [] pt = 97 -> 1
                   [] pt \in {98, 101} -> 2 [] pt = 99 -> 3
IsUseBlockPacket(pt) == pt \in 96 .. 99
IsValidAudioFormat(pt) == pt \in 96 .. 101

Init ==
  /\ seq = 0 /\ talking = TRUE /\ net = {}
  /\ raised = 0 /\ accepts = {}
  /\ stream = [r \in Transactions |-> Closed]
  /\ recordType = [r \in Transactions |-> RTP_PT_UNKNOWN]
  /\ hand = Idle /\ disk = <<>> /\ due = <<>> /\ recorded = <<>>
  /\ overlapped = FALSE
  /\ player = "none" /\ at = 0 /\ played = <<>>

-----------------------------------------------------------------------------
\* An object goes out: numbered, encoded, and stamped as it is sent.
Send(pt, marker, payload, blocks, now) ==
  LET obj == [payloadtype |-> pt, marker |-> marker, sequence |-> seq,
              timestamp |-> 0, ssrc |-> SSRC, extid |-> 0,
              extension |-> ExternData, payload |-> payload]
  IN /\ seq < MaxPackets /\ talking
     /\ MayEncode(obj)
     /\ net' = net \cup {[bytes |-> Stamp(Encode(obj), now), obj |-> obj, sent |-> now,
                            blocks |-> blocks]}
     /\ seq' = seq + 1
     /\ UNCHANGED <<filters, source>>

\* sendEmptyRTP(VL_FALSE): no payload and no type, to open the way.
SendPreamble(now) ==
  /\ Send(RTP_PT_UNKNOWN, FALSE, <<>>, <<>>, now)
  /\ UNCHANGED talking

\* consumePcm: what one call of the SILK encoder made.
SendVoice(pt, blocks, now) ==
  /\ Send(pt, FALSE, Pack(blocks), blocks, now)
  /\ UNCHANGED talking

\* sendEmptyRTP(VL_TRUE): a marked packet of zeros, of the voice's type.
SendEnd(pt, now) ==
  /\ Send(pt, TRUE, Silence, <<>>, now)
  /\ talking' = FALSE

-----------------------------------------------------------------------------
\* The queues are asked in the order they were registered.
Acceptor == CHOOSE r \in accepts : \A s \in accepts : r <= s

\* A packet no queue takes raises a transaction, whose record filter opens the
\* file; the packet itself may wait in the cache.
Raise(p) ==
  /\ Parse(p.bytes) /\ Decode(p.bytes).extension # <<>>
  /\ hand = Idle /\ accepts = {} /\ raised < MaxTransactions
  /\ raised' = raised + 1
  /\ accepts' = {raised + 1}
  /\ stream' = [stream EXCEPT ![raised + 1] = Opened(disk)]
  /\ overlapped' = (overlapped \/ \E r \in Transactions : stream[r].open)
  /\ UNCHANGED <<talk, recordType, hand, disk, due, recorded, source>>

\* RecordFilter::process takes format and band from the first packet of voice,
\* and leaves packets of another one, and of none, alone.
Records(r, obj) ==
  /\ IsValidAudioFormat(obj.payloadtype)
  /\ recordType[r] \in {RTP_PT_UNKNOWN, obj.payloadtype}

\* IOQueue::write: the filter takes the packet apart, and the marker shuts the
\* writing.
Deliver(p) ==
  LET obj == Decode(p.bytes)
      r == Acceptor
  IN /\ Parse(p.bytes) /\ obj.ssrc = SSRC
     /\ hand = Idle /\ accepts # {}
     /\ net' = net \ {p}
     /\ IF Records(r, obj)
        THEN /\ recordType' = [recordType EXCEPT ![r] = obj.payloadtype]
             /\ hand' = [rec |-> r, timestamp |-> obj.timestamp,
                         spr |-> BlockType(obj.payloadtype),
                         blocks |-> IF IsUseBlockPacket(obj.payloadtype)
                                    THEN Blocks(obj.payload) ELSE <<obj.payload>>]
             /\ due' = due \o [i \in DOMAIN p.blocks |->
                                [spr |-> BlockType(p.obj.payloadtype),
                                 timestamp |-> p.sent, payload |-> p.blocks[i]]]
        ELSE UNCHANGED <<recordType, hand, due>>
     /\ accepts' = IF obj.marker THEN accepts \ {r} ELSE accepts
     /\ UNCHANGED <<seq, talking, raised, stream, disk, recorded, overlapped, source>>

\* writeBlock, for the next block of the packet.
WriteBlock ==
  LET r == hand.rec
      block == [spr |-> hand.spr, timestamp |-> hand.timestamp, payload |-> Head(hand.blocks)]
      bytes == BlockBytes(stream[r], block)
  IN /\ hand.blocks # <<>>
     /\ IF MayWrite(block)
        THEN /\ stream' = [stream EXCEPT ![r] = Written(@, bytes)]
             /\ disk' = Flushed(stream[r], disk, bytes)
             /\ recorded' = Append(recorded, block)
        ELSE UNCHANGED <<stream, disk, recorded>>
     /\ hand' = [hand EXCEPT !.blocks = Tail(@)]
     /\ UNCHANGED <<talk, raised, accepts, recordType, due, overlapped, source>>

\* The packet has gone through the filter.
WrittenOut ==
  /\ hand # Idle /\ hand.blocks = <<>>
  /\ hand' = Idle
  /\ UNCHANGED <<talk, raised, accepts, stream, recordType, disk, due, recorded, overlapped,
                 source>>

\* The write timeout of the queue.
Timeout(r) ==
  /\ r \in accepts
  /\ accepts' = accepts \ {r}
  /\ UNCHANGED <<talk, raised, stream, recordType, hand, disk, due, recorded, overlapped,
                 source>>

\* The scheduler deletes a transaction whose stream has ended: the filter goes
\* after the queue has been taken from the endpoint, and flushes its stream.
Destroy(r) ==
  /\ stream[r].open /\ r \notin accepts /\ hand = Idle
  /\ disk' = disk \o stream[r].buffer
  /\ stream' = [stream EXCEPT ![r] = Closed]
  /\ UNCHANGED <<talk, raised, accepts, recordType, hand, due, recorded, overlapped, source>>

-----------------------------------------------------------------------------
\* SilkFileStreamSource's constructor reads one block for its band and goes
\* back to the first; a source without one is not handed to the scheduler.
PlayLocalFile ==
  /\ player = "none"
  /\ HasMagic(disk) /\ CanReadBlock(disk, Len(Magic))
  /\ player' = "playing" /\ at' = Len(Magic)
  /\ UNCHANGED <<talk, filters, played>>

\* feedPcm decodes the next block.
FeedBlock ==
  /\ player = "playing" /\ CanReadBlock(disk, at)
  /\ played' = Append(played, BlockAt(disk, at))
  /\ at' = NextBlockAt(disk, at)
  /\ UNCHANGED <<talk, filters, player>>

\* feedPcm closes the player's buffer at the first block that cannot be read.
FeedLast ==
  /\ player = "playing" /\ ~CanReadBlock(disk, at)
  /\ player' = "ended"
  /\ UNCHANGED <<talk, filters, at, played>>

Next ==
  \/ \E now \in Times : SendPreamble(now)
  \/ \E pt \in VoiceTypes, blocks \in Packages, now \in Times : SendVoice(pt, blocks, now)
  \/ \E pt \in VoiceTypes, now \in Times : SendEnd(pt, now)
  \/ \E p \in net : Raise(p)
  \/ \E p \in net : Deliver(p)
  \/ WriteBlock
  \/ WrittenOut
  \/ \E r \in Transactions : Timeout(r)
  \/ \E r \in Transactions : Destroy(r)
  \/ PlayLocalFile
  \/ FeedBlock
  \/ FeedLast

Spec == Init /\ [][Next]_vars

-----------------------------------------------------------------------------
\* Every packet on its way parses, and decodes to the object it was made of,
\* but for the time of its sending and the byte order of the extension's
\* identity: header, extension and payload lie where the other end looks.
ReceivedAsSent ==
  \A p \in net : Parse(p.bytes) /\ Decode(p.bytes) = Received(p.obj, p.sent)

\* When a packet has gone through, the file has been given every block that was
\* said in it, of odd and even length, with the band and the time it was sent
\* with, and nothing else: preamble and end leave nothing.
RecordedIsSpoken == hand = Idle => recorded = due

\* A recording plays back block by block as it was written, from the first, and
\* stops before the last only while a stream keeps something to itself, even
\* when several transactions wrote it one after the other. It does not where
\* two of them had the file open at once.
PlayedIsRecorded ==
  ~overlapped =>
    /\ IsPrefix(played, recorded)
    /\ (/\ player = "playing" /\ ~CanReadBlock(disk, at)
        /\ \A r \in Transactions : ~stream[r].open) => played = recorded
=============================================================================
