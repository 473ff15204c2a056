----------------------------- MODULE RTPProtocol -----------------------------
(***************************************************************************)
(* How an RTPObject becomes a packet and a packet becomes an RTPObject:    *)
(* RTPProtocol::encode, parse and decode, byte by byte.  A packet is a     *)
(* sequence of bytes, whose byte at offset i is element i + 1.             *)
(*                                                                         *)
(* No caller gives a packet CSRCs or padding, so that the objects here     *)
(* have none; decode and parse read both from the packet all the same.     *)
(***************************************************************************)
EXTENDS Integers, Sequences

Byte == 0 .. 255
Short == 0 .. 65535
Word == {n \in Nat : n \div 16777216 \in Byte}

\* htons, htonl, ntohs and ntohl.
Htons(n) == <<n \div 256, n % 256>>
Htonl(n) == <<n \div 16777216, (n \div 65536) % 256, (n \div 256) % 256, n % 256>>
Ntohs(p, i) == 256 * p[i] + p[i + 1]
Ntohl(p, i) == 16777216 * p[i] + 65536 * p[i + 1] + 256 * p[i + 2] + p[i + 3]

\* The extension is whole words of four bytes, whose number has two bytes.
Extensions == {e \in Seq(Byte) : Len(e) % 4 = 0 /\ Len(e) \div 4 \in Short}

RTPObjects ==
  [payloadtype : Byte, marker : BOOLEAN, sequence : Short, timestamp : Word,
   ssrc : Word, extid : Short, extension : Extensions, payload : Seq(Byte)]

RTPHeaderSize == 12
RTPExtensionHeaderSize == 4

\* encode refuses the types that would look like RTCP.
MayEncode(obj) == obj.payloadtype \notin {72, 73} /\ obj.payloadtype <= 127

\* Version 2, no padding, no CSRC.
Header(obj) ==
  <<128 + (IF obj.extension # <<>> THEN 16 ELSE 0),
    (IF obj.marker THEN 128 ELSE 0) + (obj.payloadtype % 128)>>
  \o Htons(obj.sequence) \o Htonl(obj.timestamp) \o Htonl(obj.ssrc)

Extension(obj) ==
  IF obj.extension = <<>> THEN <<>>
  ELSE Htons(obj.extid) \o Htons(Len(obj.extension) \div 4) \o obj.extension

\* Seeded fault: the extension's own header is not counted.
PayloadAtSkipsHeader(p) ==
  RTPHeaderSize + 4 * (p[1] % 16)
  + IF (p[1] \div 16) % 2 = 0 THEN 0
    ELSE 4 * Ntohs(p, RTPHeaderSize + 4 * (p[1] % 16) + 3)

\* getRTPPayloadOffset.
PayloadAt(p) ==
  RTPHeaderSize + 4 * (p[1] % 16)
  + IF (p[1] \div 16) % 2 = 0 THEN 0
    ELSE RTPExtensionHeaderSize + 4 * Ntohs(p, RTPHeaderSize + 4 * (p[1] % 16) + 3)

\* getRTPPaddingSize.
Padding(p) == IF (p[1] \div 32) % 2 = 0 THEN 0 ELSE p[Len(p)]

\* The header is written before the payload, which the sender put at
\* getPrefixSize in the same memory.
Encode(obj) == Header(obj) \o Extension(obj) \o obj.payload

\* onSent: the moment of sending overwrites the time of encoding.
Stamp(p, now) ==
  [i \in DOMAIN p |-> IF i \in 5 .. 8 THEN Htonl(now)[i - 4] ELSE p[i]]

\* A version 2 packet whose marker and type are no RTCP type. The test for a
\* payload of negative length is made on unsigned numbers, and never holds.
Parse(p) ==
  /\ Len(p) >= RTPHeaderSize
  /\ p[1] \div 64 = 2
  /\ ~(p[2] \div 128 = 1 /\ p[2] % 128 \in {72, 73})

\* The extension's identity is taken without ntohs, on machines whose numbers
\* start with the low byte.
Decode(p) ==
  LET extended == (p[1] \div 16) % 2 = 1
      extAt == RTPHeaderSize + 4 * (p[1] % 16)
      words == Ntohs(p, extAt + 3)
      hasextension == extended /\ words > 0
  IN [payloadtype |-> p[2] % 128,
      marker      |-> p[2] \div 128 = 1,
      sequence    |-> Ntohs(p, 3),
      timestamp   |-> Ntohl(p, 5),
      ssrc        |-> Ntohl(p, 9),
      extid       |-> IF hasextension THEN p[extAt + 1] + 256 * p[extAt + 2] ELSE 0,
      extension   |-> IF hasextension
                      THEN SubSeq(p, extAt + RTPExtensionHeaderSize + 1,
                                  extAt + RTPExtensionHeaderSize + 4 * words)
                      ELSE <<>>,
      payload     |-> SubSeq(p, PayloadAt(p) + 1, Len(p) - Padding(p))]

\* What the receiver makes of an object that was encoded and sent at now.
Swapped(n) == 256 * (n % 256) + n \div 256
Received(obj, now) ==
  [obj EXCEPT !.timestamp = now,
              !.extid = IF obj.extension = <<>> THEN 0 ELSE Swapped(obj.extid)]
=============================================================================
