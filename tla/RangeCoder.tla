------------------------------ MODULE RangeCoder ------------------------------
(***************************************************************************)
(* The entropy coder of the voice codec (SKP_Silk_range_coder.c): it turns *)
(* a sequence of symbols, each with its cumulative density table, into     *)
(* bytes, and back.  The coder keeps a byte of ByteBits bits, a range of   *)
(* two bytes and a base of four; the code's ByteBits is 8.  All arithmetic *)
(* is on the widths of the code: what a 32-bit word loses is lost here.    *)
(*                                                                         *)
(* A table is a sequence that rises from 0 to RangeTop (0xFFFF); symbol s  *)
(* owns the interval from its entry s+1 to entry s+2.                      *)
(***************************************************************************)
EXTENDS Integers, Sequences

CONSTANTS ByteBits,         \* bits of a byte: 8
          MAX_ARITHM_BYTES  \* bytes of a coder's buffer: 1024

ASSUME CoderAssumption == ByteBits \in Nat \ {0, 1} /\ MAX_ARITHM_BYTES \in Nat \ {0}

(* Powers of two: of n bits, and of n bytes. *)
Two[n \in Nat] == IF n = 0 THEN 1 ELSE 2 * Two[n - 1]
Bytes(n)       == Two[n * ByteBits]

Byte     == Bytes(1)
RangeTop == Bytes(2) - 1

(* A table of the code, written for 16-bit ranges, at the range's width. *)
Scaled(cdf) == [i \in DOMAIN cdf |-> (cdf[i] * RangeTop) \div 65535]

-----------------------------------------------------------------------------
(* Bytes the interval is too narrow for, and how much each coder shifts.   *)
Widened(range32) == IF range32 >= Bytes(3) THEN 0 ELSE IF range32 >= Bytes(2) THEN 1 ELSE 2

Narrowed(range32) == range32 \div Bytes(2 - Widened(range32))

(* Leading zeros of a two-byte number. *)
LeadingZeros(x) == CHOOSE z \in 0 .. 2 * ByteBits :
                      /\ x < Two[2 * ByteBits - z]
                      /\ z < 2 * ByteBits => x >= Two[2 * ByteBits - z - 1]

(* SKP_Silk_range_coder_get_length: bits and bytes of the stream so far. *)
NBits(ix, range)  == ix * ByteBits + LeadingZeros(range - 1) + 2
NBytes(ix, range) == (NBits(ix, range) + ByteBits - 1) \div ByteBits

-----------------------------------------------------------------------------
(* The encoder. *)

EncInit == [base |-> 0, range |-> RangeTop, buffer |-> <<>>, error |-> FALSE]

(* The carry runs back over the full bytes and stops in the first that is
   not: those it passed wrap to zero. *)
CarryInto(buffer) ==
  LET stop == CHOOSE i \in DOMAIN buffer :
                 /\ buffer[i] < Byte - 1
                 /\ \A j \in i + 1 .. Len(buffer) : buffer[j] = Byte - 1
  IN  [i \in DOMAIN buffer |-> IF i < stop THEN buffer[i]
                               ELSE IF i = stop THEN buffer[i] + 1 ELSE 0]

(* The top n bytes of the base, as they leave it. *)
TopBytes(base, n) == [i \in 1 .. n |-> (base \div Bytes(4 - i)) % Byte]

EncodeSymbol(rc, cdf, data) ==
  LET sum     == rc.base + rc.range * cdf[data + 1]
      base    == sum % Bytes(4)
      range32 == rc.range * (cdf[data + 2] - cdf[data + 1])
      buffer  == IF sum >= Bytes(4) THEN CarryInto(rc.buffer) ELSE rc.buffer
      n       == Widened(range32)
  IN  IF rc.error THEN rc
      ELSE IF Len(buffer) + n > MAX_ARITHM_BYTES
           THEN [rc EXCEPT !.buffer = buffer, !.error = TRUE]
           ELSE [base   |-> (base * Bytes(n)) % Bytes(4),
                 range  |-> Narrowed(range32),
                 buffer |-> buffer \o TopBytes(base, n),
                 error  |-> FALSE]

EncodeSymbols(rc, symbols) ==
  LET f[i \in 0 .. Len(symbols)] ==
        IF i = 0 THEN rc ELSE EncodeSymbol(f[i - 1], symbols[i].cdf, symbols[i].data)
  IN  f[Len(symbols)]

(* Seeded fault: the lower limit of the interval cut off, not rounded up. *)
FinishCutOff(rc) == rc.buffer \o TopBytes(rc.base, NBytes(Len(rc.buffer), rc.range) - Len(rc.buffer))

(* SKP_Silk_range_enc_wrap_up: the shortest stream any continuation of
   which still decodes to the same symbols, its last bits filled with ones. *)
Finish(rc) ==
  LET nBits   == NBits(Len(rc.buffer), rc.range)
      toStore == nBits - Len(rc.buffer) * ByteBits
      unit    == Two[3 * ByteBits - toStore]
      rounded == rc.base \div Byte + (Bytes(3) \div 2) \div Two[toStore - 1]
      base24  == rounded - (rounded % unit)
      buffer  == IF base24 >= Bytes(3) THEN CarryInto(rc.buffer) ELSE rc.buffer
      tail    == IF toStore > ByteBits
                 THEN <<(base24 \div Bytes(2)) % Byte, (base24 \div Byte) % Byte>>
                 ELSE <<(base24 \div Bytes(2)) % Byte>>
      whole   == buffer \o tail
      stored  == IF Len(whole) > MAX_ARITHM_BYTES THEN SubSeq(whole, 1, MAX_ARITHM_BYTES) ELSE whole
      nBytes  == NBytes(Len(rc.buffer), rc.range)
      ones    == IF nBits % ByteBits = 0 THEN 0 ELSE Two[ByteBits - (nBits % ByteBits)] - 1
  IN  IF nBytes <= Len(stored)
      THEN [stored EXCEPT ![nBytes] = (@ - (@ % (ones + 1))) + ones]
      ELSE stored

-----------------------------------------------------------------------------
(* The decoder.  Its buffer outlives the packets: "memory" is the whole of
   it, "len" the length of the stream that was copied to its beginning. *)

DecZero == [base |-> 0, range |-> 0, ix |-> 0, len |-> 0, error |-> "none",
            memory |-> [i \in 1 .. MAX_ARITHM_BYTES + 4 |-> 0]]

(* "row" is the memory the stream lies in, of which n bytes are the stream:
   the base takes its first four bytes, the stream's or not. *)
DecInit(rc, row, n) ==
  IF n > MAX_ARITHM_BYTES \/ n < 0
  THEN [rc EXCEPT !.error = "payload too long"]
  ELSE [base   |-> ((row[1] * Byte + row[2]) * Byte + row[3]) * Byte + row[4],
        range  |-> RangeTop,
        ix     |-> 0,
        len    |-> n,
        error  |-> "none",
        memory |-> SubSeq(row, 1, n) \o SubSeq(rc.memory, n + 1, Len(rc.memory))]

(* Shifting the base lets the next byte of &buffer[4] in while there is
   one; the limit is on the index, not on the address. *)
ShiftIn(rc) ==
  [rc EXCEPT !.base = @ * Byte + (IF rc.ix < rc.len THEN rc.memory[rc.ix + 5] ELSE 0),
             !.ix   = IF rc.ix < rc.len THEN @ + 1 ELSE @]

(* The search from the middle of the table ends at the interval that holds
   the base; a base beyond the table ends it with an error. *)
Holder(rc, cdf) == {s \in 0 .. Len(cdf) - 2 :
                       rc.range * cdf[s + 1] <= rc.base /\ rc.base < rc.range * cdf[s + 2]}

(* The decoder's state after the symbol, and the symbol. *)
DecodeSymbol(rc, cdf) ==
  LET Failed(why) == [rc |-> [rc EXCEPT !.error = why], data |-> 0]
      Shifted(next, n) == CASE n = 0 -> next
                            [] n = 1 -> ShiftIn(next)
                            [] n = 2 -> ShiftIn(ShiftIn(next))
      Left(data, base, range32) ==
        IF base >= Bytes(4 - Widened(range32)) /\ Widened(range32) > 0
        THEN Failed("normalization failed")
        ELSE [rc   |-> Shifted([rc EXCEPT !.base = base, !.range = Narrowed(range32)],
                               Widened(range32)),
              data |-> data]
      Took(data) == Left(data, rc.base - rc.range * cdf[data + 1],
                         rc.range * (cdf[data + 2] - cdf[data + 1]))
  IN  IF rc.error # "none" THEN [rc |-> rc, data |-> 0]
      ELSE IF Holder(rc, cdf) = {} THEN Failed("cdf out of range")
      ELSE Took(CHOOSE s \in Holder(rc, cdf) : TRUE)

(* A reader returns the decoder's state after what it read, and what it
   read. *)

Unread(rc) == [rc |-> rc, data |-> <<>>]

(* What was read before, and what was read next. *)
Added(s, r) == [rc |-> r.rc, data |-> Append(s.data, r.data)]

(* SKP_Silk_range_decoder_multi: one symbol of each table. *)
ReadEach(rc, cdfs) ==
  LET Further(s, cdf) == Added(s, DecodeSymbol(s.rc, cdf))
      f[i \in 0 .. Len(cdfs)] == IF i = 0 THEN Unread(rc) ELSE Further(f[i - 1], cdfs[i])
  IN  f[Len(cdfs)]

(* SKP_Silk_range_coder_check_after_decoding: the bits the encoder filled
   the last byte with are all ones. *)
CheckAfterDecoding(rc) ==
  LET nBits  == NBits(rc.ix, rc.range)
      nBytes == NBytes(rc.ix, rc.range)
      ones   == IF nBits % ByteBits = 0 THEN 0 ELSE Two[ByteBits - (nBits % ByteBits)] - 1
  IN  IF nBytes - 1 >= rc.len \/ rc.memory[nBytes] % (ones + 1) # ones
      THEN [rc EXCEPT !.error = "check failed"]
      ELSE rc
=============================================================================
