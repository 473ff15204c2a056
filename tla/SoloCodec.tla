------------------------------ MODULE SoloCodec -------------------------------
(***************************************************************************)
(* The voice codec between the two ends of a talk.  A packet of 40 ms      *)
(* holds two frames, each coded twice: two descriptions with the same      *)
(* parameters and pulses of their own, any of which a frame can be made    *)
(* of.  A description is one range coder stream over the frames of a       *)
(* packet; behind the two lie the bytes of the high band.                  *)
(*                                                                         *)
(* What is modelled is everything the two ends must agree on: which symbol *)
(* follows which, with which table, what is coded relative to what came    *)
(* before, which stream lies where, and what each end remembers from frame *)
(* to frame and from packet to packet.  The signal processing that chooses *)
(* the parameters is the choice of a frame from Frames; its pulses are     *)
(* found by DelayedDecision, with the decoder simulated in the encoder, so *)
(* that both ends remember the same signal.  Left out are what the decoder *)
(* makes up for a lost packet, and the stream of the centre, which         *)
(* SKP_Silk_SDK_Encode cuts off the front of what it hands on.             *)
(***************************************************************************)
EXTENDS ShellPulses, DelayedDecision

CONSTANTS
  Frames,             \* frames the signal may give, as what the two ends must agree on
  HighBands,          \* words of the high band of a packet: [1..2 -> words]
  GainCDF,            \* [0..1 -> table], by signal type
  DeltaGainCDF, MDDeltaGainCDF,
  N_LEVELS_QGAIN, MIN_DELTA_GAIN_QUANT, MAX_DELTA_GAIN_QUANT,
  NLSF_CB,            \* [sampling rate -> [0..1 -> tables of the stages]]
  PitchLagCDF,        \* [sampling rate -> table]
  PitchContourCDF,    \* [sampling rate -> table]
  LTPGainCDF,         \* [0..2 -> table], by PERIndex
  Gains,              \* [level -> gain]
  DeltaGains,         \* [delta gain index -> share of the first description]
  NLSFs,              \* [sampling rate -> [0..1 -> [stage -> [index -> summand]]]]
  NLSF2A,             \* [NLSF -> short-term coefficients]
  MinLag,             \* [sampling rate -> lag of index 0]
  LagContours,        \* [sampling rate -> [contour -> lags of the subframes beyond the frame's]]
  LTPTaps,            \* [0..2 -> [index -> taps]], by PERIndex
  LTPScales,          \* [index -> fraction]
  HBWidths,           \* bits of the words of the high band: 12, 5, 5, 5, 5
  FS_INDEX,           \* the encoder's sampling rate, as index of its table
  UseMDIndex,         \* useMDIndex of both ends: 0 in Silk.cpp
  SimulateLoss,       \* packetLoss_perc > 0: descriptions are lost on purpose
  MaxPackets          \* bound: packets of a run

VARIABLES
  enc,      \* the encoder: SKP_Silk_encoder_state and SATEEncCtl
  wire,     \* the packet between the two ends, if any
  dec,      \* the decoder: SKP_Silk_decoder_state and SilkDecoder
  spoken,   \* what was said in the packet the encoder is at or ended last
  heard,    \* what the decoder made of the packet it was given last, until the next is begun
  packets,  \* packets ended so far
  tuned     \* history: the packets heard so far, all of one kind, or "out"

vars == <<enc, wire, dec, spoken, heard, packets, tuned>>

Descriptions == {1, 2}
Each(F(_))   == <<F(1), F(2)>>   \* something of each description
NB_FRAMES    == 2          \* HB2LB_NUM frames of 20 ms in a packet

ASSUME CodecAssumption ==
  /\ FS_INDEX \in 0 .. 3 /\ UseMDIndex \in BOOLEAN /\ SimulateLoss \in BOOLEAN
  /\ MaxPackets \in Nat /\ FrameLength % ShellLength = 0

Nothing == [kind |-> "nothing", frames |-> <<>>, high |-> <<>>]
None == [bytes |-> <<>>, n |-> <<0, 0>>]

(* The frame termination of a stream. *)
LAST_FRAME  == 0
MORE_FRAMES == 1

writeMDIndexCDF     == Scaled(<<0, 32768, 65535>>)
SamplingRatesCDF    == Scaled(<<0, 16000, 32000, 48000, 65535>>)
typeOffsetCDF       == Scaled(<<0, 37522, 41030, 44212, 65535>>)
typeOffsetJointCDF  == << Scaled(<<0, 57686, 61230, 62358, 65535>>),
                          Scaled(<<0, 18346, 40067, 43659, 65535>>),
                          Scaled(<<0, 22694, 24279, 35507, 65535>>),
                          Scaled(<<0, 6067, 7215, 13010, 65535>>) >>
NLSFInterpCDF       == Scaled(<<0, 3706, 8703, 19226, 30926, 65535>>)
LTPPerIndexCDF      == Scaled(<<0, 20992, 40788, 65535>>)
LTPscaleCDF         == Scaled(<<0, 32000, 48000, 65535>>)
SeedCDF             == Scaled(<<0, 16384, 32768, 49152, 65535>>)
vadflagCDF          == Scaled(<<0, 22000, 65535>>)
FrameTerminationCDF == Scaled(<<0, 20000, 45000, 56000, 65535>>)

-----------------------------------------------------------------------------
(* Gains are sent as steps from the gain before, and both ends keep that
   one: prev_ind here, LastGainIndex in their states. *)

(* SKP_Silk_gains_quant: from the levels wanted to the indices sent, the
   levels reached, and the level to go on from. *)
GainsQuant(wanted, prev, conditional) ==
  LET g[k \in 0 .. NB_SUBFR] ==
        IF k = 0 THEN [prev |-> prev, ind |-> <<>>, level |-> <<>>]
        ELSE LET s    == g[k - 1]
                 p    == s.prev
                 near == IF wanted[k] < p THEN wanted[k] + 1 ELSE wanted[k]
                 full == LET l == Limit(near, 0, N_LEVELS_QGAIN - 1)
                         IN  IF l < p + MIN_DELTA_GAIN_QUANT THEN p + MIN_DELTA_GAIN_QUANT ELSE l
                 step == Limit(near - p, MIN_DELTA_GAIN_QUANT, MAX_DELTA_GAIN_QUANT)
                 last == IF k = 1 /\ ~conditional THEN full ELSE p + step
             IN  [prev  |-> last,
                  ind   |-> Append(s.ind, IF k = 1 /\ ~conditional THEN full
                                                 ELSE step - MIN_DELTA_GAIN_QUANT),
                  level |-> Append(s.level, last)]
  IN  g[NB_SUBFR]

(* Seeded fault: the first gain of a packet taken as a step, too. *)
GainsDequantStep(ind, prev, conditional) ==
  LET g[k \in 0 .. NB_SUBFR] ==
        IF k = 0 THEN <<prev>>
        ELSE Append(g[k - 1], Limit(g[k - 1][k] + ind[k] + MIN_DELTA_GAIN_QUANT, 0, N_LEVELS_QGAIN - 1))
  IN  Tail(g[NB_SUBFR])

(* SKP_Silk_gains_dequant *)
GainsDequant(ind, prev, conditional) ==
  LET g[k \in 0 .. NB_SUBFR] ==
        IF k = 0 THEN <<prev>>
        ELSE LET s == g[k - 1]
             IN  Append(s, IF k = 1 /\ ~conditional THEN ind[k]
                           ELSE s[k] + ind[k] + MIN_DELTA_GAIN_QUANT)
  IN  Tail(g[NB_SUBFR])

-----------------------------------------------------------------------------
(* SKP_Silk_encode_parameters: the symbols of frame f in description k.
   Only the first frame of a packet names the sampling rate and is coded
   without regard to the frame before it. *)

TypeOffset(f) == 2 * f.sigtype + f.offsetType

HeadSymbols(k, first) ==
  (IF first /\ UseMDIndex THEN <<Symbol(writeMDIndexCDF, k - 1)>> ELSE <<>>)
  \o (IF first THEN <<Symbol(SamplingRatesCDF, FS_INDEX)>> ELSE <<>>)

TypeSymbol(f, first, typeOffsetPrev) ==
  Symbol(IF first THEN typeOffsetCDF ELSE typeOffsetJointCDF[typeOffsetPrev + 1], TypeOffset(f))

GainSymbols(f, ind, first) ==
  <<Symbol(IF first THEN GainCDF[f.sigtype] ELSE DeltaGainCDF, ind[1])>>
  \o [i \in 1 .. NB_SUBFR - 1 |-> Symbol(DeltaGainCDF, ind[i + 1])]
  \o (IF first THEN <<Symbol(MDDeltaGainCDF, f.deltaGain)>> ELSE <<>>)

NLSFSymbols(f) ==
  LET stages == NLSF_CB[FS_INDEX][f.sigtype]
  IN  [i \in DOMAIN stages |-> Symbol(stages[i], f.nlsf[i])]
      \o <<Symbol(NLSFInterpCDF, f.interp)>>

PitchSymbols(f) ==
  IF f.sigtype = UNVOICED THEN <<>>
  ELSE <<Symbol(PitchLagCDF[FS_INDEX], f.lag), Symbol(PitchContourCDF[FS_INDEX], f.contour),
         Symbol(LTPPerIndexCDF, f.per)>>
       \o [i \in 1 .. NB_SUBFR |-> Symbol(LTPGainCDF[f.per], f.ltp[i])]
       \o <<Symbol(LTPscaleCDF, f.ltpScale)>>

EncodeParameters(f, ind, k, first, typeOffsetPrev, seed, pulses) ==
  HeadSymbols(k, first) \o <<TypeSymbol(f, first, typeOffsetPrev)>> \o GainSymbols(f, ind, first)
  \o NLSFSymbols(f) \o PitchSymbols(f) \o <<Symbol(SeedCDF, seed)>>
  \o EncodePulses(f.sigtype, f.offsetType, pulses) \o <<Symbol(vadflagCDF, f.vad)>>

-----------------------------------------------------------------------------
(* The high band: the words of a frame packed bit by bit, most significant
   first, into the bytes behind the descriptions. *)

PackedBits(words) ==
  Joined([w \in DOMAIN words |->
            [b \in 1 .. HBWidths[w] |-> (words[w] \div 2^(HBWidths[w] - b)) % 2]], Len(words))

NumberOf(bits) == LET f[i \in 0 .. Len(bits)] == IF i = 0 THEN 0 ELSE 2 * f[i - 1] + bits[i]
                  IN  f[Len(bits)]

(* AGR_Sate_bits_pack over the words of every frame of the packet. *)
BitsPack(highs) ==
  LET bits == Joined([s \in DOMAIN highs |-> PackedBits(highs[s])], Len(highs))
  IN  [i \in 1 .. Len(bits) \div ByteBits |->
         NumberOf(SubSeq(bits, (i - 1) * ByteBits + 1, i * ByteBits))]

HB_BYTE == SumOf(HBWidths) \div ByteBits

(* AGR_Sate_bits_unpack_unsigned of word w of frame s, from byte "from" on. *)
BitsUnpack(bytes, from, s, w) ==
  LET bits == Joined([i \in DOMAIN bytes |->
                        [b \in 1 .. ByteBits |-> (bytes[i] \div 2^(ByteBits - b)) % 2]], Len(bytes))
      at   == from * ByteBits + (s - 1) * SumOf(HBWidths) + SumOf(SubSeq(HBWidths, 1, w - 1))
  IN  NumberOf(SubSeq(bits, at + 1, at + HBWidths[w]))

UnpackedWords(bytes, from, s) ==
  Joined([w \in DOMAIN HBWidths |-> <<BitsUnpack(bytes, from, s, w)>>], Len(HBWidths))

-----------------------------------------------------------------------------
(* What both ends make of the parameters of a frame. *)

(* The sum of a vector of each stage, as one number. *)
NLSFOf(fs, sigtype, path) ==
  SumOf([i \in DOMAIN path |-> NLSFs[fs][sigtype][i][path[i]]])

(* prevNLSF is the frame before: the first half may lie between the two. *)
Control(p, fs, prevNLSF) ==
  LET voiced == p.sigtype # UNVOICED
      At(nlsf) == << NLSF2A[prevNLSF + (p.interp * (nlsf - prevNLSF)) \div 4], NLSF2A[nlsf] >>
  IN  [sigtype  |-> p.sigtype, offsetType |-> p.offsetType,
       gains    |-> [k \in 1 .. NB_SUBFR |-> Gains[p.gains[k]]],
       share    |-> DeltaGains[p.dgain], interp |-> p.interp,
       coefs    |-> At(NLSFOf(fs, p.sigtype, p.nlsf)),
       pitchL   |-> [k \in 1 .. NB_SUBFR |->
                      IF voiced THEN MinLag[fs] + p.pitch[1] + LagContours[fs][p.pitch[2]][k] ELSE 0],
       taps     |-> IF voiced THEN [k \in 1 .. NB_SUBFR |-> LTPTaps[p.pitch[3]][p.pitch[3 + k]]] ELSE <<>>,
       ltpScale |-> IF voiced THEN LTPScales[Last(p.pitch)] ELSE 0,
       seed     |-> p.seed]

-----------------------------------------------------------------------------
Init ==
  /\ enc = [frames  |-> 0,                                \* nFramesInPayloadBuf
            rc      |-> Each(LAMBDA k : EncInit), \* sRC_md
            prev    |-> Each(LAMBDA k : 0),       \* typeOffsetPrev_desq
            gain    |-> 1,                                \* sShape.LastGainIndex
            counter |-> 0,                                \* frameCounter & 3
            nlsf    |-> 0,                                \* prev_NLSFq
            nsq     |-> NSQInit,                          \* sNSQ, sNSQ_md
            reset   |-> TRUE]                             \* first_frame_after_reset
  /\ wire = None
  /\ dec = [more   |-> FALSE,                             \* moreInternalDecoderFrames
            frames |-> 0,                                 \* nFramesDecoded
            fs     |-> 3,                                 \* 24 kHz at first
            reset  |-> TRUE,                              \* first_frame_after_reset
            rc     |-> Each(LAMBDA k : DecZero),  \* sMD[k].sRC
            prev   |-> Each(LAMBDA k : 0),        \* sMD[k].typeOffsetPrev
            gain   |-> Each(LAMBDA k : 1),        \* sMD[k].LastGainIndex
            dgain  |-> Each(LAMBDA k : 0),        \* sMD[k].prevDeltaGainIndex
            nlsf   |-> Each(LAMBDA k : 0),        \* sMD[k].prevNLSF
            core   |-> CoreInit, known |-> TRUE,          \* outBuf, sLPC, prev_inv_gain
            left   |-> Each(LAMBDA k : 0),        \* nBytesLeft
            ending |-> LAST_FRAME,                        \* FrameTermination
            even   |-> TRUE]                              \* run_count % MD_NUM = 0
  /\ spoken = [frames |-> <<>>, high |-> <<>>]
  /\ heard = Nothing
  /\ packets = 0
  /\ tuned = "start"

(* The first frame after a reset has nothing to interpolate from. *)
InterpOf(f) == IF enc.reset THEN 4 ELSE f.interp

(* The parameters of frame f as the encoder quantised them. *)
Said(f, levels) ==
  [sigtype |-> f.sigtype, offsetType |-> f.offsetType, gains |-> levels,
   dgain   |-> f.deltaGain, nlsf |-> f.nlsf, interp |-> InterpOf(f),
   pitch   |-> IF f.sigtype = UNVOICED THEN <<>>
               ELSE <<f.lag, f.contour, f.per>> \o f.ltp \o <<f.ltpScale>>,
   seed    |-> enc.counter, vad |-> f.vad]

(* SKP_Silk_SDK_Encode and SKP_Silk_encode_frame_FIX on one frame: what
   becomes of the encoder, and what the far end should make of the frame.
   A coder error of a description is only asserted on. *)
EncodedFrame(f) ==
  LET first == enc.frames = 0
      last  == enc.frames + 1 >= NB_FRAMES
      ends  == Symbol(FrameTerminationCDF, IF last THEN LAST_FRAME ELSE MORE_FRAMES)
      Coded(g, said, r) ==
        [enc  |-> [frames  |-> IF last THEN 0 ELSE enc.frames + 1,
                   rc      |-> Each(LAMBDA k :
                     EncodeSymbols(IF first THEN EncInit ELSE enc.rc[k],
                                   Append(EncodeParameters([f EXCEPT !.interp = said.interp], g.ind, k, first,
                                                           enc.prev[k], r.seed, r.q[k]), ends))),
                   prev    |-> Each(LAMBDA k : TypeOffset(f)),
                   gain    |-> g.prev,
                   counter |-> (enc.counter + 1) % 4,
                   nlsf    |-> NLSFOf(FS_INDEX, f.sigtype, f.nlsf),
                   nsq     |-> r.nsq,
                   reset   |-> FALSE],
         said |-> [said EXCEPT !.seed = r.seed] @@ [q |-> r.q, xq |-> r.xq]]
      Of(g, said) == Coded(g, said, NSQ(Control(said, FS_INDEX, enc.nlsf), enc.nsq, f.x))
      With(g)     == Of(g, Said(f, g.level))
  IN  With(GainsQuant(f.gains, enc.gain, ~first))

(* AGR_Sate_encode_process, first half of the packet: no payload yet. *)
EncodeFirst(f) ==
  LET Take(r) == enc' = r.enc /\ spoken' = [frames |-> <<r.said>>, high |-> <<>>]
  IN  /\ packets < MaxPackets /\ wire = None
      /\ enc.frames + 1 < NB_FRAMES
      /\ Take(EncodedFrame(f))
      /\ heard' = Nothing
      /\ UNCHANGED <<wire, dec, packets, tuned>>

(* The second half ends the streams, and they go out one behind the other
   with the high band behind both: |MD1|MD2|HB|.  The packet tells the
   length of the whole, and that of what is behind the first. *)
EncodeLast(f, highs) ==
  LET Sent(md, hb) ==
        wire' = [bytes |-> md[1] \o md[2] \o hb,
                 n     |-> <<Len(md[1]) + Len(md[2]) + Len(hb), Len(md[2]) + Len(hb)>>]
      Take(r) ==
        /\ enc' = r.enc
        /\ Sent(Each(LAMBDA k : Finish(r.enc.rc[k])), BitsPack(highs))
        /\ spoken' = [frames |-> Append(spoken.frames, r.said), high |-> highs]
  IN  /\ enc.frames + 1 = NB_FRAMES
      /\ Take(EncodedFrame(f))
      /\ packets' = packets + 1
      /\ UNCHANGED <<dec, heard, tuned>>

-----------------------------------------------------------------------------
(* SKP_Silk_decoder_set_fs *)
SetFs(d, fs) ==
  IF d.fs = fs THEN d
  ELSE [d EXCEPT !.fs = fs, !.reset = TRUE, !.gain = Each(LAMBDA k : 1), !.nlsf = Each(LAMBDA k : 0),
                 !.core = [CoreInit EXCEPT !.gain = d.core.gain]]

(* What is read of stream k of a frame, all of it still to come. *)
StartOf(d, k) ==
  [rc |-> d.rc[k], fs |-> d.fs, head |-> <<>>, type |-> <<>>, gains |-> <<>>, nlsf |-> <<>>,
   lag |-> <<>>, ltp |-> <<>>, seed |-> <<>>, q |-> <<>>, tail |-> <<>>]

(* One symbol of each table. *)
Read(s, field, cdfs) ==
  LET After(r) == [s EXCEPT !.rc = r.rc, ![field] = r.data] IN After(ReadEach(s.rc, cdfs))

SigType(s)    == s.type[1] \div 2
OffsetType(s) == s.type[1] % 2

ReadHead(s, first) ==
  LET After(r) == [r EXCEPT !.fs = IF first THEN Last(r.head) ELSE @]
  IN  After(Read(s, "head", (IF first /\ UseMDIndex THEN <<writeMDIndexCDF>> ELSE <<>>)
                            \o (IF first THEN <<SamplingRatesCDF>> ELSE <<>>)))

ReadType(s, first, typeOffsetPrev) ==
  Read(s, "type", <<IF first THEN typeOffsetCDF ELSE typeOffsetJointCDF[typeOffsetPrev + 1]>>)

ReadGains(s, first) ==
  Read(s, "gains", <<IF first THEN GainCDF[SigType(s)] ELSE DeltaGainCDF>>
                   \o [i \in 1 .. NB_SUBFR - 1 |-> DeltaGainCDF]
                   \o (IF first THEN <<MDDeltaGainCDF>> ELSE <<>>))

ReadNLSF(s) == Read(s, "nlsf", Append(NLSF_CB[s.fs][SigType(s)], NLSFInterpCDF))

ReadLag(s) ==
  IF SigType(s) = UNVOICED THEN s
  ELSE Read(s, "lag", <<PitchLagCDF[s.fs], PitchContourCDF[s.fs], LTPPerIndexCDF>>)

ReadLTP(s) ==
  IF SigType(s) = UNVOICED THEN s
  ELSE Read(s, "ltp", [i \in 1 .. NB_SUBFR |-> LTPGainCDF[s.lag[3]]] \o <<LTPscaleCDF>>)

ReadPulses(s) ==
  LET After(r) == [s EXCEPT !.rc = r.rc, !.q = r.data]
  IN  After(DecodePulses(s.rc, SigType(s), OffsetType(s), FrameLength))

ReadFrame(d, k) ==
  LET first == d.frames = 0
      type  == ReadType(ReadHead(StartOf(d, k), first), first, d.prev[k])
      pitch == ReadLTP(ReadLag(ReadNLSF(ReadGains(type, first))))
  IN  Read(ReadPulses(Read(pitch, "seed", <<SeedCDF>>)), "tail",
           <<vadflagCDF, FrameTerminationCDF>>)

(* SKP_Silk_decode_parameters of stream k: the decoder after it, and the
   frame.  Of a stream the coder has given up every further symbol is 0. *)
DecodeParameters(d, k) ==
  LET first   == d.frames = 0
      Stopped(rc, left) == IF left < 0 THEN [rc EXCEPT !.error = "read beyond"]
                           ELSE IF left = 0 THEN CheckAfterDecoding(rc) ELSE rc
      Told(s, d1, levels, dgain, left) ==
        [dec   |-> [d1 EXCEPT !.rc[k] = Stopped(s.rc, left),
                      !.prev[k] = s.type[1], !.gain[k] = levels[NB_SUBFR], !.dgain[k] = dgain,
                      !.nlsf[k] = NLSFOf(d1.fs, SigType(s), Front(s.nlsf)),
                      !.left[k] = left, !.ending = s.tail[2]],
         prevNLSF |-> d1.nlsf[k],
         frame |-> [sigtype |-> SigType(s), offsetType |-> OffsetType(s), gains |-> levels,
                    dgain |-> dgain, nlsf |-> Front(s.nlsf),
                    interp |-> IF d1.reset THEN 4 ELSE Last(s.nlsf),
                    pitch |-> s.lag \o s.ltp, seed |-> s.seed[1], q |-> s.q, vad |-> s.tail[1]]]
      Set(s, d1) ==
        Told(s, d1, GainsDequant(SubSeq(s.gains, 1, NB_SUBFR), d1.gain[k], ~first),
             IF first THEN s.gains[NB_SUBFR + 1] ELSE d.dgain[k],
             s.rc.len - NBytes(s.rc.ix, s.rc.range))
      Of(s) == Set(s, SetFs(d, s.fs))
  IN  Of(ReadFrame(d, k))

(* The decoder with the sound of a frame: unknown since a frame was made up. *)
Sounded(d, c, of, pulses) ==
  LET After(core) == [dec |-> [d EXCEPT !.core = core], xq |-> core.xq]
  IN  IF d.known THEN After(DecodeCore(c, d.core, Excitation(c, of, pulses))) ELSE [dec |-> d, xq |-> <<>>]

(* AgoraSateDecodeTwoDesps: the streams of the packet are opened by its
   first frame.  What the last stream says of the frame counts, the pulses
   of both are added up. *)
DecodeTwoDesps(d, of, rows, n) ==
  LET both   == of = "both"
      used   == IF both THEN Descriptions ELSE {1}
      opened == IF d.frames > 0 THEN d
                ELSE [d EXCEPT !.rc = Each(LAMBDA k :
                        IF k \in used THEN DecInit(d.rc[k], rows[k], n[k]) ELSE d.rc[k])]
      Decoded(frame, pulses, r) ==
        [dec   |-> [r.dec EXCEPT !.frames = @ + 1, !.reset = FALSE], ok |-> TRUE,
         frame |-> [frame EXCEPT !.q = pulses] @@ [xq |-> r.xq]]
      Of(one, two, pulses) ==
        IF \E k \in used : two.dec.rc[k].error # "none"
        THEN [dec |-> [SetFs(two.dec, d.fs) EXCEPT !.left[1] = 0], ok |-> FALSE, frame |-> <<>>]
        ELSE Decoded(two.frame, pulses,
                     Sounded(two.dec, Control(two.frame, two.dec.fs, two.prevNLSF), of, pulses))
      Both(one, two) == Of(one, two, <<one.frame.q, two.frame.q>>)
      After(one)     == IF both THEN Both(one, DecodeParameters(one.dec, 2)) ELSE Of(one, one, <<one.frame.q>>)
  IN  After(DecodeParameters(opened, 1))

(* What the flag says has come. *)
KindOf(lostFlag) == CASE lostFlag = 4 -> "both" [] lostFlag = 2 -> "first" [] lostFlag = 3 -> "second"
                      [] lostFlag = 1 -> "none"

(* SKP_Silk_SDK_Decode of one frame.  A frame that is concealed uses no
   bytes and leaves open whether there are more in the packet.  The test for
   a packet too long is for flag 0 alone, which nobody passes. *)
SDKDecode(d, lostFlag, rows, n) ==
  LET d0 == IF d.more THEN d ELSE [d EXCEPT !.frames = 0]
      More(r) == [r EXCEPT !.dec.more = /\ r.dec.left[1] > 0
                                        /\ r.dec.ending = MORE_FRAMES
                                        /\ r.dec.frames < 5]
  IN  IF lostFlag = 1 THEN [dec |-> [d0 EXCEPT !.known = FALSE], ok |-> TRUE, frame |-> <<>>]
      ELSE More(DecodeTwoDesps(d0, KindOf(lostFlag), rows, n))

(* The memory a stream is copied to before it is opened. *)
Row(bytes, from, n) ==
  [i \in 1 .. MAX_ARITHM_BYTES + 4 |-> IF i <= n /\ from + i <= Len(bytes) THEN bytes[from + i] ELSE 0]

(* AGR_Sate_decode_process: n is what decode_file made of the packet's two
   lengths, HB what of it is high band. *)
DecodeProcess(d, lostFlag, bytes, n) ==
  LET hb     == NB_FRAMES * HB_BYTE
      low    == IF lostFlag = 2 THEN n[1] ELSE n[1] - hb
      second == IF n[2] # 0 THEN n[2] - hb ELSE 0
      len    == <<low - second, second>>
      rows   == <<Row(bytes, 0, len[1]), Row(bytes, len[1], len[2])>>
      high   == IF lostFlag \in {1, 2} THEN <<>>
                ELSE [s \in 1 .. NB_FRAMES |-> UnpackedWords(bytes, low, s)]
      Of(one, two) ==
        IF ~one.ok \/ ~two.ok
        THEN [dec |-> IF one.ok THEN two.dec ELSE one.dec, ok |-> FALSE, frames |-> <<>>, high |-> <<>>]
        ELSE [dec |-> two.dec, ok |-> TRUE, high |-> high,
              frames |-> IF lostFlag = 1 THEN <<>> ELSE <<one.frame, two.frame>>]
      After(one) == Of(one, SDKDecode(one.dec, lostFlag, rows, len))
  IN  After(SDKDecode(d, lostFlag, rows, len))

(* SilkDecoder::decode_file on the packet of the wire.  Descriptions are
   drawn to be lost at every other call; one without bytes is lost too. *)
Decode(drawn) ==
  LET n     == wire.n
      lost  == IF dec.even THEN {k \in Descriptions : k \in drawn \/ n[k] = 0} ELSE {}
      flag  == IF lost = {} THEN 4 ELSE IF lost = {2} THEN 2 ELSE IF lost = {1} THEN 3 ELSE 1
      bytes == IF flag = 3 THEN SubSeq(wire.bytes, n[1] - n[2] + 1, n[1]) ELSE wire.bytes
      len   == CASE flag = 2 -> <<n[1] - n[2], 0>>
                 [] flag = 3 -> <<n[2], 0>>
                 [] OTHER    -> n
      Heard(r) ==
        /\ dec' = [r.dec EXCEPT !.even = ~@]
        /\ heard' = [kind |-> IF r.ok THEN KindOf(flag) ELSE "error", frames |-> r.frames, high |-> r.high]
  IN  /\ wire # None
      /\ drawn # {} => SimulateLoss /\ dec.even
      /\ wire' = None
      /\ Heard(DecodeProcess(dec, flag, bytes, len))
      /\ tuned' = IF /\ tuned \in {"start", KindOf(flag)} /\ flag # 1
                     /\ spoken.frames[1].dgain = spoken.frames[2].dgain
                  THEN KindOf(flag) ELSE "out"
      /\ UNCHANGED <<enc, spoken, packets>>

(* The network loses the packet: the decoder never hears of it. *)
Lose ==
  /\ wire # None
  /\ wire' = None
  /\ tuned' = "out"
  /\ UNCHANGED <<enc, dec, spoken, heard, packets>>

Next ==
  \/ \E f \in Frames : EncodeFirst(f)
  \/ \E f \in Frames, highs \in HighBands : EncodeLast(f, highs)
  \/ \E drawn \in SUBSET Descriptions : Decode(drawn)
  \/ Lose

Spec == Init /\ [][Next]_vars

-----------------------------------------------------------------------------
(* A packet that arrives whole is decoded to its end, whatever was lost
   before it and whatever bytes earlier packets left behind it in the
   coder's buffer, which the decoder reads four bytes beyond the stream:
   no coder error, no check failed, and afterwards the decoder expects a
   new packet and not another frame of this one. *)
EveryPacketDecodes ==
  /\ heard.kind # "error"
  /\ ~dec.more

(* The frame heard is the frame said: of one description its own pulses,
   of both the pulses of both.  Interpolation is off in the first frame
   after the sampling rate was set, and the second frame's delta gain,
   which the encoder works with but never sends, is the first's. *)
HeardAs(h, s, i) ==
  /\ \A field \in {"sigtype", "offsetType", "gains", "nlsf", "pitch", "seed", "vad"} :
        h.frames[i][field] = s.frames[i][field]
  /\ h.frames[i].interp \in {s.frames[i].interp, 4}
  /\ h.frames[i].dgain = s.frames[1].dgain
  /\ h.frames[i].q = CASE h.kind = "both"   -> s.frames[i].q
                       [] h.kind = "first"  -> <<s.frames[i].q[1]>>
                       [] h.kind = "second" -> <<s.frames[i].q[2]>>

(* Every packet decodes by itself: although the second frame of a packet
   is coded relative to the first, and both ends keep gains, types and the
   sampling rate from packet to packet, what is heard is what was said
   however many packets and descriptions were lost before, down to the
   words of the high band, which only the second description carries. *)
HeardIsSaid ==
  heard.kind \in {"both", "first", "second"} =>
    /\ Len(heard.frames) = NB_FRAMES
    /\ \A i \in 1 .. NB_FRAMES : HeardAs(heard, spoken, i)
    /\ heard.kind # "first" => heard.high = spoken.high

(* The signal heard is, sample by sample, the one the encoder simulated
   when it chose the pulses: as long as what arrives is always the same,
   both descriptions or always the first or always the second, the decoder
   remembers what the centre, or the quantiser of that description,
   remembers, through changes of gain, pitch and prediction, although the
   pulses of a frame were decided on the way by paths that were given up
   later.  Two frames with different delta gains are exempt, for only the
   first's is sent, and so is all that follows a loss. *)
InStep ==
  tuned \in {"both", "first", "second"} /\ heard.kind = tuned =>
    \A i \in 1 .. NB_FRAMES :
      heard.frames[i].xq =
        spoken.frames[i].xq[CASE tuned = "both" -> Centre [] tuned = "first" -> 2 [] tuned = "second" -> 3]
=============================================================================
