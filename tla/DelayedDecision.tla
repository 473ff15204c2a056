--------------------------- MODULE DelayedDecision ----------------------------
(***************************************************************************)
(* How the encoder finds the pulses of a frame, and how the decoder makes  *)
(* the signal of them.  SKP_Silk_NSQ_del_dec runs three quantisers side by *)
(* side, one for each description and one, the centre, for the two         *)
(* together; each simulates the decoder that hears just this.  They follow *)
(* a few paths at once, and a sample leaves the frame only when it is      *)
(* decisionDelay old: the path that is best then decides it for all three, *)
(* and the paths that had it otherwise are given up.                       *)
(*                                                                         *)
(* Fractions count in units of 1.0 (Unit), of which the code has 2^10 to   *)
(* 2^16, and a product is cut off after each sum, not after each term.     *)
(* Noise shaping, which moves the residual without changing what either    *)
(* end remembers of the signal, is left out.                               *)
(***************************************************************************)
EXTENDS Integers, Sequences, SequencesExt

CONSTANTS
  FrameLength,        \* samples, and so pulses, of a frame
  Unit,               \* 1.0
  LPC_ORDER, LTP_ORDER,
  DECISION_DELAY,
  RandBits, RandMul, RandAdd,   \* SKP_RAND: 32 bits in the code
  Lambda,             \* weight of a pulse's size: Lambda_Q10
  JointLambda,        \* weight of the descriptions against the centre
  Penalty,            \* SKP_int32_MAX >> 4
  QuantOffset         \* [<<sigtype, offsetType>> -> fraction]

ASSUME DelayedDecisionAssumption ==
  /\ {FrameLength, Unit, LPC_ORDER, LTP_ORDER, DECISION_DELAY} \subseteq Nat \ {0}
  /\ FrameLength % 4 = 0 /\ LTP_ORDER % 2 = 1

UNVOICED     == 1          \* SIG_TYPE_UNVOICED; SIG_TYPE_VOICED is 0
NB_SUBFR     == 4
subfr_length == FrameLength \div NB_SUBFR
HalfTaps     == LTP_ORDER \div 2
Centre       == 1          \* the quantisers: centre, first and second description
NStates      == 4          \* nStatesDelayedDecision: paths at once

(* Something of each quantiser, and of each path. *)
Quantisers(F(_)) == <<F(1), F(2), F(3)>>
Paths(F(_))      == <<F(1), F(2), F(3), F(4)>>

(* Products of fractions, and a signal in and out of the scale of a gain. *)
Times(c, v)      == (c * v) \div Unit
Reciprocal(c)    == (Unit * Unit) \div c
InGain(x, gain)  == (x * Unit) \div gain
OutOfGain(v, gain) == (v * gain + Unit \div 2) \div Unit
Rounded(v)       == Unit * ((v + Unit \div 2) \div Unit)

(* Samples of s up to position "at", weighted: the newest comes first. *)
Filtered(taps, s, at) ==
  LET sum[j \in 0 .. Len(taps)] == IF j = 0 THEN 0 ELSE sum[j - 1] + taps[j] * s[at + 1 - j]
  IN  sum[Len(taps)] \div Unit

(* SKP_RAND; its top bit turns the sign of a sample. *)
RAND(seed) == (RandMul * seed + RandAdd) % 2^RandBits
Dither(rand) == IF rand >= 2^(RandBits - 1) THEN -1 ELSE 1

Limit(x, low, high) == IF x < low THEN low ELSE IF x > high THEN high ELSE x

Zeros(n) == [t \in 1 .. n |-> 0]

(* The place of the least of a sequence, the first of several. *)
Least(s) == CHOOSE i \in DOMAIN s : /\ \A j \in DOMAIN s : s[i] <= s[j]
                                    /\ \A j \in 1 .. i - 1 : s[j] # s[i]
Greatest(s) == Least([i \in DOMAIN s |-> -s[i]])

-----------------------------------------------------------------------------
(* What both ends derive from the parameters c of a frame. *)

Voiced(c) == c.sigtype # UNVOICED

(* Subframes in which the long-term state is built anew from the signal. *)
Rewhitens(c, k) == Voiced(c) /\ (k = 0 \/ (k = 2 /\ c.interp < 4))

(* The short-term coefficients of a subframe: half a frame may have
   interpolated ones. *)
Coefs(c, k) == c.coefs[IF c.interp < 4 THEN k \div 2 + 1 ELSE 2]

(* A description has its share of the residual, and the other the rest;
   they swap from subframe to subframe. *)
Shares(c, even) == IF even THEN <<c.share, Unit - c.share>> ELSE <<Unit - c.share, c.share>>
Offsets(c, even) ==
  LET Offset(share) == Times(share, QuantOffset[<<c.sigtype, c.offsetType>>])
  IN  << Offset(Shares(c, even)[1]), Offset(Shares(c, even)[2]) >>

(* The signal, before it went through the short-term filter, as far as the
   pitch of subframe k goes back: hist ends where the subframe begins. *)
Whitened(c, k, hist) ==
  LET Scale(v) == IF k = 0 THEN Times(c.ltpScale, v) ELSE v
      From     == Len(hist) - (c.pitchL[k + 1] + HalfTaps)
  IN  [t \in DOMAIN hist |->
         IF t <= From THEN 0
         ELSE Scale(InGain(hist[t] - Filtered(Coefs(c, k), hist, t - 1), c.gains[k + 1]))]

(* A state kept in the scale of a gain when the gain changes. *)
Rescaled(s, before, now) ==
  IF before = now THEN s ELSE [i \in DOMAIN s |-> Times((Unit * before) \div now, s[i])]

(* The long-term state is rescaled as far as the pitch goes back. *)
RescaledLTP(c, k, ltp, at, before) ==
  [t \in DOMAIN ltp |->
     IF t > at - (c.pitchL[k + 1] + HalfTaps)
     THEN Rescaled(ltp, before, c.gains[k + 1])[t] ELSE ltp[t]]

(* Long-term prediction of the sample after position "at". *)
LTP(c, k, ltp, at) ==
  IF Voiced(c) THEN Filtered(c.taps[k + 1], ltp, at + 1 - c.pitchL[k + 1] + HalfTaps) ELSE 0

-----------------------------------------------------------------------------
(* One sample on one path.  A candidate is a pulse with its cost; q has the
   pulse with the offset, in the scale of the gain. *)

(* The cost of quantising r as q. *)
Cost(r, q, offset) ==
  ((IF q < 0 THEN -1 ELSE 1) * (q + offset) * Lambda + (r - q) * (r - q)) \div Unit

(* Agora_Silk_RDCx1: the two pulses of a description that are nearest to
   its share r of the residual, better first; the cost is that of the share
   of its own residual rp. *)
RDCx1(r, rp, offset) ==
  LET Near   == Rounded(Limit(r - offset, -64 * Unit, 64 * Unit))
      Of(q)  == [q |-> q + offset, q0 |-> q \div Unit, rd |-> Cost(rp - offset, q, offset)]
      Better(a, b) == IF a.rd < b.rd THEN <<a, b>> ELSE <<b, a>>
  IN  CASE r - offset < -(3 * Unit) \div 2 -> Better(Of(Near), Of(Near + Unit))
        [] r - offset > Unit \div 2        -> Better(Of(Near), Of(Near - Unit))
        [] OTHER                           -> Better(Of(-Unit), Of(0))

Pairs == << <<1, 1>>, <<2, 2>>, <<1, 2>>, <<2, 1>> >>

(* Agora_Silk_CenterRD: the two best pairs of pulses of the descriptions,
   for the residual r of the centre. *)
CenterRD(r, sides, offset) ==
  LET Of(pair) ==
        LET Sum(a, b) ==
              [pulses |-> <<a, b>>, q |-> a.q + b.q, q0 |-> (a.q + b.q) \div Unit,
               rd |-> Cost(r - offset, a.q + b.q, offset) + Times(JointLambda, a.rd)
                      + Times(JointLambda, b.rd)]
        IN  Sum(sides[1][pair[1]], sides[2][pair[2]])
      Best(s, i) == <<s[i], LET rest == RemoveAt(s, i) IN rest[Least([j \in DOMAIN rest |-> rest[j].rd])]>>
      Of4(s)     == Best(s, Least([j \in DOMAIN s |-> s[j].rd]))
  IN  Of4(<<Of(Pairs[1]), Of(Pairs[2]), Of(Pairs[3]), Of(Pairs[4])>>)

(* What the three quantisers make of a pair of pulses: what is remembered
   of the excitation and of the signal, in the scale of the gain. *)
Sample(pair, path, turn, ltp, lpc, shares) ==
  LET Restored(j) == Times(Reciprocal(shares[j]), turn * pair.pulses[j].q)
      exc == << turn * pair.q + ltp[1], Restored(1) + ltp[2], Restored(2) + ltp[3] >>
  IN  [rd  |-> <<path.rd[1] + pair.rd, path.rd[2] + pair.pulses[1].rd, path.rd[3] + pair.pulses[2].rd>>,
       q   |-> <<pair.q0, pair.pulses[1].q0, pair.pulses[2].q0>>,
       exc |-> exc,
       xq  |-> Quantisers(LAMBDA j : exc[j] + lpc[j])]

(* The body of the loop over the paths: what a path may go on with, best
   and second best.  Every quantiser has a residual of its own, but the
   descriptions share that of the centre. *)
Candidates(c, k, path, x, ltp, even) ==
  LET turn   == Dither(RAND(path.rand))
      shares == Shares(c, even)
      offset == Offsets(c, even)
      lpc    == Quantisers(LAMBDA j : Filtered(Coefs(c, k), path.lpc[j], LPC_ORDER))
      r      == Quantisers(LAMBDA j : turn * (x - ltp[j] - lpc[j]))
      Side(j) == RDCx1(Times(shares[j], r[Centre]), Times(shares[j], r[j + 1]), offset[j])
      pairs  == CenterRD(r[Centre], <<Side(1), Side(2)>>, offset[1] + offset[2])
  IN  <<Sample(pairs[1], path, turn, ltp, lpc, shares), Sample(pairs[2], path, turn, ltp, lpc, shares)>>

-----------------------------------------------------------------------------
(* The paths. *)

StartPath(c, nsq, k) ==
  LET seed == (k - 1 + c.seed) % 4
  IN  [seed |-> seed, rand |-> seed, rd |-> <<0, 0, 0>>, lpc |-> nsq.lpc,
       q |-> <<<<>>, <<>>, <<>>>>, exc |-> <<<<>>, <<>>, <<>>>>, xq |-> <<<<>>, <<>>, <<>>>>]

Extended(path, s, gain) ==
  [path EXCEPT !.rand = RAND(@), !.rd = s.rd,
               !.q    = Quantisers(LAMBDA j : Append(path.q[j], s.q[j])),
               !.exc  = Quantisers(LAMBDA j : Append(path.exc[j], s.exc[j])),
               !.xq   = Quantisers(LAMBDA j : Append(path.xq[j], OutOfGain(s.xq[j], gain))),
               !.lpc  = Quantisers(LAMBDA j : Append(Tail(path.lpc[j]), s.xq[j]))]

(* RandState of m samples: it tells paths apart by seed and pulses. *)
RandState(path, m) ==
  IF m <= 0 THEN 0 ELSE <<path.seed, Quantisers(LAMBDA j : SubSeq(path.q[j], 1, m))>>

Joint(s) == s.rd[1] + Times(JointLambda, s.rd[2]) + Times(JointLambda, s.rd[3])

Winner(ways) == Least([i \in DOMAIN ways |-> Joint(ways[i].sample)])

(* Paths, in the set of first choices, that differ from the best one in the
   sample that is now decided, and the price they pay. *)
Expired(set, m) ==
  {i \in DOMAIN set : RandState(set[i].path, m) # RandState(set[Winner(set)].path, m)}

Fined(set, expired) ==
  Paths(LAMBDA i : IF i \in expired THEN [set[i] EXCEPT !.sample.rd[1] = @ + Penalty] ELSE set[i])

BestOf(set) == set[Least([i \in DOMAIN set |-> set[i].sample.rd[1]])]

(* The worst way of a set is given up for a better one. *)
Replaced(set, way) ==
  LET At(worst) == IF way.sample.rd[1] < set[worst].sample.rd[1] THEN [set EXCEPT ![worst] = way] ELSE set
  IN  At(Greatest([i \in DOMAIN set |-> set[i].sample.rd[1]]))

(* Agora_Silk_JudgeWinner: as often as a path has expired, but once at
   least, the best second choice takes the place of the worst first one. *)
Judged(first, second, m) ==
  LET Rounds(n, set, way) ==
        LET f[j \in 0 .. n] == IF j = 0 THEN set ELSE Replaced(f[j - 1], way) IN f[n]
      After(expired) ==
        Rounds(IF expired = {} THEN 1 ELSE Cardinality(expired), Fined(first, expired),
               BestOf(Fined(second, expired)))
  IN  After(Expired(first, m))

-----------------------------------------------------------------------------
(* The frame.  s has the paths, and what was decided: pulses, signal and
   long-term state of the three quantisers. *)

(* For a voiced frame, and for an unvoiced one after it, a sample must be
   decided before the pitch reaches back to it. *)
DecisionDelay(c, lagPrev) ==
  LET Reach(lag) == lag - HalfTaps - 1
  IN  Min({DECISION_DELAY, subfr_length}
          \cup (IF Voiced(c) THEN {Reach(c.pitchL[k]) : k \in 1 .. NB_SUBFR}
                ELSE IF lagPrev > 0 THEN {Reach(lagPrev)} ELSE {}))

Decided(s, path, from, to) ==
  [s EXCEPT !.q   = Quantisers(LAMBDA j : s.q[j] \o SubSeq(path.q[j], from, to)),
            !.xq  = Quantisers(LAMBDA j : s.xq[j] \o SubSeq(path.xq[j], from, to)),
            !.ltp = Quantisers(LAMBDA j : s.ltp[j] \o SubSeq(path.exc[j], from, to))]

BestPath(s) == Least([i \in DOMAIN s.paths |-> s.paths[i].rd[Centre]])

(* Seeded fault: the other paths may win as before. *)
SettledFree(s, n, delay) ==
  [Decided(s, s.paths[BestPath(s)], n - delay + 1, n) EXCEPT !.subfr = 0]

(* Agora_Silk_DelDec_Rewhitening and its twin: in the middle of a frame
   whose coefficients change the decisions outstanding are taken, and the
   other paths should not win any more; the samples count anew. *)
Settled(s, n, delay) ==
  LET Dearer(path) == [path EXCEPT !.rd = Quantisers(LAMBDA j : path.rd[j] + Penalty)]
      Of(w) == [Decided(s, s.paths[w], n - delay + 1, n) EXCEPT
                  !.paths = Paths(LAMBDA i : IF i = w THEN s.paths[i] ELSE Dearer(s.paths[i])),
                  !.subfr = 0]
  IN  Of(BestPath(s))

(* SKP_Silk_nsq_del_dec_scale_states, after the rewhitening. *)
ScaledStates(c, nsq, s, k) ==
  LET Scaled3(v) == Quantisers(LAMBDA j : Rescaled(v[j], s.gain, c.gains[k + 1]))
      LongTerm(j) == IF Rewhitens(c, k) THEN Whitened(c, k, nsq.xq[j] \o s.xq[j])
                     ELSE RescaledLTP(c, k, s.ltp[j], FrameLength + k * subfr_length, s.gain)
      ScaledPath(path) == [path EXCEPT !.lpc = Scaled3(@), !.exc = Scaled3(@)]
  IN  [s EXCEPT !.ltp   = Quantisers(LongTerm),
                !.paths = Paths(LAMBDA i : ScaledPath(s.paths[i])),
                !.gain  = c.gains[k + 1]]

StartSubframe(c, nsq, s, k, delay) ==
  ScaledStates(c, nsq, IF k = 2 /\ Rewhitens(c, k) THEN Settled(s, k * subfr_length, delay) ELSE s, k)

(* SKP_Silk_md_noise_shape_quantizer_del_dec on sample n: what comes out
   is that of the best way after the judgement, delay samples ago. *)
QuantisedSample(c, s, n, x, delay) ==
  LET k     == n \div subfr_length
      i     == n % subfr_length
      ltp   == Quantisers(LAMBDA j : LTP(c, k, s.ltp[j], FrameLength + n))
      Of(p) == Candidates(c, k, s.paths[p], InGain(x[n + 1], s.gain), ltp, s.subfr % 2 = 0)
      Way(options, which) == Paths(LAMBDA p : [path |-> s.paths[p], sample |-> options[p][which]])
      At(ways) ==
        [ (IF s.subfr > 0 \/ i >= delay
           THEN Decided(s, ways[Winner(ways)].path, n - delay + 1, n - delay + 1) ELSE s)
          EXCEPT !.paths = Paths(LAMBDA p : Extended(ways[p].path, ways[p].sample, s.gain)),
                 !.subfr = IF i = subfr_length - 1 THEN @ + 1 ELSE @]
      Judge(options) == At(Judged(Way(options, 1), Way(options, 2), n - delay + 1))
  IN  Judge(Paths(Of))

(* What the quantisers remember from frame to frame. *)
NSQInit ==
  [xq  |-> Quantisers(LAMBDA j : Zeros(FrameLength)), lpc |-> Quantisers(LAMBDA j : Zeros(LPC_ORDER)),
   gain |-> 1, lagPrev |-> 100]

(* Agora_Silk_DelDec_UpdateState_And_Output and its twin. *)
EndFrame(c, s, delay) ==
  LET Of(path) ==
        LET out == Decided(s, path, FrameLength - delay + 1, FrameLength)
        IN  [q |-> Tail(out.q), xq |-> out.xq, seed |-> path.seed,
             nsq |-> [xq |-> out.xq, lpc |-> path.lpc, gain |-> s.gain, lagPrev |-> c.pitchL[NB_SUBFR]]]
  IN  Of(s.paths[BestPath(s)])

(* SKP_Silk_NSQ_del_dec on signal x. *)
NSQ(c, nsq, x) ==
  LET delay == DecisionDelay(c, nsq.lagPrev)
      Started(s, n) == IF n % subfr_length # 0 THEN s
                       ELSE StartSubframe(c, nsq, s, n \div subfr_length, delay)
      run[n \in 0 .. FrameLength] ==
        IF n = 0
        THEN [paths |-> Paths(LAMBDA k : StartPath(c, nsq, k)),
              ltp   |-> Quantisers(LAMBDA j : Zeros(FrameLength)),
              q     |-> <<<<>>, <<>>, <<>>>>, xq |-> <<<<>>, <<>>, <<>>>>,
              gain  |-> nsq.gain, subfr |-> 0]
        ELSE QuantisedSample(c, Started(run[n - 1], n - 1), n - 1, x, delay)
  IN  EndFrame(c, run[FrameLength], delay)

-----------------------------------------------------------------------------
(* The decoder. *)

(* AgoraSateDecodeTwoDesps: the excitation, of one description with the
   share of the other made up for, or of both added up. *)
Excitation(c, of, pulses) ==
  LET rand[n \in 0 .. FrameLength] == IF n = 0 THEN c.seed ELSE RAND(rand[n - 1])
      Even(n) == ((n - 1) \div subfr_length) % 2 = 0
      One(n, j) == Times(Reciprocal(Shares(c, Even(n))[j]),
                         Dither(rand[n]) * (Unit * pulses[1][n] + Offsets(c, Even(n))[j]))
      Both(n) == Dither(rand[n]) * (Unit * (pulses[1][n] + pulses[2][n])
                                    + Offsets(c, Even(n))[1] + Offsets(c, Even(n))[2])
  IN  [n \in 1 .. FrameLength |-> CASE of = "both"   -> Both(n)
                                    [] of = "first"  -> One(n, 1)
                                    [] of = "second" -> One(n, 2)]

CoreInit == [xq |-> Zeros(FrameLength), lpc |-> Zeros(LPC_ORDER), gain |-> 1]

(* SKP_Silk_decode_core at the start of subframe k. *)
DecodeSubframe(c, core, s, k) ==
  [s EXCEPT !.ltp  = IF ~Voiced(c) THEN @
                     ELSE IF Rewhitens(c, k) THEN Whitened(c, k, core.xq \o s.xq)
                     ELSE RescaledLTP(c, k, @, FrameLength + k * subfr_length, s.gain),
            !.lpc  = Rescaled(@, s.gain, c.gains[k + 1]),
            !.gain = c.gains[k + 1]]

DecodeSample(c, s, n, exc) ==
  LET k == n \div subfr_length
      Of(res) == [s EXCEPT !.ltp = Append(@, res)]
      Out(t, v) == [t EXCEPT !.xq = Append(@, OutOfGain(v, s.gain)), !.lpc = Append(Tail(@), v)]
      Next1(res) == Out(Of(res), res + Filtered(Coefs(c, k), s.lpc, LPC_ORDER))
  IN  Next1(exc[n + 1] + LTP(c, k, s.ltp, FrameLength + n))

(* SKP_Silk_decode_core *)
DecodeCore(c, core, exc) ==
  LET Started(s, n) == IF n % subfr_length # 0 THEN s
                       ELSE DecodeSubframe(c, core, s, n \div subfr_length)
      run[n \in 0 .. FrameLength] ==
        IF n = 0 THEN [xq |-> <<>>, lpc |-> core.lpc, gain |-> core.gain,
                       ltp |-> Zeros(FrameLength)]
        ELSE DecodeSample(c, Started(run[n - 1], n - 1), n - 1, exc)
      Of(s) == [xq |-> s.xq, lpc |-> s.lpc, gain |-> s.gain]
  IN  Of(run[FrameLength])
=============================================================================
