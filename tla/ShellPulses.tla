----------------------------- MODULE ShellPulses ------------------------------
(***************************************************************************)
(* How the codec codes the excitation of a frame: a sequence of integers,  *)
(* cut into shell blocks.  Of each block the number of pulses is coded,    *)
(* then how they divide over halves, quarters and so on, then, when the    *)
(* block had to be scaled down, the bits it lost, then the signs.  The     *)
(* encoder is the list of symbols it gives the range coder, in order; the  *)
(* decoder reads them and only learns from what it has read which table    *)
(* comes next.  The shell length of 16 and the table of four levels are    *)
(* the length of MAX_PULSES_TABLE here.                                    *)
(***************************************************************************)
EXTENDS RangeCoder

CONSTANTS
  MAX_PULSES_TABLE,   \* most pulses of a node at each level: <<6, 8, 12, 18>>
  RateLevelsCDF,      \* [0..1 -> table of the rate levels], by signal type
  RateLevelsBits,     \* [0..1 -> cost of each rate level], by signal type
  PulsesPerBlockCDF,  \* table of a block's pulses, by rate level; the last is for scaled blocks
  PulsesPerBlockBits, \* cost of a block's pulses, by rate level
  ShellCDF,           \* [level -> [pulses of the node -> table]]
  SignCDF             \* [<<sigtype, QuantOffsetType, rate level>> -> middle of the table]

Levels     == Len(MAX_PULSES_TABLE)
MAX_PULSES == MAX_PULSES_TABLE[Levels]
ShellLength == 2^Levels

lsbCDF == Scaled(<<0, 40000, 65535>>)

Symbol(cdf, data) == [cdf |-> cdf, data |-> data]

AbsOf(x) == IF x < 0 THEN -x ELSE x

SumOf(s) == LET f[i \in 0 .. Len(s)] == IF i = 0 THEN 0 ELSE f[i - 1] + s[i] IN f[Len(s)]

(* The concatenation of g[1], ..., g[n]. *)
Joined(g, n) == LET f[i \in 0 .. n] == IF i = 0 THEN <<>> ELSE f[i - 1] \o g[i] IN f[n]

Combined(p) == [k \in 1 .. Len(p) \div 2 |-> p[2 * k - 1] + p[2 * k]]

(* The sums of a block's nodes, level by level: level 0 is the block. *)
Tree(p) == LET t[l \in 0 .. Levels] == IF l = 0 THEN p ELSE Combined(t[l - 1]) IN t

Fits(p) == LET t == Tree(p)
           IN  \A l \in 1 .. Levels : \A k \in DOMAIN t[l] : t[l][k] <= MAX_PULSES_TABLE[l]

Halved(p, n) == [k \in DOMAIN p |-> AbsOf(p[k]) \div 2^n]

(* How often a block is halved until its sums fit their tables. *)
Rshifts(p) == CHOOSE n \in 0 .. 8 : Fits(Halved(p, n)) /\ \A m \in 0 .. n - 1 : ~Fits(Halved(p, m))

Block(q, i) == SubSeq(q, (i - 1) * ShellLength + 1, i * ShellLength)

-----------------------------------------------------------------------------
(* SKP_Silk_encode_pulses *)

(* The pulses of block p are coded from this level's table. *)
BlockCost(p, level) ==
  IF Rshifts(p) > 0 THEN PulsesPerBlockBits[level][MAX_PULSES + 2]
  ELSE PulsesPerBlockBits[level][SumOf(Halved(p, 0)) + 1]

LastLevel == Len(PulsesPerBlockCDF) - 1

(* The first of the cheapest rate levels. *)
RateLevel(sigtype, q) ==
  LET iter == Len(q) \div ShellLength
      cost == [k \in 0 .. LastLevel - 1 |->
                 RateLevelsBits[sigtype][k + 1]
                 + SumOf([i \in 1 .. iter |-> BlockCost(Block(q, i), k + 1)])]
  IN  CHOOSE k \in DOMAIN cost : /\ \A j \in DOMAIN cost : cost[k] <= cost[j]
                                 /\ \A j \in 0 .. k - 1  : cost[k] < cost[j]

(* A scaled block says so once with its own level's table and once for each
   further halving with the last one. *)
CountSymbols(p, level) ==
  LET n   == Rshifts(p)
      own == PulsesPerBlockCDF[level + 1]
      esc == PulsesPerBlockCDF[LastLevel + 1]
      sum == SumOf(Halved(p, n))
  IN  IF n = 0 THEN <<Symbol(own, sum)>>
      ELSE <<Symbol(own, MAX_PULSES + 1)>>
           \o [k \in 1 .. n - 1 |-> Symbol(esc, MAX_PULSES + 1)]
           \o <<Symbol(esc, sum)>>

(* SKP_Silk_shell_encoder: of every node with pulses, those of its first half. *)
ShellSymbols(p) ==
  LET t == Tree(p)
      node[l \in 0 .. Levels] ==
        [i \in 1 .. 2^(Levels - l) |->
           IF l = 0 THEN <<>>
           ELSE (IF t[l][i] > 0 THEN <<Symbol(ShellCDF[l][t[l][i]], t[l - 1][2 * i - 1])>> ELSE <<>>)
                \o node[l - 1][2 * i - 1] \o node[l - 1][2 * i]]
  IN  node[Levels][1]

LsbSymbols(p) ==
  LET n == Rshifts(p)
      bits(x) == [j \in 1 .. n |-> Symbol(lsbCDF, (AbsOf(x) \div 2^(n - j)) % 2)]
  IN  Joined([k \in 1 .. ShellLength |-> bits(p[k])], ShellLength)

SignTable(sigtype, offsetType, level) ==
  <<0, SignCDF[<<sigtype, offsetType, level>>], RangeTop>>

(* SKP_Silk_encode_signs *)
SignSymbols(q, table) ==
  Joined([i \in DOMAIN q |-> IF q[i] = 0 THEN <<>>
                             ELSE <<Symbol(table, IF q[i] > 0 THEN 1 ELSE 0)>>], Len(q))

EncodePulses(sigtype, offsetType, q) ==
  LET iter == Len(q) \div ShellLength
      Coded(level, b) ==
        <<Symbol(RateLevelsCDF[sigtype], level)>>
        \o Joined([i \in 1 .. iter |-> CountSymbols(b[i], level)], iter)
        \o Joined([i \in 1 .. iter |-> ShellSymbols(Halved(b[i], Rshifts(b[i])))], iter)
        \o Joined([i \in 1 .. iter |-> LsbSymbols(b[i])], iter)
        \o SignSymbols(q, SignTable(sigtype, offsetType, level))
  IN  Coded(RateLevel(sigtype, q), [i \in 1 .. iter |-> Block(q, i)])

-----------------------------------------------------------------------------
(* SKP_Silk_decode_pulses, whose readers are like those of RangeCoder. *)

RECURSIVE ReadCount(_, _, _)
ReadCount(rc, cdf, shifts) ==
  LET After(r) == IF r.data = MAX_PULSES + 1
                  THEN ReadCount(r.rc, PulsesPerBlockCDF[LastLevel + 1], shifts + 1)
                  ELSE [rc |-> r.rc, data |-> [sum |-> r.data, shifts |-> shifts]]
  IN  After(DecodeSymbol(rc, cdf))

(* SKP_Silk_shell_decoder: the second half has what the first has not. *)
RECURSIVE ReadShell(_, _, _)
ReadShell(rc, l, sum) ==
  LET Halves(a, b) == [rc |-> b.rc, data |-> a.data \o b.data]
      AfterFirst(r, a) == Halves(a, ReadShell(a.rc, l - 1, sum - r.data))
      Split(r) == AfterFirst(r, ReadShell(r.rc, l - 1, r.data))
  IN  IF l = 0 THEN [rc |-> rc, data |-> <<sum>>]
      ELSE Split(IF sum > 0 THEN DecodeSymbol(rc, ShellCDF[l][sum]) ELSE [rc |-> rc, data |-> 0])

ReadLsb(rc, p, shifts) ==
  LET grown(k, bits) == LET g[j \in 0 .. shifts] ==
                              IF j = 0 THEN p[k] ELSE 2 * g[j - 1] + bits[(k - 1) * shifts + j]
                        IN  g[shifts]
      After(r) == [rc |-> r.rc, data |-> [k \in DOMAIN p |-> grown(k, r.data)]]
  IN  After(ReadEach(rc, [j \in 1 .. shifts * Len(p) |-> lsbCDF]))

(* SKP_Silk_decode_signs *)
ReadSigns(rc, q, table) ==
  LET Signed(x, r) == [rc |-> r.rc, data |-> x * (2 * r.data - 1)]
      Further(s, x) == Added(s, IF x = 0 THEN [rc |-> s.rc, data |-> 0]
                              ELSE Signed(x, DecodeSymbol(s.rc, table)))
      f[i \in 0 .. Len(q)] == IF i = 0 THEN Unread(rc) ELSE Further(f[i - 1], q[i])
  IN  f[Len(q)]

(* A reader run over the blocks; R(rc, i) reads what belongs to block i. *)
OverBlocks(R(_, _), rc, iter) ==
  LET Further(s, i) == Added(s, R(s.rc, i))
      f[i \in 0 .. iter] == IF i = 0 THEN Unread(rc) ELSE Further(f[i - 1], i)
  IN  f[iter]

DecodePulses(rc, sigtype, offsetType, frame_length) ==
  LET iter == frame_length \div ShellLength
      Counts(level, c) == LET R(d, i) == ReadCount(d, PulsesPerBlockCDF[level + 1], 0)
                          IN  OverBlocks(R, c, iter)
      Shells(counts)   == LET R(d, i) == ReadShell(d, Levels, counts.data[i].sum)
                          IN  OverBlocks(R, counts.rc, iter)
      Lsbs(counts, shells) ==
        LET R(d, i) == ReadLsb(d, shells.data[i], counts.data[i].shifts)
        IN  OverBlocks(R, shells.rc, iter)
      Signs(level, lsbs) ==
        ReadSigns(lsbs.rc, Joined(lsbs.data, iter), SignTable(sigtype, offsetType, level))
      AfterCounts(level, counts) == Signs(level, Lsbs(counts, Shells(counts)))
      AfterLevel(level) == AfterCounts(level.data, Counts(level.data, level.rc))
  IN  AfterLevel(DecodeSymbol(rc, RateLevelsCDF[sigtype]))
=============================================================================
