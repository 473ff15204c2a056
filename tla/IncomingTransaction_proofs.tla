---------------------- MODULE IncomingTransaction_proofs ----------------------
(***************************************************************************)
(* What an incoming transaction makes of a talk.                           *)
(*                                                                         *)
(* Its record filter: every packet decodes to what it was made of, every   *)
(* block that was said is in the file, once and in order, and is played as *)
(* it was written, for every sequence of blocks the encoder may make,      *)
(* every loss and order of their packets, every buffer of the streams and  *)
(* any number of transactions.                                             *)
(*                                                                         *)
(* Its jitter buffer: the order of what leaves it and the flush of the     *)
(* marker, for every stream, every loss, doubling and reordering of its    *)
(* packets, every threshold and every number of bursts.                    *)
(***************************************************************************)
EXTENDS VoiceRecord, RTPJitterBuffer, FiniteSetTheorems, SequenceTheorems,
        WellFoundedInduction, TLAPS

-----------------------------------------------------------------------------
(* A packet of the network *)

\* Sequences of bytes, one behind the other: a name for what is known by its
\* length and its bytes only.
Join(s, t) == s \o t

LEMMA Joined ==
  ASSUME NEW s \in Seq(Byte), NEW t \in Seq(Byte)
  PROVE  /\ Join(s, t) \in Seq(Byte)
         /\ Len(s) \in Nat /\ Len(t) \in Nat /\ Len(Join(s, t)) = Len(s) + Len(t)
         /\ \A i \in 1 .. Len(s) : Join(s, t)[i] = s[i]
         /\ \A i \in Len(s) + 1 .. Len(s) + Len(t) : Join(s, t)[i] = t[i - Len(s)]
<1>1. Len(s) \in Nat /\ Len(t) \in Nat
  OBVIOUS
<1> QED
  BY <1>1, ConcatProperties, SMT DEF Join

\* Four bytes in network order, taken together again, are the number.
LEMMA WordBytes ==
  ASSUME NEW n \in Word
  PROVE  /\ Htonl(n) \in Seq(Byte) /\ Len(Htonl(n)) = 4
         /\ \A p, i : (/\ p[i] = Htonl(n)[1] /\ p[i + 1] = Htonl(n)[2]
                       /\ p[i + 2] = Htonl(n)[3] /\ p[i + 3] = Htonl(n)[4]) => Ntohl(p, i) = n
<1>1. n \in Nat /\ n \div 16777216 \in 0 .. 255
  BY SMT DEF Word, Byte
<1>2. /\ (n \div 65536) % 256 \in 0 .. 255 /\ (n \div 256) % 256 \in 0 .. 255 /\ n % 256 \in 0 .. 255
      /\ 16777216 * (n \div 16777216) + 65536 * ((n \div 65536) % 256) + 256 * ((n \div 256) % 256)
         + (n % 256) = n
  <2> DEFINE u == n \div 256
             v == n \div 65536
             w == n \div 16777216
  <2>1. u \in Nat /\ v \in Nat /\ w \in Nat
    BY <1>1, SMT
  <2>2. n = 256 * u + (n % 256) /\ n % 256 \in 0 .. 255
    BY <1>1, SMT
  <2>3. v = u \div 256
    BY <1>1, SMT
  <2>4. w = v \div 256
    BY <1>1, SMT
  <2> HIDE DEF u, v, w
  <2>5. u = 256 * v + (u % 256) /\ u % 256 \in 0 .. 255
    BY <2>1, <2>3, SMT
  <2>6. v = 256 * w + (v % 256) /\ v % 256 \in 0 .. 255
    BY <2>1, <2>4, SMT
  <2>7. 16777216 * w + 65536 * (v % 256) + 256 * (u % 256) + (n % 256) = n
    BY <1>1, <2>1, <2>2, <2>5, <2>6, SMT
  <2> QED
    BY <2>2, <2>5, <2>6, <2>7, SMT DEF u, v, w
<1>3. <<n \div 16777216, (n \div 65536) % 256, (n \div 256) % 256, n % 256>> \in Seq(0 .. 255)
  BY <1>1, <1>2, SMT
<1>4. Htonl(n) = <<n \div 16777216, (n \div 65536) % 256, (n \div 256) % 256, n % 256>>
  BY SMT DEF Htonl
<1>5. Htonl(n) \in Seq(Byte) /\ Len(Htonl(n)) = 4
  BY <1>3, <1>4, SMT DEF Byte
<1>6. /\ Htonl(n)[1] = n \div 16777216 /\ Htonl(n)[2] = (n \div 65536) % 256
      /\ Htonl(n)[3] = (n \div 256) % 256 /\ Htonl(n)[4] = n % 256
  BY <1>4, SMT
<1>7. ASSUME NEW p, NEW i,
             p[i] = Htonl(n)[1] /\ p[i + 1] = Htonl(n)[2],
             p[i + 2] = Htonl(n)[3] /\ p[i + 3] = Htonl(n)[4]
      PROVE  Ntohl(p, i) = n
  BY <1>2, <1>6, <1>7, SMT DEF Ntohl
<1> QED
  BY <1>5, <1>7, Zenon

LEMMA ShortBounds == Short \subseteq Nat /\ \A n \in Short : n <= 65535
<1> DEFINE k == 65535
<1>1. k \in Nat /\ Short = 0 .. k
  BY SMT DEF Short
<1> HIDE DEF k
<1>2. Short \subseteq Nat /\ \A n \in Short : n <= k
  BY <1>1
<1> QED
  BY <1>2, SMT DEF k

\* And two bytes.
LEMMA ShortBytes ==
  ASSUME NEW n \in Short
  PROVE  /\ Htons(n) \in Seq(Byte) /\ Len(Htons(n)) = 2
         /\ Htons(n)[1] = n \div 256 /\ Htons(n)[2] = n % 256
         /\ \A p, i : p[i] = Htons(n)[1] /\ p[i + 1] = Htons(n)[2] => Ntohs(p, i) = n
<1>1. n \div 256 \in 0 .. 255 /\ n % 256 \in 0 .. 255 /\ 256 * (n \div 256) + (n % 256) = n
  <2>1. n \in Nat /\ n <= 65535
    BY ShortBounds, SMT
  <2>2. n \div 256 \in 0 .. 255
    BY <2>1, SMT
  <2>3. n % 256 \in 0 .. 255
    BY <2>1, SMT
  <2>4. 256 * (n \div 256) + (n % 256) = n
    BY <2>1, SMT
  <2> QED
    BY <2>2, <2>3, <2>4, SMT
<1>2. <<n \div 256, n % 256>> \in Seq(0 .. 255)
  BY <1>1, SMT
<1>3. /\ Htons(n) \in Seq(Byte) /\ Len(Htons(n)) = 2
      /\ Htons(n)[1] = n \div 256 /\ Htons(n)[2] = n % 256
  BY <1>2, SMT DEF Htons, Byte
<1>4. \A p, i : p[i] = Htons(n)[1] /\ p[i + 1] = Htons(n)[2] => Ntohs(p, i) = n
  BY <1>1, <1>3, SMT DEF Ntohs
<1> QED
  BY <1>3, <1>4, Zenon

\* The twelve bytes of the header, each where the other end looks for it.
LEMMA HeaderBytes ==
  ASSUME NEW obj \in RTPObjects
  PROVE  LET h == Header(obj)
         IN /\ h \in Seq(Byte) /\ Len(h) = 12
            /\ h[1] = 128 + (IF obj.extension # <<>> THEN 16 ELSE 0)
            /\ h[2] = (IF obj.marker THEN 128 ELSE 0) + (obj.payloadtype % 128)
            /\ Ntohs(h, 3) = obj.sequence
            /\ Ntohl(h, 9) = obj.ssrc
<1> DEFINE a == <<128 + (IF obj.extension # <<>> THEN 16 ELSE 0),
                  (IF obj.marker THEN 128 ELSE 0) + (obj.payloadtype % 128)>>
           s == Htons(obj.sequence)
           t == Htonl(obj.timestamp)
           r == Htonl(obj.ssrc)
<1>0. /\ obj.sequence \in Short /\ obj.timestamp \in Word /\ obj.ssrc \in Word
      /\ obj.payloadtype \in Byte /\ obj.marker \in BOOLEAN
  BY DEF RTPObjects
<1>1. /\ a \in Seq(Byte) /\ Len(a) = 2
      /\ a[1] = 128 + (IF obj.extension # <<>> THEN 16 ELSE 0)
      /\ a[2] = (IF obj.marker THEN 128 ELSE 0) + (obj.payloadtype % 128)
  <2>1. 128 + (IF obj.extension # <<>> THEN 16 ELSE 0) \in Byte
    BY DEF Byte
  <2>2. (IF obj.marker THEN 128 ELSE 0) + (obj.payloadtype % 128) \in Byte
    BY <1>0 DEF Byte
  <2> QED
    BY <2>1, <2>2
<1>2. /\ s \in Seq(Byte) /\ Len(s) = 2
      /\ \A p, i : p[i] = s[1] /\ p[i + 1] = s[2] => Ntohs(p, i) = obj.sequence
  BY <1>0, ShortBytes
<1>3. t \in Seq(Byte) /\ Len(t) = 4
  BY <1>0, WordBytes
<1>4. /\ r \in Seq(Byte) /\ Len(r) = 4
      /\ \A p, i : (/\ p[i] = r[1] /\ p[i + 1] = r[2]
                    /\ p[i + 2] = r[3] /\ p[i + 3] = r[4]) => Ntohl(p, i) = obj.ssrc
  BY <1>0, WordBytes
<1> HIDE DEF a, s, t, r
<1>5. /\ Join(a, s) \in Seq(Byte) /\ Len(Join(a, s)) = 4
      /\ Join(a, s)[1] = a[1] /\ Join(a, s)[2] = a[2] /\ Join(a, s)[3] = s[1] /\ Join(a, s)[4] = s[2]
  <2>1. /\ Join(a, s) \in Seq(Byte) /\ Len(Join(a, s)) = Len(a) + Len(s)
        /\ \A i \in 1 .. Len(a) : Join(a, s)[i] = a[i]
        /\ \A i \in Len(a) + 1 .. Len(a) + Len(s) : Join(a, s)[i] = s[i - Len(a)]
    BY <1>1, <1>2, Joined, ZenonT(40)
  <2> QED
    BY <1>1, <1>2, <2>1, SMT
<1>6. /\ Join(Join(a, s), t) \in Seq(Byte) /\ Len(Join(Join(a, s), t)) = 8
      /\ \A i \in 1 .. 4 : Join(Join(a, s), t)[i] = Join(a, s)[i]
  <2>1. /\ Join(Join(a, s), t) \in Seq(Byte) /\ Len(Join(Join(a, s), t)) = Len(Join(a, s)) + Len(t)
        /\ \A i \in 1 .. Len(Join(a, s)) : Join(Join(a, s), t)[i] = Join(a, s)[i]
        /\ \A i \in Len(Join(a, s)) + 1 .. Len(Join(a, s)) + Len(t) : Join(Join(a, s), t)[i] = t[i - Len(Join(a, s))]
    BY <1>3, <1>5, Joined, Zenon
  <2> QED
    BY <1>3, <1>5, <2>1, SMT
<1>7. /\ Join(Join(Join(a, s), t), r) \in Seq(Byte) /\ Len(Join(Join(Join(a, s), t), r)) = 12
      /\ \A i \in 1 .. 4 : Join(Join(Join(a, s), t), r)[i] = Join(Join(a, s), t)[i]
      /\ \A i \in 9 .. 12 : Join(Join(Join(a, s), t), r)[i] = r[i - 8]
  <2>1. /\ Join(Join(Join(a, s), t), r) \in Seq(Byte) /\ Len(Join(Join(Join(a, s), t), r)) = Len(Join(Join(a, s), t)) + Len(r)
        /\ \A i \in 1 .. Len(Join(Join(a, s), t)) : Join(Join(Join(a, s), t), r)[i] = Join(Join(a, s), t)[i]
        /\ \A i \in Len(Join(Join(a, s), t)) + 1 .. Len(Join(Join(a, s), t)) + Len(r) : Join(Join(Join(a, s), t), r)[i] = r[i - Len(Join(Join(a, s), t))]
    BY <1>4, <1>6, Joined, Zenon
  <2> QED
    BY <1>4, <1>6, <2>1, SMT
<1>8. /\ Join(Join(Join(a, s), t), r)[1] = a[1] /\ Join(Join(Join(a, s), t), r)[2] = a[2]
      /\ Join(Join(Join(a, s), t), r)[3] = s[1] /\ Join(Join(Join(a, s), t), r)[4] = s[2]
      /\ Join(Join(Join(a, s), t), r)[9] = r[1] /\ Join(Join(Join(a, s), t), r)[10] = r[2]
      /\ Join(Join(Join(a, s), t), r)[11] = r[3] /\ Join(Join(Join(a, s), t), r)[12] = r[4]
  BY <1>5, <1>6, <1>7, SMT
<1>9. Header(obj) = Join(Join(Join(a, s), t), r)
  BY Zenon DEF Join, Header, a, s, t, r
<1> DEFINE h == Join(Join(Join(a, s), t), r)
<1>10. /\ h[3] = s[1] /\ h[3 + 1] = s[2]
       /\ h[9] = r[1] /\ h[9 + 1] = r[2] /\ h[9 + 2] = r[3] /\ h[9 + 3] = r[4]
  BY <1>8, SMT
<1>11. Ntohs(h, 3) = obj.sequence /\ Ntohl(h, 9) = obj.ssrc
  BY <1>2, <1>4, <1>10, Zenon
<1> QED
  BY <1>1, <1>7, <1>8, <1>9, <1>11, Zenon

\* The extension with its header, where there is one.
LEMMA ExtensionBytes ==
  ASSUME NEW obj \in RTPObjects
  PROVE  LET x == Extension(obj)
             e == obj.extension
         IN /\ x \in Seq(Byte) /\ e \in Seq(Byte)
            /\ e = <<>> => x = <<>>
            /\ e # <<>> =>
                 /\ Len(e) \in Nat \ {0} /\ Len(e) = 4 * (Len(e) \div 4)
                 /\ Len(x) = 4 + Len(e)
                 /\ x[1] = obj.extid \div 256 /\ x[2] = obj.extid % 256
                 /\ Ntohs(x, 3) = Len(e) \div 4
                 /\ \A i \in 5 .. 4 + Len(e) : x[i] = e[i - 4]
<1> DEFINE e == obj.extension
           d == Htons(obj.extid)
           w == Htons(Len(e) \div 4)
<1>1. e \in Seq(Byte) /\ Len(e) % 4 = 0 /\ Len(e) \div 4 \in Short /\ obj.extid \in Short
  BY DEF RTPObjects, Extensions
<1>2. d \in Seq(Byte) /\ Len(d) = 2 /\ d[1] = obj.extid \div 256 /\ d[2] = obj.extid % 256
  BY <1>1, ShortBytes
<1>3. /\ w \in Seq(Byte) /\ Len(w) = 2
      /\ \A p, i : p[i] = w[1] /\ p[i + 1] = w[2] => Ntohs(p, i) = Len(e) \div 4
  BY <1>1, ShortBytes, ZenonT(40)
<1>4. e = <<>> => Extension(obj) = <<>>
  BY DEF Extension
<1>5. e # <<>> => Extension(obj) = Join(Join(d, w), e)
  BY Zenon DEF Join, Extension
<1> HIDE DEF e, d, w
<1>6. /\ Join(d, w) \in Seq(Byte) /\ Len(Join(d, w)) = 4
      /\ Join(d, w)[1] = d[1] /\ Join(d, w)[2] = d[2] /\ Join(d, w)[3] = w[1] /\ Join(d, w)[4] = w[2]
  <2>1. /\ Join(d, w) \in Seq(Byte) /\ Len(Join(d, w)) = Len(d) + Len(w)
        /\ \A i \in 1 .. Len(d) : Join(d, w)[i] = d[i]
        /\ \A i \in Len(d) + 1 .. Len(d) + Len(w) : Join(d, w)[i] = w[i - Len(d)]
    <3>1. d \in Seq(Byte) /\ w \in Seq(Byte)
      BY <1>2, <1>3, SMT
    <3> QED
      BY <3>1, Joined, Zenon
  <2> QED
    BY <1>2, <1>3, <2>1, SMT
<1>7. /\ Join(Join(d, w), e) \in Seq(Byte) /\ Len(Join(Join(d, w), e)) = 4 + Len(e)
      /\ \A i \in 1 .. 4 : Join(Join(d, w), e)[i] = Join(d, w)[i]
      /\ \A i \in 5 .. 4 + Len(e) : Join(Join(d, w), e)[i] = e[i - 4]
  <2>1. /\ Join(Join(d, w), e) \in Seq(Byte) /\ Len(Join(Join(d, w), e)) = Len(Join(d, w)) + Len(e)
        /\ \A i \in 1 .. Len(Join(d, w)) : Join(Join(d, w), e)[i] = Join(d, w)[i]
        /\ \A i \in Len(Join(d, w)) + 1 .. Len(Join(d, w)) + Len(e) : Join(Join(d, w), e)[i] = e[i - Len(Join(d, w))]
    BY <1>1, <1>6, Joined, Zenon
  <2> QED
    BY <1>1, <1>6, <2>1, SMT
<1>8. e # <<>> => Len(e) \in Nat \ {0} /\ Len(e) = 4 * (Len(e) \div 4)
  BY <1>1
<1>9. <<>> \in Seq(Byte)
  OBVIOUS
<1>10. e = obj.extension
  BY DEF e
<1>11. Join(Join(d, w), e)[1] = d[1] /\ Join(Join(d, w), e)[2] = d[2]
       /\ Join(Join(d, w), e)[3] = w[1] /\ Join(Join(d, w), e)[4] = w[2]
  BY <1>6, <1>7
<1> QED
  <2>1. CASE e = <<>>
    BY <2>1, <1>1, <1>4, <1>9, <1>10
  <2>2. CASE e # <<>>
    <3> DEFINE x == Join(Join(d, w), e)
    <3>1. x[3] = w[1] /\ x[3 + 1] = w[2]
      BY <1>11, SMT
    <3>2. Ntohs(x, 3) = Len(e) \div 4
      BY <1>3, <3>1, Zenon
    <3>3. x[1] = obj.extid \div 256 /\ x[2] = obj.extid % 256
      BY <1>2, <1>11, Zenon
    <3>4. x = Extension(obj)
      BY <2>2, <1>5
    <3> HIDE DEF x
    <3> QED
      BY <2>2, <1>1, <1>7, <1>8, <1>10, <3>2, <3>3, <3>4, ZenonT(40) DEF x
  <2> QED
    BY <2>1, <2>2

\* Where everything is in a packet that has been sent.
LEMMA PacketBytes ==
  ASSUME NEW obj \in RTPObjects, NEW now \in Word
  PROVE  LET p == Stamp(Encode(obj), now)
             h == Header(obj)
             x == Extension(obj)
         IN /\ p \in Seq(Byte) /\ Len(p) = 12 + Len(x) + Len(obj.payload)
            /\ \A i \in 1 .. 4 : p[i] = h[i]
            /\ Ntohl(p, 5) = now
            /\ \A i \in 9 .. 12 : p[i] = h[i]
            /\ \A i \in 13 .. 12 + Len(x) : p[i] = x[i - 12]
            /\ \A i \in 13 + Len(x) .. 12 + Len(x) + Len(obj.payload) :
                 p[i] = obj.payload[i - (12 + Len(x))]
<1> DEFINE h == Header(obj)
           x == Extension(obj)
           l == obj.payload
           e == Join(Join(h, x), l)
           p == Stamp(e, now)
           n == Htonl(now)
<1>1. h \in Seq(Byte) /\ Len(h) = 12
  BY HeaderBytes, Zenon
<1>2. x \in Seq(Byte)
  BY ExtensionBytes, Zenon
<1>3. l \in Seq(Byte)
  BY DEF RTPObjects
<1>4. n \in Seq(Byte) /\ Len(n) = 4
  BY WordBytes, Zenon
<1>5. Encode(obj) = e
  BY Zenon DEF Join, Encode
<1> HIDE DEF h, x, l, n
<1>6. /\ Join(h, x) \in Seq(Byte) /\ Len(Join(h, x)) = 12 + Len(x) /\ Len(x) \in Nat
      /\ \A i \in 1 .. 12 : Join(h, x)[i] = h[i]
      /\ \A i \in 13 .. 12 + Len(x) : Join(h, x)[i] = x[i - 12]
  <2>1. /\ Join(h, x) \in Seq(Byte) /\ Len(Join(h, x)) = Len(h) + Len(x) /\ Len(x) \in Nat
        /\ \A i \in 1 .. Len(h) : Join(h, x)[i] = h[i]
        /\ \A i \in Len(h) + 1 .. Len(h) + Len(x) : Join(h, x)[i] = x[i - Len(h)]
    BY <1>1, <1>2, Joined, Zenon
  <2> QED
    BY <1>1, <2>1, SMT
<1>7. /\ e \in Seq(Byte) /\ Len(e) = 12 + Len(x) + Len(l) /\ Len(l) \in Nat
      /\ \A i \in 1 .. 12 + Len(x) : e[i] = Join(h, x)[i]
      /\ \A i \in 13 + Len(x) .. 12 + Len(x) + Len(l) : e[i] = l[i - (12 + Len(x))]
  <2> DEFINE j == Join(h, x)
  <2>1. /\ e \in Seq(Byte) /\ Len(e) = Len(j) + Len(l) /\ Len(l) \in Nat
        /\ \A i \in 1 .. Len(j) : e[i] = j[i]
        /\ \A i \in Len(j) + 1 .. Len(j) + Len(l) : e[i] = l[i - Len(j)]
    BY <1>3, <1>6, Joined, Zenon
  <2>2. Len(j) = 12 + Len(x)
    BY <1>6
  <2> HIDE DEF e, j
  <2>3. /\ \A i \in 1 .. 12 + Len(x) : e[i] = j[i]
        /\ \A i \in 12 + Len(x) + 1 .. 12 + Len(x) + Len(l) : e[i] = l[i - (12 + Len(x))]
        /\ Len(e) = 12 + Len(x) + Len(l)
    BY <2>1, <2>2, Zenon
  <2>4. 12 + Len(x) + 1 = 13 + Len(x)
    BY <1>6
  <2> QED
    BY <2>1, <2>3, <2>4, Zenon DEF j
<1> HIDE DEF e
<1>8. DOMAIN e = 1 .. 12 + Len(x) + Len(l)
  BY <1>7, LenProperties
<1>9. \A i \in 1 .. 12 + Len(x) + Len(l) : p[i] = IF i \in 5 .. 8 THEN n[i - 4] ELSE e[i]
  BY <1>8 DEF p, Stamp, n
<1>10. p \in Seq(Byte) /\ Len(p) = 12 + Len(x) + Len(l)
  <2>1. 12 + Len(x) + Len(l) \in Nat
    BY <1>6, <1>7
  <2>2. \A i \in 5 .. 8 : n[i - 4] \in Byte
    <3>1. \A i \in 1 .. 4 : n[i] \in Byte
      BY <1>4, SMTT(30)
    <3>2. \A i \in 5 .. 8 : i - 4 \in 1 .. 4
      OBVIOUS
    <3> QED
      BY <3>1, <3>2, Zenon
  <2>3. \A i \in 1 .. 12 + Len(x) + Len(l) : e[i] \in Byte
    BY <1>7
  <2>4. p \in [1 .. 12 + Len(x) + Len(l) -> Byte]
    BY <1>8, <2>2, <2>3 DEF p, Stamp, n
  <2> QED
    BY <2>1, <2>4
<1> HIDE DEF p
<1>11. \A i \in 5 .. 8 : p[i] = n[i - 4]
  BY <1>6, <1>7, <1>9, SMTT(30)
<1>12. p[5] = n[1] /\ p[5 + 1] = n[2] /\ p[5 + 2] = n[3] /\ p[5 + 3] = n[4]
  BY <1>11
<1>13. Ntohl(p, 5) = now
  BY <1>12, WordBytes, Zenon DEF n
<1>14. \A i \in 1 .. 12 : i \notin 5 .. 8 => p[i] = h[i]
  BY <1>6, <1>7, <1>9, SMTT(30)
<1>15. \A i \in 13 .. 12 + Len(x) : p[i] = x[i - 12]
  BY <1>6, <1>7, <1>9, SMTT(30)
<1>16. \A i \in 13 + Len(x) .. 12 + Len(x) + Len(l) : p[i] = l[i - (12 + Len(x))]
  BY <1>6, <1>7, <1>9, SMTT(30)
<1>17. /\ \A i \in 1 .. 4 : p[i] = h[i]
       /\ \A i \in 9 .. 12 : p[i] = h[i]
  BY <1>14
<1> QED
  BY <1>5, <1>10, <1>13, <1>15, <1>16, <1>17, Zenon DEF p, h, x, l

\* The end of a sequence, and the piece behind a header, given byte by byte.
LEMMA Piece ==
  ASSUME NEW p \in Seq(Byte), NEW s \in Seq(Byte), NEW k \in Nat,
         k + Len(s) <= Len(p), \A i \in k + 1 .. k + Len(s) : p[i] = s[i - k]
  PROVE  SubSeq(p, k + 1, k + Len(s)) = s
<1> DEFINE q == SubSeq(p, k + 1, k + Len(s))
<1>1. Len(s) \in Nat /\ \A i \in 1 .. Len(s) : k + i \in k + 1 .. k + Len(s)
  OBVIOUS
<1>2. \A i \in k + 1 .. k + Len(s) : p[i] \in Byte
  OBVIOUS
<1>3. /\ q \in Seq(Byte) /\ Len(q) = Len(s)
      /\ \A i \in 1 .. Len(s) : q[i] = p[k + i]
  <2> DEFINE m == k + 1
             n == k + Len(s)
  <2>0. m \in Int /\ n \in Int
    BY <1>1
  <2>10. \A i \in m .. n : p[i] \in Byte
    BY <1>2
  <2> HIDE DEF m, n
  <2>1. /\ SubSeq(p, m, n) \in Seq(Byte)
        /\ Len(SubSeq(p, m, n)) = IF m <= n THEN n - m + 1 ELSE 0
        /\ \A i \in 1 .. n - m + 1 : SubSeq(p, m, n)[i] = p[m + i - 1]
    BY <2>0, <2>10, SubSeqProperties, SMT
  <2>2. /\ n - m + 1 = Len(s)
        /\ (IF m <= n THEN n - m + 1 ELSE 0) = Len(s)
        /\ \A i \in 1 .. Len(s) : m + i - 1 = k + i
    BY <1>1 DEF m, n
  <2>3. q = SubSeq(p, m, n)
    BY DEF m, n
  <2> HIDE DEF q
  <2> QED
    BY <2>1, <2>2, <2>3, Zenon
<1>4. \A i \in 1 .. Len(s) : p[k + i] = s[i]
  <2>1. \A i \in 1 .. Len(s) : (k + i) - k = i
    BY <1>1
  <2> QED
    BY <1>1, <2>1
<1> HIDE DEF q
<1>5. \A i \in 1 .. Len(q) : q[i] = s[i]
  BY <1>3, <1>4
<1> QED
  BY <1>3, <1>5, SeqEqual, Zenon DEF q

LEMMA SevenBits ==
  ASSUME NEW n \in 0 .. 127
  PROVE  /\ n % 128 = n /\ (0 + n) % 128 = n /\ (0 + n) \div 128 = 0
         /\ (128 + n) % 128 = n /\ (128 + n) \div 128 = 1
BY SMT

\* Equal bytes make equal numbers.
LEMMA SameNumbers ==
  ASSUME NEW p, NEW q, NEW i, NEW j
  PROVE  /\ p[i] = q[j] /\ p[i + 1] = q[j + 1] => Ntohs(p, i) = Ntohs(q, j)
         /\ (/\ p[i] = q[j] /\ p[i + 1] = q[j + 1]
             /\ p[i + 2] = q[j + 2] /\ p[i + 3] = q[j + 3]) => Ntohl(p, i) = Ntohl(q, j)
BY SMT DEF Ntohs, Ntohl

\* A packet that has been sent parses, and decodes to what it was made of.
THEOREM DecodeEncode ==
  ASSUME NEW obj \in RTPObjects, MayEncode(obj), NEW now \in Word
  PROVE  LET p == Stamp(Encode(obj), now)
         IN Parse(p) /\ Decode(p) = Received(obj, now)
<1> DEFINE h == Header(obj)
           x == Extension(obj)
           e == obj.extension
           l == obj.payload
           p == Stamp(Encode(obj), now)
<1>1. /\ p \in Seq(Byte) /\ Len(p) = 12 + Len(x) + Len(l)
      /\ \A i \in 1 .. 4 : p[i] = h[i]
      /\ Ntohl(p, 5) = now
      /\ \A i \in 9 .. 12 : p[i] = h[i]
      /\ \A i \in 13 .. 12 + Len(x) : p[i] = x[i - 12]
      /\ \A i \in 13 + Len(x) .. 12 + Len(x) + Len(l) : p[i] = l[i - (12 + Len(x))]
  BY PacketBytes, Zenon
<1>2. /\ h \in Seq(Byte) /\ Len(h) = 12
      /\ h[1] = 128 + (IF e # <<>> THEN 16 ELSE 0)
      /\ h[2] = (IF obj.marker THEN 128 ELSE 0) + (obj.payloadtype % 128)
      /\ Ntohs(h, 3) = obj.sequence
      /\ Ntohl(h, 9) = obj.ssrc
  BY HeaderBytes, Zenon
<1>3. /\ x \in Seq(Byte) /\ e \in Seq(Byte)
      /\ e = <<>> => x = <<>>
      /\ e # <<>> =>
           /\ Len(e) \in Nat \ {0} /\ Len(e) = 4 * (Len(e) \div 4)
           /\ Len(x) = 4 + Len(e)
           /\ x[1] = obj.extid \div 256 /\ x[2] = obj.extid % 256
           /\ Ntohs(x, 3) = Len(e) \div 4
           /\ \A i \in 5 .. 4 + Len(e) : x[i] = e[i - 4]
  BY ExtensionBytes, Zenon
<1>4. /\ l \in Seq(Byte) /\ obj.payloadtype \in 0 .. 127 /\ obj.payloadtype \notin {72, 73}
      /\ obj.marker \in BOOLEAN /\ obj.extid \in Nat
  <2>1. /\ l \in Seq(Byte) /\ obj.payloadtype \in Byte /\ obj.marker \in BOOLEAN /\ obj.extid \in Short
    BY Zenon DEF RTPObjects
  <2>2. \A n \in Short : n \in Nat
    BY ShortBounds, SMT
  <2>3. obj.payloadtype \notin {72, 73} /\ obj.payloadtype <= 127
    BY Zenon DEF MayEncode
  <2>4. \A n \in Byte : n <= 127 => n \in 0 .. 127
    BY SMT DEF Byte
  <2> QED
    BY <2>1, <2>2, <2>3, <2>4, Zenon
<1> HIDE DEF h, x, e, l, p
<1>5. /\ p[1] = 128 + (IF e # <<>> THEN 16 ELSE 0)
      /\ p[2] = (IF obj.marker THEN 128 ELSE 0) + obj.payloadtype
  <2>1. obj.payloadtype % 128 = obj.payloadtype
    BY <1>4, SevenBits, Zenon
  <2> QED
    BY <1>1, <1>2, <2>1
<1>6. /\ p[1] \div 64 = 2 /\ p[1] % 16 = 0 /\ (p[1] \div 32) % 2 = 0
      /\ (p[1] \div 16) % 2 = (IF e # <<>> THEN 1 ELSE 0)
  <2>1. CASE e # <<>>
    BY <1>5, <2>1
  <2>2. CASE e = <<>>
    BY <1>5, <2>2
  <2> QED
    BY <2>1, <2>2
<1>7. p[2] % 128 = obj.payloadtype /\ (p[2] \div 128 = 1) = obj.marker
  <2>1. CASE obj.marker
    <3>1. p[2] = 128 + obj.payloadtype
      BY <1>5, <2>1
    <3> QED
      BY <1>4, <2>1, <3>1, SevenBits, ZenonT(40)
  <2>2. CASE ~obj.marker
    <3>1. p[2] = 0 + obj.payloadtype
      BY <1>5, <2>2
    <3>2. p[2] \div 128 = 0
      BY <1>4, <3>1, SevenBits, ZenonT(40)
    <3>3. p[2] \div 128 # 1
      BY <3>2
    <3> QED
      BY <1>4, <2>2, <3>1, <3>3, SevenBits, ZenonT(40)
  <2> QED
    BY <1>4, <2>1, <2>2
<1>8. Ntohs(p, 3) = obj.sequence
  <2>1. p[3] = h[3] /\ p[3 + 1] = h[3 + 1]
    BY <1>1
  <2>2. Ntohs(p, 3) = Ntohs(h, 3)
    BY <2>1, SameNumbers, SMT
  <2> QED
    BY <1>2, <2>2, Zenon
<1>9. Ntohl(p, 9) = obj.ssrc
  <2>1. p[9] = h[9] /\ p[9 + 1] = h[9 + 1] /\ p[9 + 2] = h[9 + 2] /\ p[9 + 3] = h[9 + 3]
    BY <1>1
  <2>2. Ntohl(p, 9) = Ntohl(h, 9)
    BY <2>1, SameNumbers, SMT
  <2> QED
    BY <1>2, <2>2, Zenon
<1>10. Parse(p)
  <2>1. Len(p) >= 12
    BY <1>1, <1>3, <1>4
  <2> QED
    BY <1>4, <1>6, <1>7, <2>1 DEF Parse, RTPHeaderSize
<1>11. Padding(p) = 0
  BY <1>6 DEF Padding
<1>12. e # <<>> => /\ p[13] = x[1] /\ p[14] = x[2] /\ Ntohs(p, 15) = Len(e) \div 4
  <2> SUFFICES ASSUME e # <<>>
               PROVE  /\ p[13] = x[1] /\ p[14] = x[2] /\ Ntohs(p, 15) = Len(e) \div 4
    OBVIOUS
  <2>0. \A i \in 13 .. 16 : i \in 13 .. 12 + Len(x)
    BY <1>3
  <2>1. \A i \in 13 .. 16 : p[i] = x[i - 12]
    BY <1>1, <2>0, Zenon
  <2>2. p[13] = x[1] /\ p[14] = x[2] /\ p[15] = x[3] /\ p[15 + 1] = x[3 + 1]
    BY <2>1
  <2>3. Ntohs(p, 15) = Ntohs(x, 3)
    BY <2>2, SameNumbers, SMT
  <2> QED
    BY <1>3, <2>2, <2>3
<1>13. PayloadAt(p) = 12 + Len(x)
  <2>1. CASE e = <<>>
    <3>1. Len(x) = 0
      BY <1>3, <2>1
    <3> QED
      BY <1>6, <2>1, <3>1 DEF PayloadAt, RTPHeaderSize
  <2>2. CASE e # <<>>
    <3>1. RTPHeaderSize + 4 * (p[1] % 16) + 3 = 15
      BY <1>6 DEF RTPHeaderSize
    <3>2. PayloadAt(p) = 12 + (4 + 4 * (Len(e) \div 4))
      BY <1>6, <1>12, <2>2, <3>1 DEF PayloadAt, RTPHeaderSize, RTPExtensionHeaderSize
    <3> QED
      BY <1>3, <2>2, <3>2
  <2> QED
    BY <2>1, <2>2
<1>14. SubSeq(p, PayloadAt(p) + 1, Len(p) - Padding(p)) = l
  <2> DEFINE k == 12 + Len(x)
  <2>1. k \in Nat /\ k + Len(l) = Len(p) /\ k + 1 = 13 + Len(x) /\ Len(p) \in Nat /\ Len(p) - 0 = Len(p)
    BY <1>1, <1>3, <1>4
  <2>2. \A i \in k + 1 .. k + Len(l) : p[i] = l[i - k]
    BY <1>1, <2>1, Zenon
  <2>3. k + Len(l) <= Len(p)
    BY <2>1
  <2> HIDE DEF k
  <2>4. SubSeq(p, k + 1, k + Len(l)) = l
    BY <1>1, <1>4, <2>1, <2>2, <2>3, Piece, Zenon
  <2> QED
    BY <1>11, <1>13, <2>1, <2>4, Zenon DEF k
<1>15. e # <<>> => SubSeq(p, 16 + 1, 16 + Len(e)) = e
  <2> SUFFICES ASSUME e # <<>>
               PROVE  SubSeq(p, 16 + 1, 16 + Len(e)) = e
    OBVIOUS
  <2>1. 16 + Len(e) <= Len(p)
    BY <1>1, <1>3, <1>4
  <2>2. \A i \in 16 + 1 .. 16 + Len(e) : p[i] = e[i - 16]
    <3> SUFFICES ASSUME NEW i \in 17 .. 16 + Len(e)
                 PROVE  p[i] = e[i - 16]
      OBVIOUS
    <3>1. i \in 13 .. 12 + Len(x) /\ i - 12 \in 5 .. 4 + Len(e) /\ (i - 12) - 4 = i - 16
      BY <1>3
    <3> QED
      BY <1>1, <1>3, <3>1, ZenonT(40)
  <2>3. 16 \in Nat
    OBVIOUS
  <2> QED
    BY <1>1, <1>3, <2>1, <2>2, <2>3, Piece, Zenon
<1>16. /\ Decode(p).payloadtype = obj.payloadtype /\ Decode(p).marker = obj.marker
       /\ Decode(p).sequence = obj.sequence /\ Decode(p).timestamp = now
       /\ Decode(p).ssrc = obj.ssrc /\ Decode(p).payload = l
  BY <1>1, <1>7, <1>8, <1>9, <1>14, Zenon DEF Decode
<1>17. Decode(p).extid = (IF e = <<>> THEN 0 ELSE Swapped(obj.extid)) /\ Decode(p).extension = e
  <2>1. CASE e = <<>>
    <3>1. (p[1] \div 16) % 2 # 1
      BY <1>6, <2>1
    <3> QED
      BY <2>1, <3>1 DEF Decode
  <2>2. CASE e # <<>>
    <3>1. (p[1] \div 16) % 2 = 1
      BY <1>6, <2>2
    <3>2. /\ RTPHeaderSize + 4 * (p[1] % 16) = 12 /\ 12 + 1 = 13 /\ 12 + 2 = 14 /\ 12 + 3 = 15
          /\ 12 + RTPExtensionHeaderSize + 1 = 16 + 1
      BY <1>6 DEF RTPHeaderSize, RTPExtensionHeaderSize
    <3>3. /\ Ntohs(p, 15) > 0
          /\ 12 + RTPExtensionHeaderSize + 4 * Ntohs(p, 15) = 16 + Len(e)
      <4>1. /\ Len(e) \in Nat \ {0} /\ Len(e) = 4 * (Len(e) \div 4)
            /\ Ntohs(p, 15) = Len(e) \div 4
        BY <1>3, <1>12, <2>2, Zenon
      <4>2. \A n \in Nat \ {0} : n = 4 * (n \div 4) => n \div 4 > 0 /\ 12 + 4 + 4 * (n \div 4) = 16 + n
        OBVIOUS
      <4> QED
        BY <4>1, <4>2, Zenon DEF RTPExtensionHeaderSize
    <3>4. Decode(p).extension = SubSeq(p, 16 + 1, 16 + Len(e))
      BY <3>1, <3>2, <3>3, Zenon DEF Decode
    <3>5. Decode(p).extid = p[13] + 256 * p[14]
      BY <3>1, <3>2, <3>3, ZenonT(40) DEF Decode
    <3>6. p[13] + 256 * p[14] = Swapped(obj.extid)
      BY <1>3, <1>4, <1>12, <2>2, SMTT(30) DEF Swapped
    <3> QED
      BY <1>15, <2>2, <3>4, <3>5, <3>6
  <2> QED
    BY <2>1, <2>2
<1>18. Decode(p) = Received(obj, now)
  <2> DEFINE i == IF e = <<>> THEN 0 ELSE Swapped(obj.extid)
  <2>1. PICK a, b, c, d, f, g, j, k :
          obj = [payloadtype |-> a, marker |-> b, sequence |-> c, timestamp |-> d, ssrc |-> f,
                 extid |-> g, extension |-> j, payload |-> k]
    BY DEF RTPObjects
  <2>2. Received(obj, now) =
          [payloadtype |-> obj.payloadtype, marker |-> obj.marker, sequence |-> obj.sequence,
           timestamp |-> now, ssrc |-> obj.ssrc, extid |-> i, extension |-> e, payload |-> l]
    <3>1. Received(obj, now) = [obj EXCEPT !.timestamp = now, !.extid = i]
      BY Zenon DEF Received, e
    <3>2. [obj EXCEPT !.timestamp = now, !.extid = i] =
            [payloadtype |-> a, marker |-> b, sequence |-> c, timestamp |-> now, ssrc |-> f,
             extid |-> i, extension |-> j, payload |-> k]
      <4> HIDE DEF i
      <4>1. [obj EXCEPT !.timestamp = now, !.extid = i]
              = [[obj EXCEPT !.timestamp = now] EXCEPT !.extid = i]
        OBVIOUS
      <4>2. [obj EXCEPT !.timestamp = now] =
              [payloadtype |-> a, marker |-> b, sequence |-> c, timestamp |-> now, ssrc |-> f,
               extid |-> g, extension |-> j, payload |-> k]
        BY <2>1
      <4>3. [[payloadtype |-> a, marker |-> b, sequence |-> c, timestamp |-> now, ssrc |-> f,
              extid |-> g, extension |-> j, payload |-> k] EXCEPT !.extid = i] =
              [payloadtype |-> a, marker |-> b, sequence |-> c, timestamp |-> now, ssrc |-> f,
               extid |-> i, extension |-> j, payload |-> k]
        OBVIOUS
      <4> QED
        BY <4>1, <4>2, <4>3, Zenon
    <3>3. /\ obj.payloadtype = a /\ obj.marker = b /\ obj.sequence = c /\ obj.ssrc = f
          /\ e = j /\ l = k
      BY <2>1 DEF e, l
    <3> QED
      BY <3>1, <3>2, <3>3, Zenon
  <2>3. Decode(p) =
          [payloadtype |-> Decode(p).payloadtype, marker |-> Decode(p).marker,
           sequence |-> Decode(p).sequence, timestamp |-> Decode(p).timestamp,
           ssrc |-> Decode(p).ssrc, extid |-> Decode(p).extid,
           extension |-> Decode(p).extension, payload |-> Decode(p).payload]
    BY DEF Decode
  <2> QED
    BY <1>16, <1>17, <2>2, <2>3, Zenon
<1> QED
  BY <1>10, <1>18, Zenon DEF p

-----------------------------------------------------------------------------
(* The payload of a packet of voice *)

LEMMA LeastNumber ==
  ASSUME NEW T \in SUBSET Nat, T # {}
  PROVE  \E x \in T : \A y \in T : x <= y
<1>1. \E x \in T : \A y \in T : ~(<<y, x>> \in OpToRel(<, Nat))
  BY NatLessThanWellFounded, WFMin, Zenon
<1>2. \A x, y \in Nat : <<y, x>> \in OpToRel(<, Nat) <=> y < x
  BY DEF OpToRel
<1>3. \A x, y \in Nat : ~(y < x) => x <= y
  OBVIOUS
<1> QED
  BY <1>1, <1>2, <1>3

\* Induction, over a set of numbers.
LEMMA Induction ==
  ASSUME NEW S, 0 \in S, \A n \in Nat : n \in S => n + 1 \in S
  PROVE  \A n \in Nat : n \in S
<1> SUFFICES ASSUME Nat \ S # {}
             PROVE  FALSE
  OBVIOUS
<1>1. PICK x \in Nat \ S : \A y \in Nat \ S : x <= y
  BY LeastNumber
<1>2. x # 0
  OBVIOUS
<1>3. x - 1 \in Nat /\ ~(x <= x - 1) /\ (x - 1) + 1 = x
  BY <1>1, <1>2
<1>4. x - 1 \in S
  BY <1>1, <1>3
<1> QED
  BY <1>1, <1>3, <1>4

\* The greatest of some numbers up to k.
LEMMA GreatestNumber ==
  ASSUME NEW k \in Nat, NEW s \in SUBSET (1 .. k), s # {}
  PROVE  Max(s) \in s /\ \A y \in s : y <= Max(s)
<1> DEFINE T == {k - y : y \in s}
<1>1. T \in SUBSET Nat /\ T # {}
  <2>1. \A y \in s : k - y \in Nat
    OBVIOUS
  <2> QED
    BY <2>1
<1>2. PICK t \in T : \A u \in T : t <= u
  BY <1>1, LeastNumber
<1>3. PICK x \in s : t = k - x
  BY <1>2
<1>4. \A y \in s : x >= y
  <2> SUFFICES ASSUME NEW y \in s
               PROVE  x >= y
    OBVIOUS
  <2>1. k - x <= k - y
    BY <1>2, <1>3
  <2> QED
    BY <2>1
<1>5. Max(s) \in s /\ \A y \in s : Max(s) >= y
  <2>1. \E z \in s : \A y \in s : z >= y
    BY <1>4
  <2> QED
    BY <2>1, Zenon DEF Max
<1> QED
  BY <1>5

\* What the packet holds after each call of fixBlockSize.
LEMMA Packing ==
  ASSUME NEW blocks \in Seq(EncodedBlocks)
  PROVE  \E packed : /\ packed[0] = <<>>
                     /\ \A k \in 1 .. Len(blocks) :
                          packed[k] = FixBlockSize(packed[k - 1], blocks[k])
                     /\ Pack(blocks) = packed[Len(blocks)] \o <<0, 0>>
<1> DEFINE n == Len(blocks)
           Step(g, s) == IF s = {} THEN <<>>
                         ELSE FixBlockSize(g[s \ {Max(s)}], blocks[Max(s)])
           Packs(g, k) == g = [s \in SUBSET (1 .. k) |-> Step(g, s)]
           K == {k \in Nat : \E g : Packs(g, k)}
<1>1. n \in Nat /\ DOMAIN blocks = 1 .. n
  BY LenProperties
<1>2. 0 \in K
  <2> DEFINE g == [s \in SUBSET (1 .. 0) |-> <<>>]
  <2>1. \A s \in SUBSET (1 .. 0) : s = {}
    OBVIOUS
  <2>2. Packs(g, 0)
    BY <2>1
  <2> QED
    BY <2>2
<1>3. ASSUME NEW k \in Nat, k \in K
      PROVE  k + 1 \in K
  <2>1. PICK g : Packs(g, k)
    BY <1>3
  <2> DEFINE h == [s \in SUBSET (1 .. k + 1) |-> Step(g, s)]
  <2>2. ASSUME NEW s \in SUBSET (1 .. k + 1), s # {}
        PROVE  s \ {Max(s)} \in SUBSET (1 .. k)
    <3>0. k + 1 \in Nat
      OBVIOUS
    <3>1. Max(s) \in s /\ \A y \in s : y <= Max(s)
      BY <2>2, <3>0, GreatestNumber, Zenon
    <3>2. ASSUME NEW y \in s \ {Max(s)}
          PROVE  y \in 1 .. k
      <4>1. y \in 1 .. k + 1 /\ Max(s) \in 1 .. k + 1 /\ y <= Max(s) /\ y # Max(s)
        BY <2>2, <3>1
      <4> QED
        BY <4>1
    <3> QED
      BY <3>2
  <2>3. \A s \in SUBSET (1 .. k) : h[s] = g[s]
    <3>1. \A s \in SUBSET (1 .. k) : s \in SUBSET (1 .. k + 1)
      OBVIOUS
    <3>2. \A s \in SUBSET (1 .. k) : g[s] = Step(g, s)
      BY <2>1, Zenon
    <3> QED
      BY <3>1, <3>2, Zenon
  <2>4. \A s \in SUBSET (1 .. k + 1) : Step(g, s) = Step(h, s)
    BY <2>2, <2>3, Zenon
  <2>5. Packs(h, k + 1)
    BY <2>4, Zenon
  <2> HIDE DEF h, Packs
  <2> QED
    BY <2>5
<1>4. \A k \in Nat : k \in K
  <2> HIDE DEF K
  <2> QED
    BY <1>2, <1>3, Induction, Zenon
<1> DEFINE f == CHOOSE g : Packs(g, n)
<1>5. Packs(f, n)
  <2>1. \E g : Packs(g, n)
    BY <1>1, <1>4
  <2> HIDE DEF Packs
  <2> QED
    BY <2>1, Zenon
<1>6. FoldLeft(FixBlockSize, <<>>, blocks) = f[1 .. n]
  BY <1>1, Zenon DEF FoldLeft, MapThenFoldSet
<1> HIDE DEF f
<1>7. \A k \in 1 .. n : /\ 1 .. k \in SUBSET (1 .. n) /\ 1 .. k # {}
                        /\ Max(1 .. k) = k /\ (1 .. k) \ {k} = 1 .. k - 1
  <2> SUFFICES ASSUME NEW k \in 1 .. n
               PROVE  /\ 1 .. k \in SUBSET (1 .. n) /\ 1 .. k # {}
                      /\ Max(1 .. k) = k /\ (1 .. k) \ {k} = 1 .. k - 1
    OBVIOUS
  <2>1. 1 .. k \in SUBSET (1 .. n) /\ k \in 1 .. k /\ (1 .. k) \ {k} = 1 .. k - 1 /\ k \in Nat
    BY <1>1
  <2>2. Max(1 .. k) \in 1 .. k /\ \A y \in 1 .. k : y <= Max(1 .. k)
    BY <2>1, GreatestNumber
  <2>3. Max(1 .. k) = k
    BY <2>1, <2>2
  <2> QED
    BY <2>1, <2>3
<1>8. f[1 .. 0] = <<>>
  <2>1. 1 .. 0 \in SUBSET (1 .. n) /\ 1 .. 0 = {}
    OBVIOUS
  <2> QED
    BY <1>5, <2>1, Zenon
<1>9. \A k \in 1 .. n : f[1 .. k] = FixBlockSize(f[1 .. k - 1], blocks[k])
  <2> SUFFICES ASSUME NEW k \in 1 .. n
               PROVE  f[1 .. k] = FixBlockSize(f[1 .. k - 1], blocks[k])
    OBVIOUS
  <2>1. f[1 .. k] = Step(f, 1 .. k)
    BY <1>5, <1>7, Zenon
  <2>2. Step(f, 1 .. k) = FixBlockSize(f[(1 .. k) \ {k}], blocks[k])
    BY <1>7, Zenon
  <2> QED
    BY <1>7, <2>1, <2>2, Zenon
<1> DEFINE packed == [k \in 0 .. n |-> f[1 .. k]]
<1>10. packed[0] = <<>> /\ packed[n] = f[1 .. n]
  BY <1>1, <1>8
<1>11. \A k \in 1 .. n : packed[k] = FixBlockSize(packed[k - 1], blocks[k])
  <2>1. \A k \in 1 .. n : k \in 0 .. n /\ k - 1 \in 0 .. n
    BY <1>1
  <2> QED
    BY <1>9, <2>1, Zenon
<1>12. Pack(blocks) = packed[n] \o <<0, 0>>
  BY <1>6, <1>10, Zenon DEF Pack
<1> HIDE DEF packed
<1> QED
  BY <1>10, <1>11, <1>12, Zenon

\* fixBlockSize leaves what was there and goes on at an even offset, behind the
\* block and its size.
LEMMA BlockFixed ==
  ASSUME NEW packed \in Seq(Byte), Len(packed) % 2 = 0, NEW block \in EncodedBlocks
  PROVE  LET q == FixBlockSize(packed, block)
             o == Len(packed)
             n == Len(block)
         IN /\ q \in Seq(Byte) /\ n \in 1 .. MaxBlockSize
            /\ Len(q) = o + 2 + n + (n % 2) /\ Len(q) % 2 = 0
            /\ \A i \in 1 .. o : q[i] = packed[i]
            /\ q[o + 1] = n % 256 /\ q[o + 2] = n \div 256
            /\ \A i \in o + 3 .. o + 2 + n : q[i] = block[i - (o + 2)]
<1> DEFINE o == Len(packed)
           n == Len(block)
           z == <<n % 256, n \div 256>>
           a == Join(packed, z)
           b == Join(a, block)
<1>1. /\ o \in Nat /\ block \in Seq(Byte) /\ n \in 1 .. MaxBlockSize /\ n \in Nat
      /\ n % 256 \in Byte /\ n \div 256 \in Byte
  <2>1. block \in Seq(Byte) /\ n \in 1 .. MaxBlockSize
    BY Zenon DEF EncodedBlocks
  <2>2. \A m \in 1 .. MaxBlockSize : m \in Nat /\ m % 256 \in Byte /\ m \div 256 \in Byte
    BY SMT DEF MaxBlockSize, Byte
  <2>3. o \in Nat
    OBVIOUS
  <2> QED
    BY <2>1, <2>2, <2>3, ZenonT(40)
<1>2. z \in Seq(Byte) /\ Len(z) = 2 /\ z[1] = n % 256 /\ z[2] = n \div 256
  BY <1>1
<1>3. FixBlockSize(packed, block) = IF Len(b) % 2 = 0 THEN b ELSE Append(b, Stale)
  BY Zenon DEF FixBlockSize, Join
<1> HIDE DEF z, a, b, n
<1>4. /\ a \in Seq(Byte) /\ Len(a) = o + 2
      /\ \A i \in 1 .. o : a[i] = packed[i]
      /\ a[o + 1] = z[1] /\ a[o + 2] = z[2]
  <2>1. /\ a \in Seq(Byte) /\ Len(a) = Len(packed) + Len(z)
        /\ \A i \in 1 .. Len(packed) : a[i] = packed[i]
        /\ \A i \in Len(packed) + 1 .. Len(packed) + Len(z) : a[i] = z[i - Len(packed)]
    <3>1. z \in Seq(Byte)
      BY <1>2, SMT
    <3> QED
      BY <3>1, Joined, Zenon DEF a
  <2>2. \A i \in o + 1 .. o + 2 : a[i] = z[i - o]
    BY <1>2, <2>1, Zenon
  <2>3. /\ o + 1 \in o + 1 .. o + 2 /\ (o + 1) - o = 1
        /\ o + 2 \in o + 1 .. o + 2 /\ (o + 2) - o = 2
    BY <1>1
  <2>4. a[o + 1] = z[1] /\ a[o + 2] = z[2]
    BY <2>2, <2>3, Zenon
  <2> QED
    BY <1>2, <2>1, <2>4, Zenon
<1>5. /\ b \in Seq(Byte) /\ Len(b) = o + 2 + n
      /\ \A i \in 1 .. o + 2 : b[i] = a[i]
      /\ \A i \in o + 3 .. o + 2 + n : b[i] = block[i - (o + 2)]
  <2>1. /\ b \in Seq(Byte) /\ Len(b) = Len(a) + Len(block)
        /\ \A i \in 1 .. Len(a) : b[i] = a[i]
        /\ \A i \in Len(a) + 1 .. Len(a) + Len(block) : b[i] = block[i - Len(a)]
    BY <1>1, <1>4, Joined, Zenon DEF b
  <2>2. \A i \in o + 2 + 1 .. o + 2 + n : b[i] = block[i - (o + 2)]
    BY <1>4, <2>1, Zenon DEF n
  <2>3. o + 2 + 1 = o + 3
    BY <1>1
  <2> QED
    BY <1>4, <2>1, <2>2, <2>3, Zenon DEF n
<1>6. Len(b) % 2 = n % 2 /\ n % 2 \in 0 .. 1
  <2>1. \A m, l \in Nat : l % 2 = 0 => (l + 2 + m) % 2 = m % 2 /\ m % 2 \in 0 .. 1
    OBVIOUS
  <2>2. o % 2 = 0
    OBVIOUS
  <2> QED
    BY <1>1, <1>5, <2>1, <2>2, Zenon
<1> DEFINE q == IF Len(b) % 2 = 0 THEN b ELSE Append(b, Stale)
<1>7. /\ q \in Seq(Byte) /\ Len(q) = o + 2 + n + (n % 2) /\ Len(q) % 2 = 0
      /\ \A i \in 1 .. o + 2 + n : q[i] = b[i]
  <2>1. CASE n % 2 = 0
    <3>1. q = b /\ o + 2 + n + (n % 2) = o + 2 + n
      BY <1>1, <1>6, <2>1
    <3> QED
      BY <1>5, <1>6, <2>1, <3>1, Zenon
  <2>2. CASE n % 2 # 0
    <3>1. q = Append(b, Stale) /\ n % 2 = 1
      BY <1>6, <2>2
    <3>2. Stale \in Byte
      BY AudPacketAssumption DEF Byte
    <3>3. /\ Append(b, Stale) \in Seq(Byte) /\ Len(Append(b, Stale)) = Len(b) + 1
          /\ \A i \in 1 .. Len(b) : Append(b, Stale)[i] = b[i]
      <4>1. b \in Seq(Byte)
        BY <1>5
      <4> QED
        BY <3>2, <4>1, AppendProperties
    <3>4. (o + 2 + n + 1) % 2 = 0
      <4>1. (o + 2 + n) % 2 = 1
        BY <1>5, <1>6, <3>1
      <4> QED
        BY <1>1, <4>1
    <3> QED
      BY <1>5, <3>1, <3>3, <3>4, Zenon
  <2> QED
    BY <2>1, <2>2
<1> HIDE DEF q
<1>8. /\ \A i \in 1 .. o : q[i] = packed[i]
      /\ q[o + 1] = n % 256 /\ q[o + 2] = n \div 256
      /\ \A i \in o + 3 .. o + 2 + n : q[i] = block[i - (o + 2)]
  <2>1. /\ \A i \in 1 .. o : i \in 1 .. o + 2 /\ i \in 1 .. o + 2 + n
        /\ o + 1 \in 1 .. o + 2 /\ o + 2 \in 1 .. o + 2
        /\ o + 1 \in 1 .. o + 2 + n /\ o + 2 \in 1 .. o + 2 + n
        /\ \A i \in o + 3 .. o + 2 + n : i \in 1 .. o + 2 + n
    BY <1>1, SMTT(30)
  <2>2. \A i \in 1 .. o : q[i] = packed[i]
    BY <1>4, <1>5, <1>7, <2>1, Zenon
  <2>3. q[o + 1] = a[o + 1] /\ q[o + 2] = a[o + 2]
    BY <1>5, <1>7, <2>1, Zenon
  <2>4. \A i \in o + 3 .. o + 2 + n : q[i] = block[i - (o + 2)]
    BY <1>5, <1>7, <2>1, Zenon
  <2> QED
    BY <1>2, <1>4, <2>2, <2>3, <2>4, Zenon
<1>9. FixBlockSize(packed, block) = q
  BY <1>3, Zenon DEF q
<1> QED
  BY <1>1, <1>7, <1>8, <1>9, ZenonT(40) DEF n

\* A block lies in a payload at an offset.
BlockIn(p, o, block) ==
  /\ o + 2 + Len(block) <= Len(p)
  /\ p[o + 1] = Len(block) % 256 /\ p[o + 2] = Len(block) \div 256
  /\ \A i \in o + 3 .. o + 2 + Len(block) : p[i] = block[i - (o + 2)]

LEMMA BlockInLonger ==
  ASSUME NEW p \in Seq(Byte), NEW q \in Seq(Byte), NEW o \in Nat, NEW block \in EncodedBlocks,
         BlockIn(p, o, block), Len(p) <= Len(q), \A i \in 1 .. Len(p) : q[i] = p[i]
  PROVE  BlockIn(q, o, block)
<1>1. /\ Len(p) \in Nat /\ Len(q) \in Nat /\ Len(block) \in Nat
  BY DEF EncodedBlocks
<1>2. o + 2 + Len(block) <= Len(p)
  BY Zenon DEF BlockIn
<1>3. /\ o + 2 + Len(block) <= Len(q)
      /\ o + 1 \in 1 .. Len(p) /\ o + 2 \in 1 .. Len(p)
      /\ \A i \in o + 3 .. o + 2 + Len(block) : i \in 1 .. Len(p)
  BY <1>1, <1>2
<1> QED
  BY <1>3, ZenonT(40) DEF BlockIn

\* A packet holds every block behind its size, and a size of zero at the end.
LEMMA PackBytes ==
  ASSUME NEW blocks \in Seq(EncodedBlocks)
  PROVE  LET n == Len(blocks)
             p == Pack(blocks)
         IN /\ p \in Seq(Byte)
            /\ \E off \in [0 .. n -> Nat] :
                 /\ off[0] = 0
                 /\ \A k \in 1 .. n :
                      /\ off[k] = off[k - 1] + 2 + Len(blocks[k]) + (Len(blocks[k]) % 2)
                      /\ BlockIn(p, off[k - 1], blocks[k])
                 /\ Len(p) = off[n] + 2 /\ p[off[n] + 1] = 0 /\ p[off[n] + 2] = 0
<1> DEFINE n == Len(blocks)
           p == Pack(blocks)
<1>1. n \in Nat /\ \A k \in 1 .. n : blocks[k] \in EncodedBlocks
  OBVIOUS
<1>2. PICK packed : /\ packed[0] = <<>>
                    /\ \A k \in 1 .. n : packed[k] = FixBlockSize(packed[k - 1], blocks[k])
                    /\ p = packed[n] \o <<0, 0>>
  BY Packing, Zenon
<1> DEFINE Whole(k) == /\ packed[k] \in Seq(Byte) /\ Len(packed[k]) % 2 = 0
                       /\ \A j \in 1 .. k : /\ Len(packed[j - 1]) \in Nat
                                            /\ BlockIn(packed[k], Len(packed[j - 1]), blocks[j])
           K == {k \in Nat : k <= n => Whole(k)}
<1> HIDE DEF n, p
<1>3. 0 \in K
  <2>1. <<>> \in Seq(Byte) /\ Len(<<>>) % 2 = 0 /\ 1 .. 0 = {}
    OBVIOUS
  <2>2. Whole(0)
    BY <1>2, <2>1, Zenon
  <2> QED
    BY <2>2
<1>4. ASSUME NEW k \in Nat, Whole(k), k + 1 <= n
      PROVE  /\ Whole(k + 1)
             /\ Len(packed[k + 1]) = Len(packed[k]) + 2 + Len(blocks[k + 1]) + (Len(blocks[k + 1]) % 2)
  <2> DEFINE o == Len(packed[k])
             b == blocks[k + 1]
             q == packed[k + 1]
  <2>1. k + 1 \in 1 .. n /\ (k + 1) - 1 = k
    BY <1>1, <1>4
  <2>2. q = FixBlockSize(packed[k], b)
    BY <1>2, <2>1, Zenon
  <2>3. b \in EncodedBlocks /\ packed[k] \in Seq(Byte) /\ o % 2 = 0
    BY <1>1, <1>4, <2>1, Zenon
  <2> HIDE DEF b, q
  <2>4. /\ q \in Seq(Byte) /\ Len(b) \in 1 .. MaxBlockSize
        /\ Len(q) = o + 2 + Len(b) + (Len(b) % 2) /\ Len(q) % 2 = 0
        /\ \A i \in 1 .. o : q[i] = packed[k][i]
        /\ q[o + 1] = Len(b) % 256 /\ q[o + 2] = Len(b) \div 256
        /\ \A i \in o + 3 .. o + 2 + Len(b) : q[i] = b[i - (o + 2)]
    <3> DEFINE f == FixBlockSize(packed[k], b)
    <3>1. /\ f \in Seq(Byte) /\ Len(b) \in 1 .. MaxBlockSize
          /\ Len(f) = o + 2 + Len(b) + (Len(b) % 2) /\ Len(f) % 2 = 0
          /\ \A i \in 1 .. o : f[i] = packed[k][i]
          /\ f[o + 1] = Len(b) % 256 /\ f[o + 2] = Len(b) \div 256
          /\ \A i \in o + 3 .. o + 2 + Len(b) : f[i] = b[i - (o + 2)]
      BY <2>3, BlockFixed, ZenonT(40)
    <3>2. q = f
      BY <2>2
    <3> HIDE DEF f
    <3> QED
      BY <3>1, <3>2, ZenonT(40)
  <2>5. o \in Nat
    BY <2>3
  <2>6. /\ o + 2 + Len(b) <= Len(q) /\ o <= Len(q)
    <3>1. \A m \in 1 .. MaxBlockSize, l \in Nat :
            l + 2 + m <= l + 2 + m + (m % 2) /\ l <= l + 2 + m + (m % 2)
      BY SMT DEF MaxBlockSize
    <3>2. Len(q) = o + 2 + Len(b) + (Len(b) % 2) /\ Len(b) \in 1 .. MaxBlockSize
      BY <2>4, Zenon
    <3>3. /\ o + 2 + Len(b) <= o + 2 + Len(b) + (Len(b) % 2)
          /\ o <= o + 2 + Len(b) + (Len(b) % 2)
      BY <2>5, <3>1, <3>2, Zenon
    <3> QED
      BY <3>2, <3>3, Zenon
  <2>7. BlockIn(q, o, b)
    BY <2>4, <2>6, Zenon DEF BlockIn
  <2>8. ASSUME NEW j \in 1 .. k + 1
        PROVE  Len(packed[j - 1]) \in Nat /\ BlockIn(q, Len(packed[j - 1]), blocks[j])
    <3>1. CASE j = k + 1
      BY <2>1, <2>5, <2>7, <3>1, Zenon DEF b
    <3>2. CASE j # k + 1
      <4>1. j \in 1 .. k /\ j \in 1 .. n
        BY <1>1, <1>4, <3>2
      <4>2. Len(packed[j - 1]) \in Nat /\ BlockIn(packed[k], Len(packed[j - 1]), blocks[j])
        BY <1>4, <4>1
      <4> QED
        BY <1>1, <2>3, <2>4, <2>6, <4>1, <4>2, BlockInLonger, ZenonT(40)
    <3> QED
      BY <3>1, <3>2
  <2> QED
    BY <2>4, <2>8, Zenon DEF q, b
<1>5. ASSUME NEW k \in Nat, k \in K
      PROVE  k + 1 \in K
  <2>1. k + 1 <= n => k <= n
    BY <1>1
  <2>2. k + 1 <= n => Whole(k + 1)
    BY <1>4, <1>5, <2>1
  <2> HIDE DEF Whole
  <2> QED
    BY <2>2
<1>6. \A k \in Nat : k <= n => Whole(k)
  <2>1. \A k \in Nat : k \in K
    <3> HIDE DEF K
    <3> QED
      BY <1>3, <1>5, Induction, Zenon
  <2> HIDE DEF Whole
  <2> QED
    BY <2>1
<1> DEFINE off == [k \in 0 .. n |-> Len(packed[k])]
<1>7. \A k \in 0 .. n : Whole(k)
  <2>1. \A k \in 0 .. n : k \in Nat /\ k <= n
    BY <1>1
  <2> QED
    BY <1>6, <2>1, Zenon
<1>8. off \in [0 .. n -> Nat] /\ off[0] = 0
  <2>1. \A k \in 0 .. n : Len(packed[k]) \in Nat
    BY <1>7
  <2>2. 0 \in 0 .. n
    BY <1>1
  <2> QED
    BY <1>2, <2>1, <2>2
<1>9. \A k \in 0 .. n : off[k] = Len(packed[k])
  OBVIOUS
<1> HIDE DEF off
<1>10. \A k \in 1 .. n : /\ k \in 0 .. n /\ k - 1 \in 0 .. n /\ k - 1 \in Nat /\ (k - 1) + 1 = k /\ k <= n
                         /\ n \in 0 .. n
  BY <1>1
<1>11. \A k \in 1 .. n : off[k] = off[k - 1] + 2 + Len(blocks[k]) + (Len(blocks[k]) % 2)
  <2> HIDE DEF Whole
  <2> SUFFICES ASSUME NEW k \in 1 .. n
               PROVE  off[k] = off[k - 1] + 2 + Len(blocks[k]) + (Len(blocks[k]) % 2)
    OBVIOUS
  <2> DEFINE l == k - 1
  <2>1. l \in Nat /\ Whole(l) /\ l + 1 <= n /\ l + 1 = k
    BY <1>7, <1>10
  <2> HIDE DEF l
  <2>2. Len(packed[l + 1]) = Len(packed[l]) + 2 + Len(blocks[l + 1]) + (Len(blocks[l + 1]) % 2)
    BY <1>4, <2>1, Zenon
  <2> QED
    BY <1>9, <1>10, <2>1, <2>2, Zenon DEF l
<1>12. /\ p \in Seq(Byte) /\ Len(p) = off[n] + 2 /\ p[off[n] + 1] = 0 /\ p[off[n] + 2] = 0
       /\ \A i \in 1 .. off[n] : p[i] = packed[n][i]
  <2> DEFINE a == packed[n]
             z == <<0, 0>>
  <2>1. a \in Seq(Byte) /\ off[n] = Len(a) /\ off[n] \in Nat
    <3>1. n \in 0 .. n
      BY <1>1
    <3> QED
      BY <1>7, <1>8, <1>9, <3>1
  <2>2. z \in Seq(Byte) /\ Len(z) = 2 /\ z[1] = 0 /\ z[2] = 0
    BY DEF Byte
  <2>3. p = Join(a, z)
    BY <1>2, Zenon DEF Join
  <2> HIDE DEF a, z
  <2>4. /\ p \in Seq(Byte) /\ Len(p) = Len(a) + Len(z)
        /\ \A i \in 1 .. Len(a) : p[i] = a[i]
        /\ \A i \in Len(a) + 1 .. Len(a) + Len(z) : p[i] = z[i - Len(a)]
    BY <2>1, <2>2, <2>3, Joined, Zenon
  <2>5. \A i \in off[n] + 1 .. off[n] + 2 : p[i] = z[i - off[n]]
    BY <2>1, <2>2, <2>4, Zenon
  <2>6. /\ off[n] + 1 \in off[n] + 1 .. off[n] + 2 /\ (off[n] + 1) - off[n] = 1
        /\ off[n] + 2 \in off[n] + 1 .. off[n] + 2 /\ (off[n] + 2) - off[n] = 2
    BY <2>1
  <2>7. p[off[n] + 1] = 0 /\ p[off[n] + 2] = 0
    BY <2>2, <2>5, <2>6, Zenon
  <2> QED
    BY <2>1, <2>2, <2>4, <2>7, Zenon DEF a
<1>13. \A k \in 1 .. n : BlockIn(p, off[k - 1], blocks[k])
  <2> SUFFICES ASSUME NEW k \in 1 .. n
               PROVE  BlockIn(p, off[k - 1], blocks[k])
    OBVIOUS
  <2>1. packed[n] \in Seq(Byte) /\ off[k - 1] \in Nat /\ BlockIn(packed[n], off[k - 1], blocks[k])
    BY <1>7, <1>8, <1>9, <1>10
  <2>2. off[n] = Len(packed[n]) /\ Len(packed[n]) <= Len(p)
    BY <1>1, <1>8, <1>9, <1>12
  <2> QED
    BY <1>1, <1>12, <2>1, <2>2, BlockInLonger
<1> QED
  BY <1>8, <1>11, <1>12, <1>13, Zenon DEF n, p

\* Where the walk goes on from, and what it has taken there.
Taken(payload, from, offset) ==
  IF offset + 2 > Len(payload) THEN <<>>
  ELSE LET size == BlockSize(payload, offset)
           last == offset + 2 + size
       IN IF size = 0 \/ last > Len(payload) THEN <<>>
          ELSE <<SubSeq(payload, offset + 3, last)>> \o from[NextOffset(offset, size)]

\* The walk of getNextBlock goes forward, so that it is defined by its steps.
LEMMA Walk ==
  ASSUME NEW payload \in Seq(Byte)
  PROVE  \E from : /\ \A offset \in Nat : from[offset] = Taken(payload, from, offset)
                   /\ Blocks(payload) = from[0]
<1> DEFINE L == Len(payload)
           D(m) == {o \in Nat : o + m >= L}
           Walks(g, m) == g = [o \in D(m) |-> Taken(payload, g, o)]
           M == {m \in Nat : \E g : Walks(g, m)}
<1>1. L \in Nat
  OBVIOUS
<1>2. 0 \in M
  <2> DEFINE g == [o \in D(0) |-> <<>>]
  <2>1. \A o \in D(0) : o + 2 > Len(payload)
    OBVIOUS
  <2>2. \A o \in D(0) : Taken(payload, g, o) = <<>>
    BY <2>1, Zenon DEF Taken
  <2>3. Walks(g, 0)
    BY <2>2, Zenon
  <2> HIDE DEF g, Walks
  <2> QED
    BY <2>3
<1>3. ASSUME NEW m \in Nat, m \in M
      PROVE  m + 1 \in M
  <2>1. PICK g : Walks(g, m)
    BY <1>3
  <2> DEFINE h == [o \in D(m + 1) |-> Taken(payload, g, o)]
  <2>2. \A o \in D(m) : o \in D(m + 1) /\ g[o] = Taken(payload, g, o)
    <3>1. \A o \in D(m) : o \in D(m + 1)
      OBVIOUS
    <3> QED
      BY <2>1, <3>1, Zenon
  <2>3. \A o \in D(m) : h[o] = g[o]
    BY <2>2, Zenon
  <2>4. ASSUME NEW o \in D(m + 1), ~(o + 2 > Len(payload))
        PROVE  NextOffset(o, BlockSize(payload, o)) \in D(m)
    <3> DEFINE size == BlockSize(payload, o)
    <3>1. size \in Nat
      <4>1. o \in Nat /\ o + 1 \in 1 .. Len(payload) /\ o + 2 \in 1 .. Len(payload)
        BY <2>4
      <4>2. payload[o + 1] \in Byte /\ payload[o + 2] \in Byte
        BY <4>1
      <4>3. \A a, b \in Byte : a + 256 * b \in Nat
        BY SMT DEF Byte
      <4> QED
        BY <4>2, <4>3, Zenon DEF BlockSize
    <3> HIDE DEF size
    <3>2. o + 2 + size + (size % 2) \in Nat /\ o + 2 + size + (size % 2) + m >= L
      <4>1. o \in Nat /\ o + (m + 1) >= L
        OBVIOUS
      <4>2. size % 2 \in Nat
        BY <3>1
      <4> HIDE DEF L
      <4> QED
        BY <1>1, <3>1, <4>1, <4>2
    <3>3. NextOffset(o, size) \in D(m)
      BY <3>2, Zenon DEF NextOffset
    <3> QED
      BY <3>3, Zenon DEF size
  <2>5. \A o \in D(m + 1) : Taken(payload, g, o) = Taken(payload, h, o)
    <3> HIDE DEF D, h
    <3> QED
      BY <2>3, <2>4, Zenon DEF Taken
  <2>6. Walks(h, m + 1)
    BY <2>5, Zenon
  <2>7. \E f : Walks(f, m + 1)
    <3> HIDE DEF h, Walks
    <3> QED
      BY <2>6, Zenon
  <2> HIDE DEF Walks
  <2> QED
    BY <2>7
<1>4. L \in M
  <2>1. \A m \in Nat : m \in M
    <3> HIDE DEF M
    <3> QED
      BY <1>2, <1>3, Induction, Zenon
  <2> QED
    BY <1>1, <2>1, Zenon
<1>5. D(L) = Nat
  BY <1>1
<1> DEFINE from == CHOOSE g : g = [offset \in Nat |-> Taken(payload, g, offset)]
<1>6. from = [offset \in Nat |-> Taken(payload, from, offset)]
  <2>1. \E g : g = [offset \in Nat |-> Taken(payload, g, offset)]
    BY <1>4, <1>5, Zenon
  <2> QED
    BY <2>1, Zenon
<1>7. Blocks(payload) = from[0]
  BY Zenon DEF Blocks, Taken
<1> HIDE DEF from
<1>8. \A offset \in Nat : from[offset] = Taken(payload, from, offset)
  BY <1>6, Zenon
<1> QED
  BY <1>7, <1>8, Zenon

\* The receiver takes apart what the sender has packed.
THEOREM BlocksOfPack ==
  ASSUME NEW blocks \in Seq(EncodedBlocks)
  PROVE  Pack(blocks) \in Seq(Byte) /\ Blocks(Pack(blocks)) = blocks
<1> DEFINE n == Len(blocks)
           p == Pack(blocks)
<1>1. /\ n \in Nat /\ \A k \in 1 .. n : blocks[k] \in EncodedBlocks /\ blocks[k] \in Seq(Byte)
      /\ \A k \in 1 .. n : Len(blocks[k]) \in 1 .. MaxBlockSize
  <2>1. \A k \in 1 .. n : blocks[k] \in EncodedBlocks
    OBVIOUS
  <2>2. n \in Nat
    OBVIOUS
  <2>3. \A b \in EncodedBlocks : b \in Seq(Byte) /\ Len(b) \in 1 .. MaxBlockSize
    BY Zenon DEF EncodedBlocks
  <2> HIDE DEF n
  <2> QED
    BY <2>1, <2>2, <2>3, Zenon
<1>2. p \in Seq(Byte)
  BY PackBytes, Zenon
<1>3. PICK off \in [0 .. n -> Nat] :
        /\ off[0] = 0
        /\ \A k \in 1 .. n :
             /\ off[k] = off[k - 1] + 2 + Len(blocks[k]) + (Len(blocks[k]) % 2)
             /\ BlockIn(p, off[k - 1], blocks[k])
        /\ Len(p) = off[n] + 2 /\ p[off[n] + 1] = 0 /\ p[off[n] + 2] = 0
  BY PackBytes, Zenon
<1>4. PICK from : /\ \A offset \in Nat : from[offset] = Taken(p, from, offset)
                  /\ Blocks(p) = from[0]
  BY <1>2, Walk, Zenon
<1> HIDE DEF p, n
<1>5. from[off[n]] = <<>>
  <2>1. off[n] \in Nat
    BY <1>1, <1>3
  <2>2. BlockSize(p, off[n]) = 0
    BY <1>3, <2>1 DEF BlockSize
  <2>3. from[off[n]] = Taken(p, from, off[n])
    BY <1>4, <2>1, Zenon
  <2> QED
    BY <2>2, <2>3, Zenon DEF Taken
<1>6. ASSUME NEW k \in 1 .. n
      PROVE  from[off[k - 1]] = <<blocks[k]>> \o from[off[k]]
  <2> DEFINE o == off[k - 1]
             b == blocks[k]
  <2>1. o \in Nat /\ b \in Seq(Byte) /\ Len(b) \in 1 .. MaxBlockSize
    BY <1>1, <1>3
  <2>2. off[k] = o + 2 + Len(b) + (Len(b) % 2) /\ BlockIn(p, o, b)
    BY <1>3, Zenon
  <2> HIDE DEF o, b
  <2>3. \A m \in 1 .. MaxBlockSize : /\ m \in Nat /\ m # 0
                                     /\ (m % 256) + 256 * (m \div 256) = m
    BY SMT DEF MaxBlockSize
  <2>4. BlockSize(p, o) = Len(b)
    <3> DEFINE m == Len(b)
    <3>1. p[o + 1] = m % 256 /\ p[o + 2] = m \div 256
      BY <2>2, Zenon DEF BlockIn
    <3>2. (m % 256) + 256 * (m \div 256) = m
      BY <2>1, <2>3, Zenon
    <3> HIDE DEF m
    <3>3. BlockSize(p, o) = m
      BY <3>1, <3>2, ZenonT(40) DEF BlockSize
    <3> QED
      BY <3>3, Zenon DEF m
  <2>5. o + 2 + Len(b) <= Len(p)
    BY <2>2, Zenon DEF BlockIn
  <2>6. Len(b) \in Nat /\ Len(b) # 0
    BY <2>1, <2>3, ZenonT(40)
  <2>7. ~(o + 2 > Len(p)) /\ ~(o + 2 + Len(b) > Len(p)) /\ Len(p) \in Nat
    BY <1>2, <2>1, <2>5, <2>6
  <2>8. SubSeq(p, o + 3, o + 2 + Len(b)) = b
    <3> DEFINE j == o + 2
    <3>1. j \in Nat /\ j + 1 = o + 3 /\ j + Len(b) <= Len(p)
      BY <2>1, <2>5
    <3>2. \A i \in j + 1 .. j + Len(b) : p[i] = b[i - j]
      BY <2>2, <3>1, Zenon DEF BlockIn
    <3> HIDE DEF j
    <3>3. SubSeq(p, j + 1, j + Len(b)) = b
      BY <1>2, <2>1, <3>1, <3>2, Piece, Zenon
    <3> QED
      BY <3>1, <3>3, Zenon DEF j
  <2>9. Taken(p, from, o) = <<b>> \o from[NextOffset(o, Len(b))]
    BY <2>4, <2>6, <2>7, <2>8, Zenon DEF Taken
  <2>10. NextOffset(o, Len(b)) = off[k]
    BY <2>2, Zenon DEF NextOffset
  <2> QED
    BY <1>4, <2>1, <2>9, <2>10, Zenon DEF o, b
<1> DEFINE K == {j \in Nat : j <= n => from[off[n - j]] = SubSeq(blocks, (n - j) + 1, n)}
<1>7. 0 \in K
  <2>1. n - 0 = n /\ n \in Int /\ n + 1 \in Int /\ n < n + 1
    BY <1>1
  <2>2. SubSeq(blocks, n + 1, n) = <<>>
    BY <2>1, SubSeqEmpty, Zenon
  <2>3. from[off[n - 0]] = SubSeq(blocks, (n - 0) + 1, n)
    BY <1>5, <2>1, <2>2, Zenon
  <2> QED
    BY <2>3
<1>8. ASSUME NEW j \in Nat, j \in K
      PROVE  j + 1 \in K
  <2> SUFFICES ASSUME j + 1 <= n
               PROVE  from[off[n - (j + 1)]] = SubSeq(blocks, (n - (j + 1)) + 1, n)
    OBVIOUS
  <2> DEFINE k == n - j
  <2>1. /\ k \in 1 .. n /\ j <= n /\ n - (j + 1) = k - 1 /\ (k - 1) + 1 = k /\ n \in k .. n
    BY <1>1
  <2>2. from[off[k]] = SubSeq(blocks, k + 1, n)
    BY <1>8, <2>1
  <2> HIDE DEF k
  <2>3. SubSeq(blocks, k, n) = <<blocks[k]>> \o SubSeq(blocks, k + 1, n)
    BY <2>1, SubSeqRecursiveFirst, Zenon DEF n
  <2> QED
    BY <1>6, <2>1, <2>2, <2>3, Zenon
<1>9. n \in K
  <2>1. \A j \in Nat : j \in K
    <3> HIDE DEF K
    <3> QED
      BY <1>7, <1>8, Induction, Zenon
  <2> QED
    BY <1>1, <2>1, Zenon
<1>10. from[off[0]] = SubSeq(blocks, 1, n)
  <2>1. n <= n /\ n - n = 0 /\ 0 + 1 = 1
    BY <1>1
  <2> QED
    BY <1>9, <2>1
<1>11. SubSeq(blocks, 1, n) = blocks
  BY SubSeqFull, Zenon DEF n
<1> QED
  BY <1>2, <1>3, <1>4, <1>10, <1>11, Zenon DEF p

\* The zeros of an end packet are a payload without blocks.
LEMMA BlocksOfSilence == Silence \in Seq(Byte) /\ Blocks(Silence) = <<>>
<1>1. Silence \in Seq(Byte) /\ Len(Silence) = 4 /\ Silence[1] = 0 /\ Silence[2] = 0
  BY DEF Silence, Byte
<1>2. PICK from : /\ \A offset \in Nat : from[offset] = Taken(Silence, from, offset)
                  /\ Blocks(Silence) = from[0]
  BY <1>1, Walk, Zenon
<1>3. BlockSize(Silence, 0) = 0
  BY <1>1 DEF BlockSize
<1>4. Taken(Silence, from, 0) = <<>>
  BY <1>3, Zenon DEF Taken
<1>5. 0 \in Nat
  OBVIOUS
<1> QED
  BY <1>1, <1>2, <1>4, <1>5, Zenon

-----------------------------------------------------------------------------
(* The file *)

\* What writeBlock is given.
SilkBlocks == [spr : 0 .. 3, timestamp : Word, payload : EncodedBlocks]

\* A block lies in a file at an offset, behind its header.
RecordIn(file, o, block) ==
  /\ o + 6 + Len(block.payload) <= Len(file)
  /\ \A i \in o + 1 .. o + 6 : file[i] = BlockHeader(block)[i - o]
  /\ \A i \in o + 7 .. o + 6 + Len(block.payload) : file[i] = block.payload[i - (o + 6)]

LEMMA InRange == ASSUME NEW n \in Nat, NEW k \in Nat, n <= k PROVE n \in 0 .. k
OBVIOUS
LEMMA InShort == \A n \in Nat : n <= 65535 => n \in Short
<1> DEFINE k == 65535
<1>1. k \in Nat /\ Short = 0 .. k
  BY SMT DEF Short
<1>2. \A n \in Nat : n <= 65535 => n <= k
  BY SMT
<1> HIDE DEF k
<1>3. \A n \in Nat : n <= k => n \in 0 .. k
  BY <1>1, InRange, Zenon
<1> QED
  BY <1>1, <1>2, <1>3, SMT
\* The flag of a header: three bits of rate and thirteen of length.
Lengths == 0 .. 8191
Flag(s, m) == 8192 * s + m
RateOf(v) == (v \div 256) \div 32
LengthOf(v) == v % 8192

LEMMA RateAndLength ==
  ASSUME NEW s \in 0 .. 3, NEW m \in Lengths
  PROVE  Flag(s, m) \in Short /\ LengthOf(Flag(s, m)) = m /\ RateOf(Flag(s, m)) = s
<1> DEFINE v == 8192 * s + m
<1>1. m \in 0 .. 8191
  BY SMT DEF Lengths
<1>2. v \in Short
  <2>1. v \in Nat /\ v <= 65535
    <3>1. s \in Nat /\ s <= 3 /\ m \in Nat /\ m <= 8191
      BY <1>1, SMT
    <3> QED
      BY <3>1, SMT
  <2> QED
    BY <2>1, InShort, SMT
<1>3. v % 8192 = m
  BY <1>1, SMTT(30)
<1>4. (v \div 256) \div 32 = s
  <2>1. v \div 256 = 32 * s + (m \div 256)
    BY <1>1, SMT
  <2>2. m \div 256 \in 0 .. 31
    BY <1>1, SMT
  <2> QED
    BY <2>1, <2>2, SMT
<1> QED
  BY <1>2, <1>3, <1>4, SMT DEF Flag, RateOf, LengthOf

LEMMA HeaderOfBlock ==
  ASSUME NEW block \in SilkBlocks
  PROVE  LET h == BlockHeader(block)
         IN /\ h \in Seq(Byte) /\ Len(h) = 6
            /\ h[1] \div 32 = block.spr
            /\ Ntohs(h, 1) % 8192 = Len(block.payload)
            /\ Ntohl(h, 3) = block.timestamp
            /\ block.payload \in Seq(Byte) /\ Len(block.payload) \in Nat \ {0}
<1> DEFINE l == Len(block.payload)
           v == 8192 * block.spr + (l % 8192)
           a == Htons(v)
           b == Htonl(block.timestamp)
           h == Join(a, b)
<1>1. /\ block.spr \in 0 .. 3 /\ block.timestamp \in Word
      /\ block.payload \in Seq(Byte) /\ l \in 1 .. MaxBlockSize
  BY SMT DEF SilkBlocks, EncodedBlocks
<1>2. l \in Nat \ {0} /\ l % 8192 = l /\ l < 8192
  <2>1. \A m \in 1 .. 4 + 1024 : m \in Nat \ {0} /\ m % 8192 = m /\ m < 8192
    BY SMT
  <2> HIDE DEF l
  <2> QED
    BY <1>1, <2>1, SMT DEF MaxBlockSize
<1>3. v \in Short /\ (v \div 256) \div 32 = block.spr /\ v % 8192 = l
  <2> HIDE DEF l
  <2>1. l \in Lengths
    BY <1>2, SMTT(30) DEF Lengths
  <2>2. v = Flag(block.spr, l)
    BY <1>2, SMT DEF Flag
  <2> HIDE DEF v
  <2>3. v \in Short /\ LengthOf(v) = l /\ RateOf(v) = block.spr
    BY <1>1, <2>1, <2>2, RateAndLength, Zenon
  <2> QED
    BY <2>3, SMT DEF LengthOf, RateOf
<1>4. BlockHeader(block) = h
  BY SMT DEF BlockHeader, Join
<1> HIDE DEF l, v
<1>5. /\ a \in Seq(Byte) /\ Len(a) = 2 /\ a[1] = v \div 256
      /\ \A p, i : p[i] = a[1] /\ p[i + 1] = a[2] => Ntohs(p, i) = v
  BY <1>3, ShortBytes, SMT
<1>6. /\ b \in Seq(Byte) /\ Len(b) = 4
      /\ \A p, i : (/\ p[i] = b[1] /\ p[i + 1] = b[2]
                    /\ p[i + 2] = b[3] /\ p[i + 3] = b[4]) => Ntohl(p, i) = block.timestamp
  BY <1>1, WordBytes, Zenon
<1> HIDE DEF a, b
<1>7. /\ h \in Seq(Byte) /\ Len(h) = 6
      /\ h[1] = a[1] /\ h[2] = a[2]
      /\ h[3] = b[1] /\ h[4] = b[2] /\ h[5] = b[3] /\ h[6] = b[4]
  <2>1. /\ h \in Seq(Byte) /\ Len(h) = Len(a) + Len(b)
        /\ \A i \in 1 .. Len(a) : h[i] = a[i]
        /\ \A i \in Len(a) + 1 .. Len(a) + Len(b) : h[i] = b[i - Len(a)]
    BY <1>5, <1>6, Joined, ZenonT(40)
  <2> HIDE DEF h
  <2> QED
    BY <1>5, <1>6, <2>1, SMT
<1> HIDE DEF h
<1>8. /\ h[1] = a[1] /\ h[1 + 1] = a[2]
      /\ h[3] = b[1] /\ h[3 + 1] = b[2] /\ h[3 + 2] = b[3] /\ h[3 + 3] = b[4]
  BY <1>7, SMT
<1>9. Ntohs(h, 1) = v /\ Ntohl(h, 3) = block.timestamp
  BY <1>5, <1>6, <1>8, ZenonT(40)
<1>10. h[1] \div 32 = block.spr /\ Ntohs(h, 1) % 8192 = l
  BY <1>3, <1>5, <1>7, <1>9, SMT
<1>11. /\ h \in Seq(Byte) /\ Len(h) = 6
       /\ h[1] \div 32 = block.spr
       /\ Ntohs(h, 1) % 8192 = Len(block.payload)
       /\ Ntohl(h, 3) = block.timestamp
       /\ block.payload \in Seq(Byte) /\ Len(block.payload) \in Nat \ {0}
  BY <1>1, <1>2, <1>7, <1>9, <1>10, SMT DEF l
<1> QED
  BY <1>4, <1>11, SMT

\* readBlock reads the block that lies in the file, as far as the disk has it.
THEOREM ReadBlock ==
  ASSUME NEW file \in Seq(Byte), NEW d \in Seq(Byte), NEW o \in Nat, NEW block \in SilkBlocks,
         RecordIn(file, o, block),
         Len(d) <= Len(file), \A i \in 1 .. Len(d) : d[i] = file[i]
  PROVE  LET end == o + 6 + Len(block.payload)
         IN /\ CanReadBlock(d, o) =>
                 BlockAt(d, o) = block /\ NextBlockAt(d, o) = end
            /\ end <= Len(d) => CanReadBlock(d, o)
<1> DEFINE h == BlockHeader(block)
           l == Len(block.payload)
           end == o + 6 + l
<1>1. /\ h \in Seq(Byte) /\ Len(h) = 6
      /\ h[1] \div 32 = block.spr
      /\ Ntohs(h, 1) % 8192 = l
      /\ Ntohl(h, 3) = block.timestamp
      /\ block.payload \in Seq(Byte) /\ l \in Nat \ {0}
  BY HeaderOfBlock, SMT
<1>2. block.spr \in 0 .. 3 /\ block.payload \in Seq(Byte)
  BY Zenon DEF SilkBlocks, EncodedBlocks
<1>3. /\ end <= Len(file) /\ Len(file) \in Nat /\ Len(d) \in Nat
      /\ \A i \in o + 1 .. o + 6 : file[i] = h[i - o]
      /\ \A i \in o + 7 .. end : file[i] = block.payload[i - (o + 6)]
  BY LenProperties, Zenon DEF RecordIn
<1> HIDE DEF h, l
<1>4. ASSUME o + 6 <= Len(d)
      PROVE  /\ d[o + 1] \div 32 = block.spr
             /\ OctetsAt(d, o) = l
             /\ Ntohl(d, o + 3) = block.timestamp
  <2>1. \A i \in o + 1 .. o + 6 : i \in 1 .. Len(d)
    BY <1>3, <1>4
  <2>2. \A i \in o + 1 .. o + 6 : d[i] = h[i - o]
    BY <1>3, <2>1, Zenon
  <2>3. \A j \in 1 .. 6 : o + j \in o + 1 .. o + 6 /\ (o + j) - o = j
    OBVIOUS
  <2>4. \A j \in 1 .. 6 : d[o + j] = h[j]
    BY <2>2, <2>3, Zenon
  <2>5. /\ d[o + 1] = h[1] /\ d[o + 2] = h[2] /\ d[o + 3] = h[3]
        /\ d[o + 4] = h[4] /\ d[o + 5] = h[5] /\ d[o + 6] = h[6]
    BY <2>4
  <2>6. d[o + 1] = h[1] /\ d[(o + 1) + 1] = h[1 + 1]
    <3>1. (o + 1) + 1 = o + 2 /\ 1 + 1 = 2
      OBVIOUS
    <3> QED
      BY <2>5, <3>1, Zenon
  <2>7. /\ d[o + 3] = h[3] /\ d[(o + 3) + 1] = h[3 + 1]
        /\ d[(o + 3) + 2] = h[3 + 2] /\ d[(o + 3) + 3] = h[3 + 3]
    <3>1. /\ (o + 3) + 1 = o + 4 /\ (o + 3) + 2 = o + 5 /\ (o + 3) + 3 = o + 6
          /\ 3 + 1 = 4 /\ 3 + 2 = 5 /\ 3 + 3 = 6
      OBVIOUS
    <3> QED
      BY <2>5, <3>1, Zenon
  <2>8. Ntohs(d, o + 1) = Ntohs(h, 1) /\ Ntohl(d, o + 3) = Ntohl(h, 3)
    <3>1. Ntohs(d, o + 1) = Ntohs(h, 1)
      BY <2>6, SMT DEF Ntohs
    <3>2. Ntohl(d, o + 3) = Ntohl(h, 3)
      BY <2>7, SameNumbers, SMTT(30)
    <3> QED
      BY <3>1, <3>2, Zenon
  <2> QED
    <3>1. OctetsAt(d, o) = Ntohs(h, 1) % 8192
      BY <2>8, SMT DEF OctetsAt
    <3>2. OctetsAt(d, o) = l
      BY <1>1, <3>1, SMT
    <3>3. d[o + 1] \div 32 = block.spr
      BY <1>1, <2>5, SMT
    <3>4. Ntohl(d, o + 3) = block.timestamp
      BY <1>1, <2>8, SMT
    <3> QED
      BY <3>2, <3>3, <3>4, Zenon
<1>5. ASSUME CanReadBlock(d, o)
      PROVE  BlockAt(d, o) = block /\ NextBlockAt(d, o) = end
  <2>1. o + 6 <= Len(d) /\ o + 6 + OctetsAt(d, o) <= Len(d)
    BY <1>5, Zenon DEF CanReadBlock, BlockHeaderSize
  <2>2. /\ d[o + 1] \div 32 = block.spr
        /\ OctetsAt(d, o) = l
        /\ Ntohl(d, o + 3) = block.timestamp
    BY <1>4, <2>1, Zenon
  <2>3. NextBlockAt(d, o) = end
    BY <2>2, Zenon DEF NextBlockAt, BlockHeaderSize
  <2>4. SubSeq(d, o + 6 + 1, end) = block.payload
    <3> DEFINE k == o + 6
    <3>1. k \in Nat /\ k + 1 = o + 7 /\ k + l <= Len(d)
      BY <2>1, <2>2
    <3>2. \A i \in k + 1 .. k + l : i \in 1 .. Len(d)
      BY <1>1, <1>3, <3>1
    <3>3. \A i \in k + 1 .. k + l : d[i] = block.payload[i - k]
      BY <1>3, <3>1, <3>2, Zenon
    <3> HIDE DEF k
    <3>4. SubSeq(d, k + 1, k + l) = block.payload
      <4>1. k + Len(block.payload) <= Len(d)
        BY <3>1, Zenon DEF l
      <4>2. \A i \in k + 1 .. k + Len(block.payload) : d[i] = block.payload[i - k]
        BY <3>3, Zenon DEF l
      <4>3. SubSeq(d, k + 1, k + Len(block.payload)) = block.payload
        BY <1>2, <3>1, <4>1, <4>2, Piece, Zenon
      <4> QED
        BY <4>3, Zenon DEF l
    <3> QED
      BY <3>4, Zenon DEF k
  <2>5. BlockAt(d, o) = [spr |-> block.spr, timestamp |-> block.timestamp, payload |-> block.payload]
    BY <2>2, <2>3, <2>4, Zenon DEF BlockAt, BlockHeaderSize
  <2>6. block = [spr |-> block.spr, timestamp |-> block.timestamp, payload |-> block.payload]
    BY DEF SilkBlocks
  <2> QED
    BY <2>3, <2>5, <2>6, Zenon
<1>6. ASSUME end <= Len(d)
      PROVE  CanReadBlock(d, o)
  <2>1. o + 6 <= Len(d) /\ l > 0
    BY <1>1, <1>3, <1>6
  <2>2. /\ d[o + 1] \div 32 = block.spr
        /\ OctetsAt(d, o) = l
    BY <1>4, <2>1, Zenon
  <2>3. block.spr <= 3
    BY <1>2
  <2> QED
    BY <1>6, <2>1, <2>2, <2>3, Zenon DEF CanReadBlock, BlockHeaderSize
<1> QED
  BY <1>5, <1>6, Zenon DEF l

-----------------------------------------------------------------------------
(* The packets on their way *)

SentPackets ==
  {p \in [bytes : Seq(Byte), obj : RTPObjects, sent : Word, blocks : Seq(EncodedBlocks)] :
     /\ MayEncode(p.obj) /\ p.obj.payloadtype \in VoiceTypes \cup {RTP_PT_UNKNOWN}
     /\ p.bytes = Stamp(Encode(p.obj), p.sent)
     /\ p.obj.payloadtype \in VoiceTypes => Blocks(p.obj.payload) = p.blocks}

NetInv == seq \in Nat /\ net \subseteq SentPackets

LEMMA SendKeeps ==
  ASSUME NetInv,
         NEW pt \in VoiceTypes \cup {RTP_PT_UNKNOWN}, NEW marker \in BOOLEAN,
         NEW payload \in Seq(Byte), NEW blocks \in Seq(EncodedBlocks), NEW now \in Times,
         pt \in VoiceTypes => Blocks(payload) = blocks,
         Send(pt, marker, payload, blocks, now)
  PROVE  NetInv'
<1> DEFINE obj == [payloadtype |-> pt, marker |-> marker, sequence |-> seq,
                   timestamp |-> 0, ssrc |-> SSRC, extid |-> 0,
                   extension |-> ExternData, payload |-> payload]
           p == [bytes |-> Stamp(Encode(obj), now), obj |-> obj, sent |-> now, blocks |-> blocks]
<1>1. /\ seq < MaxPackets /\ MayEncode(obj) /\ net' = net \cup {p} /\ seq' = seq + 1
  BY Zenon DEF Send
<1>2. 0 \in Word /\ 0 \in Short
  <2>1. 0 \in Word
    BY SMT DEF Word, Byte
  <2>2. 0 \in Short
    BY InShort, SMT
  <2> QED
    BY <2>1, <2>2
<1>3. seq \in Short
  <2>1. MaxPackets \in Nat /\ 0 .. MaxPackets - 1 \subseteq Short
    BY VoiceRecordAssumption, Zenon
  <2>2. seq \in 0 .. MaxPackets - 1
    BY <1>1, <2>1 DEF NetInv
  <2> QED
    BY <2>1, <2>2, Zenon
<1>4. pt \in Byte
  <2>1. VoiceTypes \subseteq 96 .. 99
    BY VoiceRecordAssumption, Zenon
  <2> QED
    BY <2>1, SMT DEF Byte, RTP_PT_UNKNOWN
<1>5. SSRC \in Word /\ ExternData \in Extensions /\ now \in Word
  <2>1. Times \subseteq Word
    BY VoiceRecordAssumption, Zenon
  <2>2. SSRC \in Word /\ ExternData \in Extensions
    BY VoiceRecordAssumption, Zenon
  <2> QED
    BY <2>1, <2>2
<1>6. obj \in RTPObjects
  BY <1>2, <1>3, <1>4, <1>5, Zenon DEF RTPObjects
<1>7. Stamp(Encode(obj), now) \in Seq(Byte)
  BY <1>5, <1>6, PacketBytes, Zenon
<1>8. obj.payloadtype = pt /\ obj.payload = payload
  OBVIOUS
<1> HIDE DEF obj
<1>9. p \in [bytes : Seq(Byte), obj : RTPObjects, sent : Word, blocks : Seq(EncodedBlocks)]
  BY <1>5, <1>6, <1>7, Zenon
<1>10. /\ p.obj = obj /\ p.sent = now /\ p.blocks = blocks
       /\ p.bytes = Stamp(Encode(obj), now)
  BY Zenon
<1> HIDE DEF p
<1>11. p \in SentPackets
  BY <1>1, <1>8, <1>9, <1>10, Zenon DEF SentPackets
<1>12. seq' \in Nat
  BY <1>1 DEF NetInv
<1> QED
  BY <1>1, <1>11, <1>12, Zenon DEF NetInv

LEMMA NetInvHolds == Spec => []NetInv
<1>1. Init => NetInv
  BY DEF Init, NetInv
<1>2. NetInv /\ [Next]_vars => NetInv'
  <2> SUFFICES ASSUME NetInv, [Next]_vars
               PROVE  NetInv'
    OBVIOUS
  <2>1. ASSUME NEW now \in Times, SendPreamble(now) PROVE NetInv'
    <3>1. Send(RTP_PT_UNKNOWN, FALSE, <<>>, <<>>, now)
      BY <2>1, Zenon DEF SendPreamble
    <3>2. RTP_PT_UNKNOWN \in VoiceTypes \cup {RTP_PT_UNKNOWN} /\ RTP_PT_UNKNOWN \notin VoiceTypes
      <4>1. VoiceTypes \subseteq 96 .. 99
        BY VoiceRecordAssumption, Zenon
      <4> QED
        BY <4>1 DEF RTP_PT_UNKNOWN
    <3>3. <<>> \in Seq(Byte) /\ <<>> \in Seq(EncodedBlocks)
      OBVIOUS
    <3> QED
      BY <3>1, <3>2, <3>3, SendKeeps, Zenon
  <2>2. ASSUME NEW pt \in VoiceTypes, NEW blocks \in Packages, NEW now \in Times,
               SendVoice(pt, blocks, now)
        PROVE  NetInv'
    <3>1. Send(pt, FALSE, Pack(blocks), blocks, now)
      BY <2>2, Zenon DEF SendVoice
    <3>2. blocks \in Seq(EncodedBlocks)
      BY VoiceRecordAssumption, Zenon
    <3>3. Pack(blocks) \in Seq(Byte) /\ Blocks(Pack(blocks)) = blocks
      BY <3>2, BlocksOfPack, Zenon
    <3> QED
      BY <3>1, <3>2, <3>3, SendKeeps, Zenon
  <2>3. ASSUME NEW pt \in VoiceTypes, NEW now \in Times, SendEnd(pt, now) PROVE NetInv'
    <3>1. Send(pt, TRUE, Silence, <<>>, now)
      BY <2>3, Zenon DEF SendEnd
    <3>2. <<>> \in Seq(EncodedBlocks)
      OBVIOUS
    <3> QED
      BY <3>1, <3>2, BlocksOfSilence, SendKeeps, Zenon
  <2>4. ASSUME NEW p \in net, Deliver(p) PROVE NetInv'
    BY <2>4, Zenon DEF Deliver, NetInv
  <2>5. ASSUME UNCHANGED <<seq, net>> PROVE NetInv'
    BY <2>5 DEF NetInv
  <2>6. CASE UNCHANGED vars
    BY <2>5, <2>6, Zenon DEF vars, talk
  <2>7. ASSUME NEW p \in net, Raise(p) PROVE NetInv'
    BY <2>5, <2>7, Zenon DEF Raise, talk
  <2>8. CASE WriteBlock \/ WrittenOut
    BY <2>5, <2>8, Zenon DEF WriteBlock, WrittenOut, talk
  <2>9. ASSUME NEW r \in Transactions, Timeout(r) \/ Destroy(r) PROVE NetInv'
    BY <2>5, <2>9, Zenon DEF Timeout, Destroy, talk
  <2>10. CASE PlayLocalFile \/ FeedBlock \/ FeedLast
    BY <2>5, <2>10, Zenon DEF PlayLocalFile, FeedBlock, FeedLast, talk
  <2> QED
    BY <2>1, <2>2, <2>3, <2>4, <2>6, <2>7, <2>8, <2>9, <2>10, Zenon DEF Next
<1> QED
  BY <1>1, <1>2, PTL DEF Spec

LEMMA PacketsDecode ==
  ASSUME NEW p \in SentPackets
  PROVE  Parse(p.bytes) /\ Decode(p.bytes) = Received(p.obj, p.sent)
BY DecodeEncode, Zenon DEF SentPackets

\* The other end of the network decodes what was encoded, for every extension,
\* payload, marker, number and time.
THEOREM ReceivedAsSentHolds == Spec => []ReceivedAsSent
<1>1. NetInv => ReceivedAsSent
  BY PacketsDecode, Zenon DEF NetInv, ReceivedAsSent
<1> QED
  BY <1>1, NetInvHolds, PTL

-----------------------------------------------------------------------------
(* The streams *)

Streams == [open : BOOLEAN, tell : Nat, buffer : Seq(Byte)]

LEMMA Associative == \A s, t, u \in Seq(Byte) : (s \o t) \o u = s \o (t \o u)
BY ConcatAssociative, SMT

\* What a stream keeps and what it has put on the disk are all it was given.
LEMMA WrittenBytes ==
  ASSUME NEW st \in Streams, NEW bytes \in Seq(Byte), NEW d \in Seq(Byte)
  PROVE  /\ Written(st, bytes) \in Streams
         /\ Written(st, bytes).open = st.open
         /\ Written(st, bytes).tell = st.tell + Len(bytes)
         /\ Flushed(st, d, bytes) \in Seq(Byte)
         /\ Join(Flushed(st, d, bytes), Written(st, bytes).buffer)
              = Join(Join(d, st.buffer), bytes)
<1> DEFINE all == st.buffer \o bytes
           f == Full(all)
           w == Written(st, bytes)
<1>1. st.buffer \in Seq(Byte) /\ st.tell \in Nat /\ st.open \in BOOLEAN /\ Len(bytes) \in Nat
  BY DEF Streams
<1>2. all \in Seq(Byte) /\ Len(all) \in Nat
  BY <1>1
<1>3. f \in 0 .. Len(all)
  <2>1. \A l \in Nat : (l \div BufferSize) * BufferSize \in 0 .. l
    BY SilkFileAssumption
  <2> HIDE DEF all
  <2> QED
    BY <1>2, <2>1, Zenon DEF Full
<1>4. w = [open |-> st.open, tell |-> st.tell + Len(bytes), buffer |-> SubSeq(all, f + 1, Len(all))]
  <2>1. w = [st EXCEPT !.tell = @ + Len(bytes), !.buffer = SubSeq(all, f + 1, Len(all))]
    BY Zenon DEF Written
  <2> HIDE DEF w, f, all
  <2> QED
    BY <2>1 DEF Streams
<1>5. Flushed(st, d, bytes) = d \o SubSeq(all, 1, f)
  BY Zenon DEF Flushed
<1> HIDE DEF w, f, all
<1>6. /\ SubSeq(all, 1, f) \in Seq(Byte) /\ SubSeq(all, f + 1, Len(all)) \in Seq(Byte)
      /\ SubSeq(all, 1, f) \o SubSeq(all, f + 1, Len(all)) = all
  <2>1. /\ \A i \in 1 .. f : all[i] \in Byte
        /\ \A i \in f + 1 .. Len(all) : all[i] \in Byte
        /\ 1 \in Int /\ f \in Int /\ f + 1 \in Int /\ Len(all) \in Int
    BY <1>2, <1>3
  <2>2. SubSeq(all, 1, f) \in Seq(Byte) /\ SubSeq(all, f + 1, Len(all)) \in Seq(Byte)
    BY <2>1, SubSeqProperties, Zenon
  <2>3. 1 \in 1 .. Len(all) + 1 /\ f \in 1 - 1 .. Len(all) /\ Len(all) \in f .. Len(all)
    BY <1>2, <1>3
  <2>4. SubSeq(all, 1, f) \o SubSeq(all, f + 1, Len(all)) = SubSeq(all, 1, Len(all))
    BY <1>2, <2>3, ConcatAdjacentSubSeq, Zenon
  <2> QED
    BY <1>2, <2>2, <2>4, SubSeqFull, Zenon
<1>7. (d \o SubSeq(all, 1, f)) \o SubSeq(all, f + 1, Len(all)) = (d \o st.buffer) \o bytes
  <2>1. (d \o SubSeq(all, 1, f)) \o SubSeq(all, f + 1, Len(all)) = d \o all
    <3> DEFINE a == SubSeq(all, 1, f)
               b == SubSeq(all, f + 1, Len(all))
    <3>1. a \in Seq(Byte) /\ b \in Seq(Byte) /\ a \o b = all
      BY <1>6, Zenon
    <3> HIDE DEF a, b
    <3>2. (d \o a) \o b = d \o (a \o b)
      BY <3>1, Associative, Zenon
    <3>3. (d \o a) \o b = d \o all
      BY <3>1, <3>2, Zenon
    <3> QED
      BY <3>3, Zenon DEF a, b
  <2>2. (d \o st.buffer) \o bytes = d \o (st.buffer \o bytes)
    BY <1>1, Associative, Zenon
  <2> QED
    BY <2>1, <2>2, Zenon DEF all
<1>8. d \o SubSeq(all, 1, f) \in Seq(Byte)
  BY <1>6, ConcatProperties, Zenon
<1>9. w \in Streams
  BY <1>1, <1>4, <1>6, SMTT(30) DEF Streams
<1>10. w.open = st.open /\ w.tell = st.tell + Len(bytes)
       /\ w.buffer = SubSeq(all, f + 1, Len(all))
  BY <1>4
<1> QED
  BY <1>5, <1>7, <1>8, <1>9, <1>10, Zenon DEF w, Join

LEMMA MagicBytes == Magic \in Seq(Byte) /\ Len(Magic) = 7
<1>1. Magic \in Seq(0 .. 255)
  BY DEF Magic
<1> QED
  BY <1>1 DEF Magic, Byte

\* The bytes of a block: the magic where the file is empty, header and payload.
LEMMA BlockBytesAre ==
  ASSUME NEW st \in Streams, NEW block \in SilkBlocks
  PROVE  LET rec == Join(BlockHeader(block), block.payload)
         IN /\ rec \in Seq(Byte) /\ BlockBytes(st, block) \in Seq(Byte)
            /\ st.tell = 0 => BlockBytes(st, block) = Join(Magic, rec)
            /\ st.tell # 0 => BlockBytes(st, block) = rec
<1> DEFINE h == BlockHeader(block)
           l == block.payload
           rec == Join(h, l)
<1>1. h \in Seq(Byte) /\ l \in Seq(Byte)
  BY HeaderOfBlock, SMT
<1> HIDE DEF h, l
<1>2. rec \in Seq(Byte)
  BY <1>1, Joined, Zenon
<1>3. /\ st.tell = 0 => BlockBytes(st, block) = (Magic \o h) \o l
      /\ st.tell # 0 => BlockBytes(st, block) = (<<>> \o h) \o l
  BY Zenon DEF BlockBytes, h, l
<1>4. (Magic \o h) \o l = Join(Magic, rec)
  BY <1>1, MagicBytes, Associative, Zenon DEF Join
<1>5. (<<>> \o h) \o l = rec
  BY <1>1, ConcatEmptySeq, Zenon DEF Join
<1>6. Join(Magic, rec) \in Seq(Byte)
  BY <1>2, MagicBytes, Joined, Zenon
<1>7. BlockBytes(st, block) \in Seq(Byte)
  BY <1>2, <1>3, <1>4, <1>5, <1>6, Zenon
<1> HIDE DEF rec
<1> QED
  BY <1>2, <1>3, <1>4, <1>5, <1>7, Zenon DEF rec, h, l

-----------------------------------------------------------------------------
(* The filters *)

\* The blocks of the packet in hand that are not written yet.
Waiting(h) == [i \in DOMAIN h.blocks |->
                 [spr |-> h.spr, timestamp |-> h.timestamp, payload |-> h.blocks[i]]]

Hands == [rec : Nat, timestamp : Word, spr : 0 .. 3, blocks : Seq(EncodedBlocks)]

FilterInv ==
  /\ raised \in 0 .. MaxTransactions
  /\ accepts \subseteq {r \in Transactions : stream[r].open}
  /\ stream \in [Transactions -> Streams]
  /\ hand \in Hands
  /\ hand.blocks # <<>> => hand.rec \in Transactions /\ stream[hand.rec].open
  /\ disk \in Seq(Byte)
  /\ recorded \in Seq(SilkBlocks)
  /\ due = recorded \o Waiting(hand)

LEMMA WaitingBlocks ==
  ASSUME NEW h \in Hands
  PROVE  /\ Waiting(h) \in Seq(SilkBlocks) /\ Len(Waiting(h)) = Len(h.blocks)
         /\ \A i \in 1 .. Len(h.blocks) :
              Waiting(h)[i] = [spr |-> h.spr, timestamp |-> h.timestamp, payload |-> h.blocks[i]]
         /\ h.blocks = <<>> => Waiting(h) = <<>>
<1>1. /\ h.spr \in 0 .. 3 /\ h.timestamp \in Word /\ h.blocks \in Seq(EncodedBlocks)
  BY DEF Hands
<1>2. Len(h.blocks) \in Nat /\ DOMAIN h.blocks = 1 .. Len(h.blocks)
      /\ \A i \in 1 .. Len(h.blocks) : h.blocks[i] \in EncodedBlocks
  BY <1>1
<1>3. \A i \in 1 .. Len(h.blocks) :
        [spr |-> h.spr, timestamp |-> h.timestamp, payload |-> h.blocks[i]] \in SilkBlocks
  BY <1>1, <1>2, Zenon DEF SilkBlocks
<1>4. Waiting(h) = [i \in 1 .. Len(h.blocks) |->
                      [spr |-> h.spr, timestamp |-> h.timestamp, payload |-> h.blocks[i]]]
  BY <1>2, Zenon DEF Waiting
<1>5. Waiting(h) \in [1 .. Len(h.blocks) -> SilkBlocks]
  BY <1>3, <1>4, Zenon
<1>6. Waiting(h) \in Seq(SilkBlocks) /\ Len(Waiting(h)) = Len(h.blocks)
  BY <1>2, <1>5, SMT
<1>7. h.blocks = <<>> => Waiting(h) = <<>>
  BY <1>6, EmptySeq
<1> QED
  BY <1>4, <1>6, <1>7, Zenon

\* Writing the first of them leaves the others.
LEMMA WaitingTail ==
  ASSUME NEW h \in Hands, h.blocks # <<>>, NEW s \in Seq(SilkBlocks)
  PROVE  LET block == [spr |-> h.spr, timestamp |-> h.timestamp, payload |-> Head(h.blocks)]
             rest == [h EXCEPT !.blocks = Tail(@)]
         IN /\ block \in SilkBlocks /\ rest \in Hands
            /\ s \o Waiting(h) = Append(s, block) \o Waiting(rest)
<1> DEFINE block == [spr |-> h.spr, timestamp |-> h.timestamp, payload |-> Head(h.blocks)]
           rest == [h EXCEPT !.blocks = Tail(@)]
           w == Waiting(h)
           t == Waiting(rest)
<1>1. h.blocks \in Seq(EncodedBlocks) /\ h.spr \in 0 .. 3 /\ h.timestamp \in Word
  BY DEF Hands
<1>2. /\ Head(h.blocks) \in EncodedBlocks /\ Head(h.blocks) = h.blocks[1]
      /\ Tail(h.blocks) \in Seq(EncodedBlocks)
      /\ Len(h.blocks) \in Nat \ {0} /\ Len(Tail(h.blocks)) = Len(h.blocks) - 1
      /\ \A i \in 1 .. Len(Tail(h.blocks)) : Tail(h.blocks)[i] = h.blocks[i + 1]
  BY <1>1, HeadTailProperties
<1>3. block \in SilkBlocks
  BY <1>1, <1>2, Zenon DEF SilkBlocks
<1>4. /\ rest \in Hands /\ rest.spr = h.spr /\ rest.timestamp = h.timestamp
      /\ rest.blocks = Tail(h.blocks)
  BY <1>2, Zenon DEF Hands
<1> HIDE DEF rest
<1>5. /\ w \in Seq(SilkBlocks) /\ Len(w) = Len(h.blocks)
      /\ \A i \in 1 .. Len(h.blocks) :
           w[i] = [spr |-> h.spr, timestamp |-> h.timestamp, payload |-> h.blocks[i]]
  BY WaitingBlocks, Zenon
<1>6. /\ t \in Seq(SilkBlocks) /\ Len(t) = Len(Tail(h.blocks))
      /\ \A i \in 1 .. Len(Tail(h.blocks)) :
           t[i] = [spr |-> h.spr, timestamp |-> h.timestamp, payload |-> Tail(h.blocks)[i]]
  BY <1>4, WaitingBlocks, Zenon
<1> HIDE DEF w, t
<1>7. w # <<>> /\ Head(w) = block /\ Tail(w) = t
  <2>1. Len(w) \in Nat \ {0} /\ w # <<>> /\ 1 \in 1 .. Len(h.blocks)
    BY <1>2, <1>5
  <2>2. Head(w) = w[1]
    BY <1>5, <2>1
  <2>3. w[1] = block
    BY <1>2, <1>5, <2>1, Zenon
  <2>4. /\ Tail(w) \in Seq(SilkBlocks) /\ Len(Tail(w)) = Len(w) - 1
        /\ \A i \in 1 .. Len(Tail(w)) : Tail(w)[i] = w[i + 1]
    BY <1>5, <2>1, HeadTailProperties, Zenon
  <2>5. Len(Tail(w)) = Len(t)
    BY <1>2, <1>5, <1>6, <2>4
  <2>6. \A i \in 1 .. Len(t) : i \in 1 .. Len(Tail(h.blocks)) /\ i + 1 \in 1 .. Len(h.blocks)
    BY <1>2, <1>6
  <2>7. \A i \in 1 .. Len(t) : Tail(w)[i] = t[i]
    BY <1>2, <1>5, <1>6, <2>4, <2>5, <2>6, ZenonT(40)
  <2>8. Tail(w) = t
    BY <1>6, <2>4, <2>5, <2>7, SeqEqual, Zenon
  <2> QED
    BY <2>1, <2>2, <2>3, <2>8, Zenon
<1>8. s \o w = Append(s, block) \o t
  <2>1. \A S : \A u \in Seq(S) : u # <<>> => u = <<Head(u)>> \o Tail(u)
    OBVIOUS
  <2>2. w = <<block>> \o t
    BY <1>5, <1>7, <2>1, Zenon
  <2>3. <<block>> \in Seq(SilkBlocks)
    BY <1>3
  <2>4. Append(s, block) = s \o <<block>>
    BY <1>3, AppendIsConcat, Zenon
  <2>5. (s \o <<block>>) \o t = s \o (<<block>> \o t)
    BY <1>6, <2>3, ConcatAssociative, SMT
  <2> QED
    BY <2>2, <2>4, <2>5, Zenon
<1> QED
  BY <1>3, <1>4, <1>8, Zenon DEF rest, w, t

LEMMA AcceptorAccepts ==
  ASSUME accepts \subseteq Transactions, accepts # {}
  PROVE  Acceptor \in accepts
<1>1. accepts \in SUBSET Nat
  BY DEF Transactions
<1>2. \E r \in accepts : \A s \in accepts : r <= s
  BY <1>1, LeastNumber, Zenon
<1> QED
  BY <1>2, Zenon DEF Acceptor

\* What a filter takes from a packet is what the packet was made of.
LEMMA TakenAsSent ==
  ASSUME NEW p \in SentPackets, NEW r, Records(r, Decode(p.bytes))
  PROVE  LET obj == Decode(p.bytes)
         IN /\ IsUseBlockPacket(obj.payloadtype)
            /\ obj.payloadtype = p.obj.payloadtype /\ BlockType(obj.payloadtype) \in 0 .. 3
            /\ obj.timestamp = p.sent /\ p.sent \in Word
            /\ Blocks(obj.payload) = p.blocks /\ p.blocks \in Seq(EncodedBlocks)
<1> DEFINE obj == Decode(p.bytes)
<1>1. obj = Received(p.obj, p.sent)
  BY PacketsDecode, Zenon
<1>2. /\ p.obj \in RTPObjects /\ p.sent \in Word /\ p.blocks \in Seq(EncodedBlocks)
      /\ p.obj.payloadtype \in VoiceTypes \cup {RTP_PT_UNKNOWN}
      /\ p.obj.payloadtype \in VoiceTypes => Blocks(p.obj.payload) = p.blocks
  BY Zenon DEF SentPackets
<1> HIDE DEF obj
<1>3. /\ obj.payloadtype = p.obj.payloadtype /\ obj.timestamp = p.sent
      /\ obj.payload = p.obj.payload
  BY <1>1, <1>2 DEF Received, RTPObjects
<1>4. IsValidAudioFormat(obj.payloadtype)
  BY Zenon DEF Records, obj
<1>5. /\ p.obj.payloadtype \in VoiceTypes
      /\ obj.payloadtype = 96 \/ obj.payloadtype = 97 \/ obj.payloadtype = 98 \/ obj.payloadtype = 99
  <2>1. VoiceTypes \subseteq 96 .. 99
    BY VoiceRecordAssumption, Zenon
  <2> QED
    BY <1>2, <1>3, <1>4, <2>1, SMT DEF IsValidAudioFormat, RTP_PT_UNKNOWN
<1>6. BlockType(obj.payloadtype) \in 0 .. 3
  <2>1. BlockType(96) = 0
    BY DEF BlockType
  <2>2. BlockType(97) = 1
    BY DEF BlockType
  <2>3. BlockType(98) = 2
    BY DEF BlockType
  <2>4. BlockType(99) = 3
    BY DEF BlockType
  <2> QED
    BY <1>5, <2>1, <2>2, <2>3, <2>4, SMT
<1>7. IsUseBlockPacket(obj.payloadtype)
  BY <1>5, SMT DEF IsUseBlockPacket
<1> QED
  BY <1>2, <1>3, <1>5, <1>6, <1>7, SMT DEF obj

LEMMA RaiseKeeps ==
  ASSUME FilterInv, NEW p \in net, Raise(p)
  PROVE  /\ FilterInv'
         /\ raised + 1 \in Transactions
         /\ stream' = [stream EXCEPT ![raised + 1] = Opened(disk)]
         /\ Opened(disk) \in Streams /\ Opened(disk).open
         /\ Opened(disk).tell = Len(disk) /\ Opened(disk).buffer = <<>>
<1>1. /\ hand = Idle /\ raised < MaxTransactions
      /\ raised' = raised + 1 /\ accepts' = {raised + 1}
      /\ stream' = [stream EXCEPT ![raised + 1] = Opened(disk)]
      /\ UNCHANGED <<hand, disk, due, recorded>>
  BY Zenon DEF Raise
<1>2. raised + 1 \in Transactions /\ raised + 1 \in 0 .. MaxTransactions
  <2>1. MaxTransactions \in Nat
    BY VoiceRecordAssumption, Zenon
  <2>2. raised \in 0 .. MaxTransactions
    BY Zenon DEF FilterInv
  <2> QED
    BY <1>1, <2>1, <2>2, SMT DEF Transactions
<1>3. /\ Opened(disk) \in Streams /\ Opened(disk).open
      /\ Opened(disk).tell = Len(disk) /\ Opened(disk).buffer = <<>>
  BY DEF Opened, Streams, FilterInv
<1>4. stream' \in [Transactions -> Streams] /\ stream'[raised + 1].open
  BY <1>1, <1>2, <1>3, Zenon DEF FilterInv
<1>5. hand'.blocks = <<>>
  BY <1>1 DEF Idle
<1>6. FilterInv'
  BY <1>1, <1>2, <1>4, <1>5, Zenon DEF FilterInv
<1> QED
  BY <1>1, <1>2, <1>3, <1>6, Zenon

LEMMA DeliverKeeps ==
  ASSUME NetInv, FilterInv, NEW p \in net, Deliver(p)
  PROVE  FilterInv'
<1> DEFINE obj == Decode(p.bytes)
           r == Acceptor
<1>1. hand = Idle /\ accepts # {} /\ UNCHANGED <<raised, stream, disk, recorded>>
  BY Zenon DEF Deliver
<1>2. hand.blocks = <<>> /\ hand \in Hands
  BY <1>1 DEF FilterInv, Idle
<1>3. due = recorded
  <2>1. Waiting(hand) = <<>>
    BY <1>2, WaitingBlocks, Zenon
  <2> QED
    BY <2>1, ConcatEmptySeq, Zenon DEF FilterInv
<1>4. r \in Transactions /\ stream[r].open
  <2>1. accepts \subseteq Transactions
    BY DEF FilterInv
  <2> QED
    BY <1>1, <2>1, AcceptorAccepts, Zenon DEF FilterInv
<1>5. accepts' \subseteq accepts
  BY Zenon DEF Deliver
<1>6. CASE Records(r, obj)
  <2>1. /\ hand' = [rec |-> r, timestamp |-> obj.timestamp,
                    spr |-> BlockType(obj.payloadtype),
                    blocks |-> IF IsUseBlockPacket(obj.payloadtype)
                               THEN Blocks(obj.payload) ELSE <<obj.payload>>]
        /\ due' = due \o [i \in DOMAIN p.blocks |->
                           [spr |-> BlockType(p.obj.payloadtype),
                            timestamp |-> p.sent, payload |-> p.blocks[i]]]
    BY <1>6, Zenon DEF Deliver
  <2>2. p \in SentPackets
    BY DEF NetInv
  <2>3. /\ IsUseBlockPacket(obj.payloadtype)
        /\ obj.payloadtype = p.obj.payloadtype /\ BlockType(obj.payloadtype) \in 0 .. 3
        /\ obj.timestamp = p.sent /\ p.sent \in Word
        /\ Blocks(obj.payload) = p.blocks /\ p.blocks \in Seq(EncodedBlocks)
    BY <1>6, <2>2, TakenAsSent, Zenon
  <2> HIDE DEF obj, r
  <2>4. hand' = [rec |-> r, timestamp |-> p.sent, spr |-> BlockType(p.obj.payloadtype),
                 blocks |-> p.blocks]
    BY <2>1, <2>3, Zenon
  <2>5. r \in Nat
    BY <1>4 DEF Transactions
  <2>6. hand' \in Hands /\ hand'.rec = r
    BY <2>3, <2>4, <2>5, Zenon DEF Hands
  <2>7. due' = recorded \o Waiting(hand')
    <3>1. /\ hand'.spr = BlockType(p.obj.payloadtype) /\ hand'.timestamp = p.sent
          /\ hand'.blocks = p.blocks
      BY <2>4, Zenon
    <3>2. Waiting(hand') = [i \in DOMAIN p.blocks |->
                              [spr |-> BlockType(p.obj.payloadtype),
                               timestamp |-> p.sent, payload |-> p.blocks[i]]]
      BY <3>1, Zenon DEF Waiting
    <3>3. due' = due \o Waiting(hand')
      BY <2>1, <3>2, Zenon
    <3> QED
      BY <1>3, <3>3, Zenon
  <2> QED
    BY <1>1, <1>4, <1>5, <2>6, <2>7, Zenon DEF FilterInv
<1>7. CASE ~Records(r, obj)
  <2>1. UNCHANGED <<hand, due>>
    BY <1>7, Zenon DEF Deliver
  <2> QED
    BY <1>1, <1>5, <2>1, Zenon DEF FilterInv
<1> QED
  BY <1>6, <1>7

LEMMA WriteBlockKeeps ==
  ASSUME FilterInv, WriteBlock
  PROVE  LET r == hand.rec
             block == [spr |-> hand.spr, timestamp |-> hand.timestamp, payload |-> Head(hand.blocks)]
             bytes == BlockBytes(stream[r], block)
         IN /\ FilterInv'
            /\ r \in Transactions /\ stream[r].open /\ block \in SilkBlocks
            /\ stream' = [stream EXCEPT ![r] = Written(stream[r], bytes)]
            /\ disk' = Flushed(stream[r], disk, bytes)
            /\ recorded' = Append(recorded, block)
<1> DEFINE r == hand.rec
           block == [spr |-> hand.spr, timestamp |-> hand.timestamp, payload |-> Head(hand.blocks)]
           bytes == BlockBytes(stream[r], block)
           rest == [hand EXCEPT !.blocks = Tail(@)]
<1>1. /\ hand.blocks # <<>> /\ hand \in Hands /\ recorded \in Seq(SilkBlocks)
      /\ r \in Transactions /\ stream[r].open
      /\ stream \in [Transactions -> Streams] /\ disk \in Seq(Byte)
      /\ due = recorded \o Waiting(hand)
      /\ raised \in 0 .. MaxTransactions
      /\ accepts \subseteq {s \in Transactions : stream[s].open}
  BY Zenon DEF WriteBlock, FilterInv
<1>2. /\ block \in SilkBlocks /\ rest \in Hands
      /\ recorded \o Waiting(hand) = Append(recorded, block) \o Waiting(rest)
  BY <1>1, WaitingTail, Zenon
<1>3. MayWrite(block)
  BY <1>2, HeaderOfBlock, SMT DEF MayWrite
<1>4. /\ stream' = [stream EXCEPT ![r] = Written(stream[r], bytes)]
      /\ disk' = Flushed(stream[r], disk, bytes)
      /\ recorded' = Append(recorded, block)
      /\ hand' = rest
      /\ UNCHANGED <<raised, accepts, due>>
  BY <1>3, Zenon DEF WriteBlock
<1>5. rest.rec = r
  BY DEF Hands
<1> HIDE DEF block, rest
<1>6. stream[r] \in Streams
  BY <1>1
<1>7. bytes \in Seq(Byte)
  BY <1>2, <1>6, BlockBytesAre, Zenon
<1> HIDE DEF bytes, r
<1>8. /\ Written(stream[r], bytes) \in Streams
      /\ Written(stream[r], bytes).open
      /\ Flushed(stream[r], disk, bytes) \in Seq(Byte)
  BY <1>1, <1>6, <1>7, WrittenBytes, Zenon
<1>9. stream' \in [Transactions -> Streams]
  BY <1>1, <1>4, <1>8, Zenon
<1>10. \A s \in Transactions : stream[s].open => stream'[s].open
  BY <1>1, <1>4, <1>8
<1>11. recorded' \in Seq(SilkBlocks)
  BY <1>1, <1>2, <1>4, AppendProperties, Zenon
<1>12. due' = recorded' \o Waiting(hand')
  BY <1>1, <1>2, <1>4, Zenon
<1>13. hand'.rec \in Transactions /\ stream'[hand'.rec].open
  BY <1>1, <1>4, <1>5, <1>10, Zenon
<1>14. FilterInv'
  <2>1. accepts' \subseteq {s \in Transactions : stream'[s].open}
    BY <1>1, <1>4, <1>10
  <2> QED
    BY <1>1, <1>2, <1>4, <1>8, <1>9, <1>11, <1>12, <1>13, <2>1, Zenon DEF FilterInv
<1> QED
  BY <1>1, <1>2, <1>4, <1>14, Zenon DEF r, block, bytes

LEMMA DestroyKeeps ==
  ASSUME FilterInv, NEW r \in Transactions, Destroy(r)
  PROVE  FilterInv'
<1>1. /\ hand = Idle /\ r \notin accepts /\ stream[r].open
      /\ disk' = disk \o stream[r].buffer
      /\ stream' = [stream EXCEPT ![r] = Closed]
      /\ UNCHANGED <<raised, accepts, hand, due, recorded>>
  BY Zenon DEF Destroy
<1>2. Closed \in Streams
  BY DEF Closed, Streams
<1>3. stream' \in [Transactions -> Streams]
  BY <1>1, <1>2, Zenon DEF FilterInv
<1>4. stream[r].buffer \in Seq(Byte)
  BY DEF FilterInv, Streams
<1>5. disk' \in Seq(Byte)
  BY <1>1, <1>4, ConcatProperties, Zenon DEF FilterInv
<1>6. accepts' \subseteq {s \in Transactions : stream'[s].open}
  BY <1>1 DEF FilterInv
<1>7. hand'.blocks = <<>>
  BY <1>1 DEF Idle
<1> QED
  BY <1>1, <1>3, <1>5, <1>6, <1>7, Zenon DEF FilterInv

LEMMA WrittenOutKeeps ==
  ASSUME FilterInv, WrittenOut
  PROVE  FilterInv'
<1>1. hand.blocks = <<>> /\ hand' = Idle
      /\ UNCHANGED <<raised, accepts, stream, disk, due, recorded>>
  BY Zenon DEF WrittenOut
<1>2. Idle \in Hands /\ Idle.blocks = <<>>
  <2>1. 0 \in Word
    BY SMT DEF Word, Byte
  <2> QED
    BY <2>1 DEF Idle, Hands
<1>3. Waiting(hand) = Waiting(Idle)
  BY <1>1, <1>2, WaitingBlocks, Zenon DEF FilterInv
<1> QED
  BY <1>1, <1>2, <1>3, Zenon DEF FilterInv

LEMMA FilterInvInit == Init => FilterInv
<1> SUFFICES ASSUME Init
             PROVE  FilterInv
  OBVIOUS
<1>1. Idle \in Hands /\ Idle.blocks = <<>>
  <2>1. 0 \in Word
    BY SMT DEF Word, Byte
  <2> QED
    BY <2>1 DEF Idle, Hands
<1>2. Waiting(Idle) = <<>>
  BY <1>1, WaitingBlocks, Zenon
<1>3. 0 \in 0 .. MaxTransactions
  <2>1. MaxTransactions \in Nat
    BY VoiceRecordAssumption, Zenon
  <2> QED
    BY <2>1
<1>4. stream \in [Transactions -> Streams]
  BY DEF Init, Closed, Streams
<1>5. <<>> = <<>> \o Waiting(Idle)
  BY <1>2
<1>6. <<>> \in Seq(Byte) /\ <<>> \in Seq(SilkBlocks)
  OBVIOUS
<1> QED
  BY <1>1, <1>3, <1>4, <1>5, <1>6, Zenon DEF Init, FilterInv

LEMMA FilterInvNext ==
  ASSUME NetInv, FilterInv, [Next]_vars
  PROVE  FilterInv'
<1>1. ASSUME UNCHANGED filters PROVE FilterInv'
  BY <1>1, Zenon DEF filters, FilterInv
<1>2. CASE UNCHANGED vars
  BY <1>1, <1>2, Zenon DEF vars
<1>3. ASSUME NEW now \in Times, SendPreamble(now) PROVE FilterInv'
  BY <1>1, <1>3, Zenon DEF SendPreamble, Send
<1>4. ASSUME NEW pt \in VoiceTypes, NEW blocks \in Packages, NEW now \in Times,
             SendVoice(pt, blocks, now)
      PROVE  FilterInv'
  BY <1>1, <1>4, Zenon DEF SendVoice, Send
<1>5. ASSUME NEW pt \in VoiceTypes, NEW now \in Times, SendEnd(pt, now) PROVE FilterInv'
  BY <1>1, <1>5, Zenon DEF SendEnd, Send
<1>6. ASSUME NEW p \in net, Raise(p) PROVE FilterInv'
  BY <1>6, RaiseKeeps, Zenon
<1>7. ASSUME NEW p \in net, Deliver(p) PROVE FilterInv'
  BY <1>7, DeliverKeeps, Zenon
<1>8. CASE WriteBlock
  BY <1>8, WriteBlockKeeps, Zenon
<1>9. CASE WrittenOut
  BY <1>9, WrittenOutKeeps, Zenon
<1>10. ASSUME NEW r \in Transactions, Timeout(r) PROVE FilterInv'
  BY <1>10, Zenon DEF Timeout, FilterInv
<1>11. ASSUME NEW r \in Transactions, Destroy(r) PROVE FilterInv'
  BY <1>11, DestroyKeeps, Zenon
<1>12. CASE PlayLocalFile \/ FeedBlock \/ FeedLast
  BY <1>1, <1>12, Zenon DEF PlayLocalFile, FeedBlock, FeedLast
<1> QED
  BY <1>2, <1>3, <1>4, <1>5, <1>6, <1>7, <1>8, <1>9, <1>10, <1>11, <1>12, Zenon DEF Next

LEMMA FilterInvHolds == Spec => []FilterInv
BY NetInvHolds, FilterInvInit, FilterInvNext, PTL DEF Spec

\* The filters write every block that was said in the packets they took, with its
\* band and time, once and in order, and nothing else.
THEOREM RecordedIsSpokenHolds == Spec => []RecordedIsSpoken
<1>1. FilterInv => RecordedIsSpoken
  <2> SUFFICES ASSUME FilterInv, hand = Idle
               PROVE  recorded = due
    BY DEF RecordedIsSpoken
  <2>1. hand \in Hands /\ hand.blocks = <<>>
    BY DEF FilterInv, Idle
  <2>2. Waiting(hand) = <<>>
    BY <2>1, WaitingBlocks, Zenon
  <2> QED
    BY <2>2, ConcatEmptySeq, Zenon DEF FilterInv
<1> QED
  BY <1>1, FilterInvHolds, PTL

-----------------------------------------------------------------------------
(* The file and its player *)

\* What the file will be when the stream that has it open is closed.
WholeFile(file) ==
  /\ file \in Seq(Byte)
  /\ \A r \in Transactions : stream[r].open =>
       file = Join(disk, stream[r].buffer) /\ stream[r].tell = Len(file)
  /\ (\A r \in Transactions : ~stream[r].open) => file = disk

\* The magic and the blocks lie in the file one behind the other, block k from
\* off[k - 1] to off[k].
LaidOut(file, off, blocks) ==
  /\ off \in [0 .. Len(blocks) -> Nat] /\ off[0] = 7
  /\ blocks = <<>> => file = <<>>
  /\ blocks # <<>> => off[Len(blocks)] = Len(file) /\ \A i \in 1 .. 7 : file[i] = Magic[i]
  /\ \A k \in 1 .. Len(blocks) :
       off[k] = off[k - 1] + 6 + Len(blocks[k].payload) /\ RecordIn(file, off[k - 1], blocks[k])

\* The player stands behind the blocks it has played.
Played(off) ==
  /\ played \in Seq(SilkBlocks)
  /\ player = "none" => played = <<>>
  /\ player # "none" => at = off[Len(played)]
  /\ Len(played) <= Len(recorded)
  /\ \A i \in 1 .. Len(played) : played[i] = recorded[i]

FileInv ==
  ~overlapped =>
    /\ \A r, s \in Transactions : stream[r].open /\ stream[s].open => r = s
    /\ \E file, off : WholeFile(file) /\ LaidOut(file, off, recorded) /\ Played(off)

LEMMA RecordInLonger ==
  ASSUME NEW p \in Seq(Byte), NEW q \in Seq(Byte), NEW o \in Nat, NEW block \in SilkBlocks,
         RecordIn(p, o, block), Len(p) <= Len(q), \A i \in 1 .. Len(p) : q[i] = p[i]
  PROVE  RecordIn(q, o, block)
<1>1. /\ Len(p) \in Nat /\ Len(q) \in Nat /\ Len(block.payload) \in Nat
  BY HeaderOfBlock, SMT
<1>2. /\ o + 6 + Len(block.payload) <= Len(p)
      /\ \A i \in o + 1 .. o + 6 : p[i] = BlockHeader(block)[i - o]
      /\ \A i \in o + 7 .. o + 6 + Len(block.payload) : p[i] = block.payload[i - (o + 6)]
  BY Zenon DEF RecordIn
<1>3. /\ o + 6 + Len(block.payload) <= Len(q)
      /\ \A i \in o + 1 .. o + 6 : i \in 1 .. Len(p)
      /\ \A i \in o + 7 .. o + 6 + Len(block.payload) : i \in 1 .. Len(p)
  <2> DEFINE l == Len(block.payload)
  <2>1. o + 6 + l <= Len(p) /\ l \in Nat
    BY <1>1, <1>2
  <2> HIDE DEF l
  <2>2. /\ o + 6 + l <= Len(q)
        /\ \A i \in o + 1 .. o + 6 : i \in 1 .. Len(p)
        /\ \A i \in o + 7 .. o + 6 + l : i \in 1 .. Len(p)
    BY <1>1, <2>1
  <2> QED
    BY <2>2, Zenon DEF l
<1> QED
  BY <1>2, <1>3, Zenon DEF RecordIn

\* A block that is appended lies behind what there was.
LEMMA RecordAppended ==
  ASSUME NEW g \in Seq(Byte), NEW block \in SilkBlocks
  PROVE  LET q == Join(g, Join(BlockHeader(block), block.payload))
         IN /\ q \in Seq(Byte) /\ RecordIn(q, Len(g), block)
            /\ Len(q) = Len(g) + 6 + Len(block.payload)
            /\ Len(g) \in Nat /\ Len(block.payload) \in Nat
            /\ \A i \in 1 .. Len(g) : q[i] = g[i]
<1> DEFINE h == BlockHeader(block)
           l == block.payload
           rec == Join(h, l)
           q == Join(g, rec)
           o == Len(g)
<1>1. h \in Seq(Byte) /\ Len(h) = 6 /\ l \in Seq(Byte) /\ Len(l) \in Nat
  BY HeaderOfBlock, SMT
<1> HIDE DEF h, l
<1>2. /\ rec \in Seq(Byte) /\ Len(rec) = Len(h) + Len(l)
      /\ \A i \in 1 .. Len(h) : rec[i] = h[i]
      /\ \A i \in Len(h) + 1 .. Len(h) + Len(l) : rec[i] = l[i - Len(h)]
  BY <1>1, Joined, Zenon
<1> HIDE DEF rec
<1>3. /\ q \in Seq(Byte) /\ o \in Nat /\ Len(q) = o + Len(rec)
      /\ \A i \in 1 .. o : q[i] = g[i]
      /\ \A i \in o + 1 .. o + Len(rec) : q[i] = rec[i - o]
  BY <1>2, Joined, Zenon
<1> HIDE DEF q, o
<1>4. Len(q) = o + 6 + Len(l)
  BY <1>1, <1>2, <1>3
<1>5. \A i \in o + 1 .. o + 6 : q[i] = h[i - o]
  <2>1. \A i \in o + 1 .. o + 6 : i \in o + 1 .. o + Len(rec) /\ i - o \in 1 .. Len(h)
    BY <1>1, <1>2, <1>3
  <2> QED
    BY <1>2, <1>3, <2>1, Zenon
<1>6. \A i \in o + 7 .. o + 6 + Len(l) : q[i] = l[i - (o + 6)]
  <2>1. \A i \in o + 7 .. o + 6 + Len(l) :
          /\ i \in o + 1 .. o + Len(rec) /\ i - o \in Len(h) + 1 .. Len(h) + Len(l)
          /\ (i - o) - Len(h) = i - (o + 6)
    BY <1>1, <1>2, <1>3
  <2>2. \A i \in o + 7 .. o + 6 + Len(l) : q[i] = l[(i - o) - Len(h)]
    BY <1>2, <1>3, <2>1, Zenon
  <2> QED
    BY <2>1, <2>2, Zenon
<1>7. o + 6 + Len(l) <= Len(q)
  BY <1>1, <1>3, <1>4
<1>8. RecordIn(q, o, block)
  BY <1>5, <1>6, <1>7, Zenon DEF RecordIn, h, l
<1> QED
  BY <1>1, <1>3, <1>4, <1>8, Zenon DEF q, rec, h, l, o

\* writeBlock leaves a file that is laid out, one block longer.
LEMMA LaidOutLonger ==
  ASSUME NEW file \in Seq(Byte), NEW off, NEW blocks \in Seq(SilkBlocks), NEW block \in SilkBlocks,
         NEW st \in Streams, st.tell = Len(file), LaidOut(file, off, blocks)
  PROVE  \E off2 : /\ LaidOut(Join(file, BlockBytes(st, block)), off2, Append(blocks, block))
                   /\ \A k \in 0 .. Len(blocks) : off2[k] = off[k]
<1> DEFINE n == Len(blocks)
           g == IF blocks = <<>> THEN Magic ELSE file
           rec == Join(BlockHeader(block), block.payload)
           q == Join(g, rec)
           more == Append(blocks, block)
           off2 == [k \in 0 .. n + 1 |-> IF k = n + 1 THEN off[n] + 6 + Len(block.payload) ELSE off[k]]
<1>1. /\ n \in Nat /\ off \in [0 .. n -> Nat] /\ off[0] = 7
      /\ blocks = <<>> => file = <<>>
      /\ blocks # <<>> => off[n] = Len(file) /\ \A i \in 1 .. 7 : file[i] = Magic[i]
      /\ \A k \in 1 .. n :
           off[k] = off[k - 1] + 6 + Len(blocks[k].payload) /\ RecordIn(file, off[k - 1], blocks[k])
  BY Zenon, LenProperties DEF LaidOut
<1>2. \A k \in 1 .. n : blocks[k] \in SilkBlocks /\ off[k - 1] \in Nat
  <2>1. \A k \in 1 .. n : blocks[k] \in SilkBlocks
    OBVIOUS
  <2>2. \A m \in Nat : \A k \in 1 .. m : k - 1 \in 0 .. m
    OBVIOUS
  <2> HIDE DEF n
  <2>3. \A k \in 1 .. n : off[k - 1] \in Nat
    BY <1>1, <2>2, Zenon
  <2> QED
    BY <2>1, <2>3, Zenon DEF n
<1>3. blocks = <<>> <=> n = 0
  BY <1>1, EmptySeq
<1>4. n # 0 => 7 <= off[n]
  <2> SUFFICES ASSUME n # 0
               PROVE  7 <= off[n]
    OBVIOUS
  <2> DEFINE S == {k \in Nat : k <= n => 7 <= off[k]}
  <2>1. 0 \in S
    BY <1>1
  <2>2. ASSUME NEW k \in Nat, k \in S
        PROVE  k + 1 \in S
    <3> SUFFICES ASSUME k + 1 <= n
                 PROVE  7 <= off[k + 1]
      OBVIOUS
    <3>1. k + 1 \in 1 .. n /\ (k + 1) - 1 = k /\ 7 <= off[k] /\ off[k] \in Nat
      BY <1>1, <2>2, SMTT(30)
    <3>2. off[k + 1] = off[k] + 6 + Len(blocks[k + 1].payload) /\ blocks[k + 1] \in SilkBlocks
      BY <1>1, <1>2, <3>1, Zenon
    <3>3. Len(blocks[k + 1].payload) \in Nat
      BY <3>2, HeaderOfBlock, SMT
    <3> QED
      BY <3>1, <3>2, <3>3
  <2> HIDE DEF S
  <2>3. n \in S
    BY <1>1, <2>1, <2>2, Induction, Zenon
  <2> QED
    BY <1>1, <2>3 DEF S
<1>5. /\ g \in Seq(Byte) /\ Len(g) = off[n] /\ \A i \in 1 .. 7 : g[i] = Magic[i]
      /\ off[n] \in Nat /\ Len(g) >= 7
  <2>1. off[n] \in Nat
    BY <1>1
  <2>2. CASE blocks = <<>>
    <3>1. n = 0 /\ g = Magic /\ off[n] = 7
      BY <1>1, <1>3, <2>2, Zenon
    <3>2. 7 >= 7
      OBVIOUS
    <3> QED
      BY <2>1, <3>1, <3>2, MagicBytes, Zenon
  <2>3. CASE blocks # <<>>
    <3>1. n # 0 /\ g = file /\ off[n] = Len(file) /\ \A i \in 1 .. 7 : file[i] = Magic[i]
      BY <1>1, <1>3, <2>3, Zenon
    <3>2. off[n] >= 7
      BY <1>4, <2>1, <3>1
    <3> HIDE DEF g, n
    <3> QED
      BY <2>1, <3>1, <3>2, Zenon
  <2> QED
    BY <2>2, <2>3, Zenon
<1>6. Join(file, BlockBytes(st, block)) = q
  <2>1. /\ rec \in Seq(Byte)
        /\ st.tell = 0 => BlockBytes(st, block) = Join(Magic, rec)
        /\ st.tell # 0 => BlockBytes(st, block) = rec
    BY BlockBytesAre, Zenon
  <2> HIDE DEF rec
  <2>2. CASE blocks = <<>>
    <3>1. file = <<>> /\ st.tell = 0 /\ g = Magic
      BY <1>1, <2>2
    <3>2. Join(Magic, rec) \in Seq(Byte)
      BY <2>1, MagicBytes, Joined, Zenon
    <3>3. Join(file, Join(Magic, rec)) = Join(Magic, rec)
      BY <3>1, <3>2, ConcatEmptySeq, Zenon DEF Join
    <3> QED
      BY <2>1, <3>1, <3>3, Zenon
  <2>3. CASE blocks # <<>>
    <3>1. g = file /\ st.tell # 0
      BY <1>1, <1>3, <1>4, <2>3
    <3> QED
      BY <2>1, <3>1, Zenon
  <2> QED
    BY <2>2, <2>3, Zenon
<1>7. /\ q \in Seq(Byte) /\ RecordIn(q, Len(g), block)
      /\ Len(q) = Len(g) + 6 + Len(block.payload)
      /\ Len(block.payload) \in Nat
      /\ \A i \in 1 .. Len(g) : q[i] = g[i]
  BY <1>5, RecordAppended, Zenon
<1>8. /\ more \in Seq(SilkBlocks) /\ more # <<>> /\ Len(more) = n + 1
      /\ \A k \in 1 .. n : more[k] = blocks[k]
      /\ more[n + 1] = block
  BY AppendProperties
<1>9. /\ off2 \in [0 .. n + 1 -> Nat]
      /\ off2[n + 1] = off[n] + 6 + Len(block.payload)
      /\ \A k \in 0 .. n : off2[k] = off[k]
  <2> DEFINE e == off[n] + 6 + Len(block.payload)
  <2>1. e \in Nat /\ n \in Nat /\ off \in [0 .. n -> Nat]
    BY <1>1, <1>5, <1>7, SMTT(30)
  <2> HIDE DEF e, n
  <2>2. \A k \in 0 .. n + 1 : k # n + 1 => k \in 0 .. n
    BY <2>1
  <2>3. n + 1 \in 0 .. n + 1 /\ \A k \in 0 .. n : k \in 0 .. n + 1 /\ k # n + 1
    BY <2>1
  <2>4. off2 = [k \in 0 .. n + 1 |-> IF k = n + 1 THEN e ELSE off[k]]
    BY Zenon DEF e
  <2> HIDE DEF off2
  <2>5. off2[n + 1] = e /\ \A k \in 0 .. n : off2[k] = off[k]
    BY <2>3, <2>4, Zenon
  <2>6. off2 \in [0 .. n + 1 -> Nat]
    BY <2>1, <2>2, <2>4, Zenon
  <2> QED
    BY <2>5, <2>6, Zenon DEF e
<1> HIDE DEF q, g, more, off2
<1>10. \A k \in 1 .. n : RecordIn(q, off[k - 1], blocks[k])
  <2> SUFFICES ASSUME NEW k \in 1 .. n
               PROVE  RecordIn(q, off[k - 1], blocks[k])
    OBVIOUS
  <2>1. g = file
    BY <1>1, <1>3 DEF g
  <2>2. RecordIn(g, off[k - 1], blocks[k])
    BY <1>1, <2>1, Zenon
  <2>3. Len(g) <= Len(q)
    BY <1>5, <1>7, SMTT(30)
  <2> QED
    BY <1>2, <1>5, <1>7, <2>2, <2>3, RecordInLonger, Zenon
<1>11. \A i \in 1 .. 7 : q[i] = Magic[i]
  <2>1. \A i \in 1 .. 7 : i \in 1 .. Len(g)
    BY <1>5
  <2> QED
    BY <1>5, <1>7, <2>1, Zenon
<1>12. \A k \in 1 .. n + 1 :
         off2[k] = off2[k - 1] + 6 + Len(more[k].payload) /\ RecordIn(q, off2[k - 1], more[k])
  <2> SUFFICES ASSUME NEW k \in 1 .. n + 1
               PROVE  off2[k] = off2[k - 1] + 6 + Len(more[k].payload)
                      /\ RecordIn(q, off2[k - 1], more[k])
    OBVIOUS
  <2>1. CASE k = n + 1
    <3>1. k - 1 = n /\ n \in 0 .. n
      BY <1>1, <2>1
    <3>2. off2[k - 1] = off[n] /\ more[k] = block /\ off2[k] = off[n] + 6 + Len(block.payload)
      BY <1>8, <1>9, <2>1, <3>1, Zenon
    <3> QED
      BY <1>5, <1>7, <3>2, Zenon
  <2>2. CASE k # n + 1
    <3>1. k \in 1 .. n /\ k \in 0 .. n /\ k - 1 \in 0 .. n
      BY <1>1, <2>2
    <3>2. off2[k - 1] = off[k - 1] /\ more[k] = blocks[k] /\ off2[k] = off[k]
      BY <1>8, <1>9, <3>1, Zenon
    <3> QED
      BY <1>1, <1>10, <3>1, <3>2, Zenon
  <2> QED
    BY <2>1, <2>2, Zenon
<1>13. 0 \in 0 .. n
  BY <1>1
<1>14. off2[0] = 7
  BY <1>1, <1>9, <1>13, Zenon
<1>15. off2[Len(more)] = Len(q)
  BY <1>5, <1>7, <1>8, <1>9, Zenon
<1>16. LaidOut(q, off2, more)
  BY <1>8, <1>9, <1>11, <1>12, <1>14, <1>15, Zenon DEF LaidOut
<1> QED
  BY <1>6, <1>9, <1>16, Zenon DEF more

\* The disk has the beginning of the file.
LEMMA DiskBegins ==
  ASSUME FilterInv, NEW file, WholeFile(file)
  PROVE  /\ file \in Seq(Byte) /\ disk \in Seq(Byte) /\ Len(disk) <= Len(file)
         /\ \A i \in 1 .. Len(disk) : disk[i] = file[i]
<1>1. file \in Seq(Byte) /\ disk \in Seq(Byte)
  BY Zenon DEF WholeFile, FilterInv
<1>2. CASE \A r \in Transactions : ~stream[r].open
  <2>1. file = disk
    BY <1>2, Zenon DEF WholeFile
  <2> QED
    BY <1>1, <2>1
<1>3. ASSUME NEW r \in Transactions, stream[r].open
      PROVE  Len(disk) <= Len(file) /\ \A i \in 1 .. Len(disk) : disk[i] = file[i]
  <2>1. file = Join(disk, stream[r].buffer)
    BY <1>3, Zenon DEF WholeFile
  <2>2. stream[r].buffer \in Seq(Byte)
    BY DEF FilterInv, Streams
  <2>3. /\ Len(disk) \in Nat /\ Len(stream[r].buffer) \in Nat
        /\ Len(file) = Len(disk) + Len(stream[r].buffer)
        /\ \A i \in 1 .. Len(disk) : file[i] = disk[i]
    BY <1>1, <2>1, <2>2, Joined, ZenonT(40)
  <2>4. Len(disk) <= Len(file)
    BY <2>3
  <2> QED
    BY <2>3, <2>4, Zenon
<1> QED
  BY <1>1, <1>2, <1>3, Zenon

\* The player finds the next block where it stands, if it finds one, and finds
\* it when the disk has all of the file.
LEMMA NextToPlay ==
  ASSUME FilterInv, NEW file, NEW off,
         WholeFile(file), LaidOut(file, off, recorded), Played(off), player = "playing"
  PROVE  LET k == Len(played) + 1
         IN /\ CanReadBlock(disk, at) =>
                 /\ k \in 1 .. Len(recorded)
                 /\ BlockAt(disk, at) = recorded[k] /\ NextBlockAt(disk, at) = off[k]
            /\ file = disk /\ Len(played) < Len(recorded) => CanReadBlock(disk, at)
<1> DEFINE k == Len(played) + 1
           n == Len(recorded)
<1>1. /\ file \in Seq(Byte) /\ disk \in Seq(Byte) /\ Len(disk) <= Len(file)
      /\ \A i \in 1 .. Len(disk) : disk[i] = file[i]
      /\ Len(disk) \in Nat /\ Len(file) \in Nat
  BY DiskBegins, LenProperties, Zenon
<1>2. /\ played \in Seq(SilkBlocks) /\ Len(played) \in Nat /\ Len(played) <= n
      /\ recorded \in Seq(SilkBlocks) /\ n \in Nat
  BY LenProperties, Zenon DEF Played, FilterInv
<1>3. at = off[Len(played)]
  <2>1. "playing" # "none"
    OBVIOUS
  <2> QED
    BY <2>1, Zenon DEF Played
<1>4. /\ off \in [0 .. n -> Nat]
      /\ recorded = <<>> => file = <<>>
      /\ recorded # <<>> => off[n] = Len(file)
      /\ \A j \in 1 .. n :
           off[j] = off[j - 1] + 6 + Len(recorded[j].payload) /\ RecordIn(file, off[j - 1], recorded[j])
  BY Zenon DEF LaidOut
<1> HIDE DEF n
<1>5. Len(played) \in 0 .. n /\ at \in Nat
  BY <1>2, <1>3, <1>4
<1>6. ASSUME k \in 1 .. n
      PROVE  /\ CanReadBlock(disk, at) => BlockAt(disk, at) = recorded[k] /\ NextBlockAt(disk, at) = off[k]
             /\ file = disk => CanReadBlock(disk, at)
  <2>1. k - 1 = Len(played)
    BY <1>2
  <2>2. recorded[k] \in SilkBlocks
    BY <1>2, <1>6 DEF n
  <2> HIDE DEF k
  <2>3. off[k] = at + 6 + Len(recorded[k].payload) /\ RecordIn(file, at, recorded[k])
    BY <1>3, <1>4, <1>6, <2>1, Zenon
  <2>4. /\ CanReadBlock(disk, at) =>
             /\ BlockAt(disk, at) = recorded[k]
             /\ NextBlockAt(disk, at) = at + 6 + Len(recorded[k].payload)
        /\ at + 6 + Len(recorded[k].payload) <= Len(disk) => CanReadBlock(disk, at)
    BY <1>1, <1>5, <2>2, <2>3, ReadBlock, Zenon
  <2>5. at + 6 + Len(recorded[k].payload) <= Len(file)
    BY <2>3, Zenon DEF RecordIn
  <2> QED
    BY <2>3, <2>4, <2>5, Zenon
<1>7. ASSUME CanReadBlock(disk, at)
      PROVE  k \in 1 .. n
  <2>1. at + 6 <= Len(disk)
    BY <1>7, Zenon DEF CanReadBlock, BlockHeaderSize
  <2>2. file # <<>>
    BY <1>1, <1>5, <2>1
  <2>3. off[n] = Len(file)
    BY <1>4, <2>2, Zenon
  <2>4. Len(played) # n
    BY <1>1, <1>3, <1>5, <2>1, <2>3
  <2> QED
    BY <1>2, <2>4
<1>8. Len(played) < n => k \in 1 .. n
  BY <1>2
<1> QED
  BY <1>6, <1>7, <1>8, Zenon DEF n

LEMMA FileInvSame ==
  ASSUME FileInv, UNCHANGED <<stream, disk, recorded, overlapped, player, at, played>>
  PROVE  FileInv'
BY ZenonT(40) DEF FileInv, WholeFile, LaidOut, Played

LEMMA RaiseKeepsFile ==
  ASSUME FilterInv, FileInv, NEW p \in net, Raise(p), ~overlapped'
  PROVE  FileInv'
<1> DEFINE q == raised + 1
           new == Opened(disk)
<1>1. /\ overlapped' = (overlapped \/ \E r \in Transactions : stream[r].open)
      /\ UNCHANGED <<disk, recorded, player, at, played>>
  BY Zenon DEF Raise, source
<1>2. ~overlapped /\ \A r \in Transactions : ~stream[r].open
  BY <1>1, Zenon
<1>3. PICK file, off : WholeFile(file) /\ LaidOut(file, off, recorded) /\ Played(off)
  BY <1>2, Zenon DEF FileInv
<1>4. file = disk /\ file \in Seq(Byte)
  BY <1>2, <1>3, Zenon DEF WholeFile
<1>5. /\ q \in Transactions
      /\ stream' = [stream EXCEPT ![q] = new]
      /\ stream \in [Transactions -> Streams]
      /\ new.open /\ new.tell = Len(disk) /\ new.buffer = <<>>
  BY RaiseKeeps, Zenon DEF FilterInv
<1> HIDE DEF new, q
<1>6. stream'[q] = new /\ \A r \in Transactions : r # q => stream'[r] = stream[r]
  BY <1>5, Zenon
<1>7. \A r \in Transactions : stream'[r].open => r = q
  BY <1>2, <1>6, Zenon
<1>8. Join(disk, <<>>) = disk
  BY <1>4, ConcatEmptySeq, Zenon DEF Join
<1>9. WholeFile(file)'
  BY <1>1, <1>4, <1>5, <1>6, <1>7, <1>8, Zenon DEF WholeFile
<1>10. LaidOut(file, off, recorded)' /\ Played(off)'
  BY <1>1, <1>3, Zenon DEF LaidOut, Played
<1> QED
  BY <1>7, <1>9, <1>10, Zenon DEF FileInv

LEMMA WriteBlockKeepsFile ==
  ASSUME FilterInv, FileInv, WriteBlock, ~overlapped
  PROVE  FileInv'
<1> DEFINE r == hand.rec
           block == [spr |-> hand.spr, timestamp |-> hand.timestamp, payload |-> Head(hand.blocks)]
           st == stream[r]
           bytes == BlockBytes(st, block)
           new == Written(st, bytes)
<1>1. /\ r \in Transactions /\ st.open /\ block \in SilkBlocks
      /\ stream' = [stream EXCEPT ![r] = new]
      /\ disk' = Flushed(st, disk, bytes)
      /\ recorded' = Append(recorded, block)
  BY WriteBlockKeeps, Zenon
<1>2. UNCHANGED <<overlapped, player, at, played>>
  BY Zenon DEF WriteBlock, source
<1>3. stream \in [Transactions -> Streams] /\ st \in Streams /\ disk \in Seq(Byte)
      /\ recorded \in Seq(SilkBlocks)
  BY <1>1, Zenon DEF FilterInv
<1> HIDE DEF block
<1>4. bytes \in Seq(Byte)
  BY <1>1, <1>3, BlockBytesAre, Zenon
<1>5. \A s, t \in Transactions : stream[s].open /\ stream[t].open => s = t
  BY Zenon DEF FileInv
<1>6. PICK file, off : WholeFile(file) /\ LaidOut(file, off, recorded) /\ Played(off)
  BY Zenon DEF FileInv
<1>7. file \in Seq(Byte) /\ file = Join(disk, st.buffer) /\ st.tell = Len(file)
  BY <1>1, <1>6, Zenon DEF WholeFile
<1>8. PICK file2 : file2 = Join(file, bytes)
  OBVIOUS
<1>8a. PICK off2 : /\ LaidOut(file2, off2, Append(recorded, block))
                   /\ \A k \in 0 .. Len(recorded) : off2[k] = off[k]
  <2> HIDE DEF st
  <2>1. \E off2 : /\ LaidOut(Join(file, BlockBytes(st, block)), off2, Append(recorded, block))
                  /\ \A k \in 0 .. Len(recorded) : off2[k] = off[k]
    <3>1. /\ file \in Seq(Byte) /\ recorded \in Seq(SilkBlocks) /\ block \in SilkBlocks
          /\ st \in Streams /\ st.tell = Len(file) /\ LaidOut(file, off, recorded)
      BY <1>1, <1>3, <1>6, <1>7, Zenon
    <3> QED
      BY <3>1, LaidOutLonger, ZenonT(30)
  <2> QED
    BY <1>8, <2>1, Zenon
<1> HIDE DEF bytes
<1>9. /\ new.open /\ new.tell = st.tell + Len(bytes)
      /\ Join(Flushed(st, disk, bytes), new.buffer) = Join(Join(disk, st.buffer), bytes)
  BY <1>1, <1>3, <1>4, WrittenBytes, Zenon
<1> HIDE DEF new
<1>10. file2 \in Seq(Byte) /\ Len(file2) = Len(file) + Len(bytes)
  BY <1>4, <1>7, <1>8, Joined, Zenon
<1>11. file2 = Join(disk', new.buffer) /\ new.tell = Len(file2)
  BY <1>1, <1>7, <1>8, <1>9, <1>10, Zenon
<1> HIDE DEF st, r
<1>12. stream'[r] = new /\ \A s \in Transactions : s # r => stream'[s] = stream[s]
  BY <1>1, <1>3, Zenon
<1>13. \A s \in Transactions : stream'[s].open => s = r
  BY <1>1, <1>5, <1>12, Zenon DEF st
<1>14. WholeFile(file2)'
  BY <1>1, <1>9, <1>10, <1>11, <1>12, <1>13, Zenon DEF WholeFile
<1>15. LaidOut(file2, off2, recorded)'
  BY <1>1, <1>8a, Zenon DEF LaidOut
<1>16. Played(off2)'
  <2>1. /\ played \in Seq(SilkBlocks) /\ Len(played) \in Nat /\ Len(recorded) \in Nat
        /\ player = "none" => played = <<>>
        /\ player # "none" => at = off[Len(played)]
        /\ Len(played) <= Len(recorded)
        /\ \A i \in 1 .. Len(played) : played[i] = recorded[i]
    BY <1>3, <1>6, LenProperties, Zenon DEF Played
  <2>2. /\ Len(recorded') = Len(recorded) + 1
        /\ \A i \in 1 .. Len(recorded) : recorded'[i] = recorded[i]
    BY <1>1, <1>3, AppendProperties
  <2>3. /\ Len(played) \in 0 .. Len(recorded) /\ Len(played) <= Len(recorded')
        /\ \A i \in 1 .. Len(played) : i \in 1 .. Len(recorded)
    BY <2>1, <2>2
  <2>4. player # "none" => at = off2[Len(played)]
    BY <1>8a, <2>1, <2>3, Zenon
  <2>5. \A i \in 1 .. Len(played) : played[i] = recorded'[i]
    BY <2>1, <2>2, <2>3, Zenon
  <2> QED
    BY <1>2, <2>1, <2>3, <2>4, <2>5, Zenon DEF Played
<1> QED
  BY <1>13, <1>14, <1>15, <1>16, Zenon DEF FileInv

LEMMA DestroyKeepsFile ==
  ASSUME FilterInv, FileInv, NEW r \in Transactions, Destroy(r), ~overlapped
  PROVE  FileInv'
<1>1. /\ stream[r].open
      /\ disk' = disk \o stream[r].buffer
      /\ stream' = [stream EXCEPT ![r] = Closed]
      /\ UNCHANGED <<recorded, overlapped, player, at, played>>
  BY Zenon DEF Destroy, source
<1>2. stream \in [Transactions -> Streams] /\ ~Closed.open
  BY DEF FilterInv, Closed
<1>3. \A s, t \in Transactions : stream[s].open /\ stream[t].open => s = t
  BY Zenon DEF FileInv
<1>4. PICK file, off : WholeFile(file) /\ LaidOut(file, off, recorded) /\ Played(off)
  BY Zenon DEF FileInv
<1>5. file \in Seq(Byte) /\ file = disk'
  BY <1>1, <1>4, Zenon DEF WholeFile, Join
<1>6. \A s \in Transactions : ~stream'[s].open
  <2>1. stream'[r] = Closed /\ \A s \in Transactions : s # r => stream'[s] = stream[s]
    BY <1>1, <1>2, Zenon
  <2> QED
    BY <1>1, <1>2, <1>3, <2>1, Zenon
<1>7. WholeFile(file)'
  BY <1>5, <1>6, Zenon DEF WholeFile
<1>8. LaidOut(file, off, recorded)' /\ Played(off)'
  BY <1>1, <1>4, Zenon DEF LaidOut, Played
<1> QED
  BY <1>6, <1>7, <1>8, Zenon DEF FileInv

LEMMA PlayLocalFileKeeps ==
  ASSUME FilterInv, FileInv, PlayLocalFile, ~overlapped
  PROVE  FileInv'
<1>1. /\ player = "none" /\ player' = "playing" /\ at' = Len(Magic)
      /\ UNCHANGED <<stream, disk, recorded, overlapped, played>>
  BY Zenon DEF PlayLocalFile, filters
<1>2. PICK file, off : WholeFile(file) /\ LaidOut(file, off, recorded) /\ Played(off)
  BY Zenon DEF FileInv
<1>3. at' = 7 /\ off[0] = 7
  BY <1>1, <1>2, MagicBytes, Zenon DEF LaidOut
<1>4. played = <<>> /\ Len(played) = 0
  <2>1. played = <<>>
    BY <1>1, <1>2, Zenon DEF Played
  <2> QED
    BY <2>1
<1>5. at' = off[Len(played)]
  BY <1>3, <1>4, Zenon
<1>6. Played(off)'
  <2>1. player' # "none"
    BY <1>1
  <2> QED
    BY <1>1, <1>2, <1>5, <2>1, Zenon DEF Played
<1>7. WholeFile(file)' /\ LaidOut(file, off, recorded)'
  BY <1>1, <1>2, Zenon DEF WholeFile, LaidOut
<1> QED
  BY <1>1, <1>6, <1>7, Zenon DEF FileInv

LEMMA FeedBlockKeeps ==
  ASSUME FilterInv, FileInv, FeedBlock, ~overlapped
  PROVE  FileInv'
<1>1. /\ player = "playing" /\ CanReadBlock(disk, at)
      /\ played' = Append(played, BlockAt(disk, at))
      /\ at' = NextBlockAt(disk, at)
      /\ UNCHANGED <<stream, disk, recorded, overlapped, player>>
  BY Zenon DEF FeedBlock, filters
<1>2. PICK file, off : WholeFile(file) /\ LaidOut(file, off, recorded) /\ Played(off)
  BY Zenon DEF FileInv
<1> DEFINE k == Len(played) + 1
<1>3. /\ k \in 1 .. Len(recorded)
      /\ BlockAt(disk, at) = recorded[k] /\ NextBlockAt(disk, at) = off[k]
  BY <1>1, <1>2, NextToPlay, Zenon
<1>4. /\ played \in Seq(SilkBlocks) /\ recorded \in Seq(SilkBlocks)
      /\ \A i \in 1 .. Len(played) : played[i] = recorded[i]
  BY <1>2, Zenon DEF Played, FilterInv
<1>5. recorded[k] \in SilkBlocks
  BY <1>3, <1>4, ElementOfSeq, Zenon
<1>6. played' = Append(played, recorded[k])
  BY <1>1, <1>3, Zenon
<1> DEFINE e == recorded[k]
<1> HIDE DEF e
<1>7. /\ played' \in Seq(SilkBlocks) /\ Len(played') = k
      /\ \A i \in 1 .. Len(played) : played'[i] = played[i]
      /\ played'[k] = e
  <2>1. played' = Append(played, e) /\ e \in SilkBlocks
    BY <1>5, <1>6, Zenon DEF e
  <2> QED
    BY <1>4, <2>1, AppendProperties
<1>8. Len(recorded) \in Nat /\ Len(played) \in Nat
  BY <1>4, LenProperties, Zenon
<1>9. k <= Len(recorded)
  BY <1>3, <1>8
<1>10. \A i \in 1 .. k : played'[i] = recorded[i]
  <2>1. \A i \in 1 .. k : i = k \/ i \in 1 .. Len(played)
    BY <1>8
  <2> HIDE DEF k
  <2> QED
    BY <1>4, <1>7, <2>1, Zenon DEF e
<1> HIDE DEF k
<1>11. Played(off)'
  <2>1. player' # "none"
    BY <1>1
  <2> QED
    BY <1>1, <1>3, <1>7, <1>9, <1>10, <2>1, Zenon DEF Played
<1>12. WholeFile(file)' /\ LaidOut(file, off, recorded)'
  BY <1>1, <1>2, Zenon DEF WholeFile, LaidOut
<1>13. \A r, s \in Transactions : stream'[r].open /\ stream'[s].open => r = s
  BY <1>1, Zenon DEF FileInv
<1> QED
  BY <1>11, <1>12, <1>13, Zenon DEF FileInv

LEMMA FeedLastKeeps ==
  ASSUME FileInv, FeedLast, ~overlapped
  PROVE  FileInv'
<1>1. /\ player = "playing" /\ player' = "ended"
      /\ UNCHANGED <<stream, disk, recorded, overlapped, at, played>>
  BY Zenon DEF FeedLast, filters
<1>2. player # "none" /\ player' # "none"
  BY <1>1
<1>3. PICK file, off : WholeFile(file) /\ LaidOut(file, off, recorded) /\ Played(off)
  BY Zenon DEF FileInv
<1>4. Played(off)'
  BY <1>1, <1>2, <1>3, Zenon DEF Played
<1>5. WholeFile(file)' /\ LaidOut(file, off, recorded)'
  BY <1>1, <1>3, Zenon DEF WholeFile, LaidOut
<1> QED
  BY <1>1, <1>4, <1>5, Zenon DEF FileInv

LEMMA FileInvInit == Init => FileInv
<1> SUFFICES ASSUME Init
             PROVE  FileInv
  OBVIOUS
<1>1. /\ disk = <<>> /\ recorded = <<>> /\ played = <<>> /\ player = "none"
      /\ \A r \in Transactions : ~stream[r].open
  BY DEF Init, Closed
<1> DEFINE off == [i \in 0 .. 0 |-> 7]
<1>2. off \in [0 .. 0 -> Nat] /\ off[0] = 7 /\ Len(<<>>) = 0 /\ \A k : ~(k \in 1 .. 0)
  OBVIOUS
<1>3. <<>> \in Seq(Byte) /\ <<>> \in Seq(SilkBlocks) /\ 0 <= 0
  OBVIOUS
<1> HIDE DEF off
<1>4. WholeFile(<<>>)
  BY <1>1, <1>3, Zenon DEF WholeFile
<1>5. LaidOut(<<>>, off, recorded)
  BY <1>1, <1>2, Zenon DEF LaidOut
<1>6. Played(off)
  BY <1>1, <1>2, <1>3, Zenon DEF Played
<1> QED
  BY <1>1, <1>4, <1>5, <1>6, Zenon DEF FileInv

LEMMA FileInvNext ==
  ASSUME FilterInv, FileInv, [Next]_vars
  PROVE  FileInv'
<1> SUFFICES ASSUME ~overlapped'
             PROVE  FileInv'
  BY Zenon DEF FileInv
<1>1. ASSUME UNCHANGED <<stream, disk, recorded, overlapped, source>> PROVE FileInv'
  BY <1>1, FileInvSame, Zenon DEF source
<1>2. CASE UNCHANGED vars
  BY <1>1, <1>2, Zenon DEF vars, filters
<1>3. ASSUME NEW now \in Times, SendPreamble(now) PROVE FileInv'
  BY <1>1, <1>3, Zenon DEF SendPreamble, Send, filters
<1>4. ASSUME NEW pt \in VoiceTypes, NEW blocks \in Packages, NEW now \in Times,
             SendVoice(pt, blocks, now)
      PROVE  FileInv'
  BY <1>1, <1>4, Zenon DEF SendVoice, Send, filters
<1>5. ASSUME NEW pt \in VoiceTypes, NEW now \in Times, SendEnd(pt, now) PROVE FileInv'
  BY <1>1, <1>5, Zenon DEF SendEnd, Send, filters
<1>6. ASSUME NEW p \in net, Raise(p) PROVE FileInv'
  BY <1>6, RaiseKeepsFile, Zenon
<1>7. ASSUME NEW p \in net, Deliver(p) PROVE FileInv'
  BY <1>1, <1>7, Zenon DEF Deliver
<1>8. CASE WriteBlock
  <2>1. ~overlapped
    BY <1>8, Zenon DEF WriteBlock
  <2> QED
    BY <1>8, <2>1, WriteBlockKeepsFile, Zenon
<1>9. CASE WrittenOut
  BY <1>1, <1>9, Zenon DEF WrittenOut
<1>10. ASSUME NEW r \in Transactions, Timeout(r) PROVE FileInv'
  BY <1>1, <1>10, Zenon DEF Timeout
<1>11. ASSUME NEW r \in Transactions, Destroy(r) PROVE FileInv'
  <2>1. ~overlapped
    BY <1>11, Zenon DEF Destroy
  <2> QED
    BY <1>11, <2>1, DestroyKeepsFile, Zenon
<1>12. CASE PlayLocalFile \/ FeedBlock \/ FeedLast
  <2>1. ~overlapped
    BY <1>12, Zenon DEF PlayLocalFile, FeedBlock, FeedLast, filters
  <2> QED
    BY <1>12, <2>1, PlayLocalFileKeeps, FeedBlockKeeps, FeedLastKeeps, Zenon
<1> QED
  BY <1>2, <1>3, <1>4, <1>5, <1>6, <1>7, <1>8, <1>9, <1>10, <1>11, <1>12, Zenon DEF Next

LEMMA PlayedSoFar ==
  ASSUME FilterInv, FileInv
  PROVE  PlayedIsRecorded
<1> SUFFICES ASSUME ~overlapped
             PROVE  /\ IsPrefix(played, recorded)
                    /\ (/\ player = "playing" /\ ~CanReadBlock(disk, at)
                        /\ \A r \in Transactions : ~stream[r].open) => played = recorded
  BY Zenon DEF PlayedIsRecorded
<1>1. PICK file, off : WholeFile(file) /\ LaidOut(file, off, recorded) /\ Played(off)
  BY Zenon DEF FileInv
<1>2. /\ played \in Seq(SilkBlocks) /\ recorded \in Seq(SilkBlocks)
      /\ Len(played) \in Nat /\ Len(recorded) \in Nat
      /\ Len(played) <= Len(recorded)
      /\ \A i \in 1 .. Len(played) : played[i] = recorded[i]
  BY <1>1, LenProperties, Zenon DEF Played, FilterInv
<1>3. IsPrefix(played, recorded)
  BY <1>2 DEF IsPrefix
<1>4. ASSUME player = "playing", ~CanReadBlock(disk, at), \A r \in Transactions : ~stream[r].open
      PROVE  played = recorded
  <2>1. file = disk
    BY <1>1, <1>4, Zenon DEF WholeFile
  <2>2. ~(Len(played) < Len(recorded))
    BY <1>1, <1>4, <2>1, NextToPlay, Zenon
  <2>3. Len(played) = Len(recorded)
    BY <1>2, <2>2
  <2> QED
    BY <1>2, <2>3, SeqEqual, Zenon
<1> QED
  BY <1>3, <1>4, Zenon

\* playLocalFile plays the blocks as they were written, from the first, and all of
\* them when the streams are closed, unless the file was opened while it was open.
THEOREM PlayedIsRecordedHolds == Spec => []PlayedIsRecorded
<1>1. Spec => []FileInv
  BY FilterInvHolds, FileInvInit, FileInvNext, PTL DEF Spec
<1> QED
  BY <1>1, FilterInvHolds, PlayedSoFar, PTL

-----------------------------------------------------------------------------
(* The jitter buffer *)

\* The packets counted are those that came.
CountIsArrived == totalRTPCount = Cardinality(arrived)

\* What is held has not been passed, unless it was passed on its arrival: what
\* is popped comes before all that is held.
HeldIsNext ==
  \A i \in 1 .. Len(passed) : \A p \in held : passed[i].seq > p.seq => p \in late

\* The same of the packet that the network thread has measured and not yet held.
NewIsNext ==
  npc = "enqueue" =>
    \A i \in 1 .. Len(passed) : passed[i].seq > cur.seq => cur \in late

\* The packet that is being written is still the top of the priority queue.
WrittenIsTop == npc \in Writing => Top(cur)

\* After the marker nothing is held from one push to the next, nor while the
\* next is being measured.
FlushedBeforeNext == npc \in {"idle", "enqueue"} /\ isEnded => held = {}

JitterInv ==
  /\ TypeOK
  /\ CountIsArrived
  /\ HeldIsNext
  /\ NewIsNext
  /\ WrittenIsTop
  /\ InOrderUnlessLate
  /\ FlushedBeforeNext

USE DEF jitterVars, jitter, ioq, network, feeder, history, Thresholds, Writing
-----------------------------------------------------------------------------
(* The packets are finitely many *)

LEMMA PacketsFinite ==
  /\ IsFiniteSet(Packets)
  /\ \A p \in Packets : p.seq \in Sequences16 /\ p.seq \in Nat
<1> DEFINE Pairs == Sequences16 \X (1 .. Copies)
           packet == [p \in Pairs |-> [seq |-> p[1], copy |-> p[2]]]
<1>1. IsFiniteSet(Sequences16) /\ Sequences16 \subseteq Nat
  BY JitterAssumption, FS_Union DEF Sequences16
<1>2. IsFiniteSet(1 .. Copies)
  BY JitterAssumption, FS_Interval
<1>3. IsFiniteSet(Pairs)
  BY <1>1, <1>2, FS_Product
<1>4. packet \in [Pairs -> Packets]
  BY DEF Packets
<1>5. ASSUME NEW q \in Packets PROVE \E p \in Pairs : packet[p] = q
  <2>1. <<q.seq, q.copy>> \in Pairs /\ q = [seq |-> q.seq, copy |-> q.copy]
    BY DEF Packets
  <2> QED
    BY <2>1
<1>6. packet \in Surjection(Pairs, Packets)
  BY <1>4, <1>5 DEF Surjection
<1>7. IsFiniteSet(Packets)
  BY <1>3, <1>6, FS_Surjection
<1>8. \A p \in Packets : p.seq \in Sequences16
  BY DEF Packets
<1> QED
  BY <1>1, <1>7, <1>8

LEMMA ArrivedFinite ==
  ASSUME NEW S \in SUBSET Packets
  PROVE  /\ IsFiniteSet(S)
         /\ Cardinality(S) \in 0 .. Cardinality(Packets)
         /\ \A p \in Packets \ S :
              /\ Cardinality(S \cup {p}) = Cardinality(S) + 1
              /\ S \cup {p} \in SUBSET Packets
  BY PacketsFinite, FS_Subset, FS_CardinalityType, FS_AddElement
-----------------------------------------------------------------------------
(* What passes *)

\* A packet that is pushed comes last of all that has passed.
LEMMA PassedAppend ==
  ASSUME NEW t \in Seq(Packets), NEW q \in Seq(Packets), NEW p \in Packets
  PROVE  /\ t \o q \in Seq(Packets)
         /\ Len(t \o q) \in Nat
         /\ Len(t \o Append(q, p)) = Len(t \o q) + 1
         /\ \A i \in 1 .. Len(t \o q) : (t \o Append(q, p))[i] = (t \o q)[i]
         /\ (t \o Append(q, p))[Len(t \o q) + 1] = p
<1>1. t \o Append(q, p) = (t \o q) \o <<p>>
  BY AppendIsConcat, ConcatAssociative
<1>2. t \o q \in Seq(Packets)
  BY ConcatProperties
<1>3. (t \o q) \o <<p>> = Append(t \o q, p)
  BY <1>2, AppendIsConcat
<1> QED
  BY <1>1, <1>2, <1>3, AppendProperties, LenProperties

\* A packet that the feeder takes stays where it was.
LEMMA PassedTaken ==
  ASSUME NEW t \in Seq(Packets), NEW q \in Seq(Packets), q # <<>>
  PROVE  /\ Append(t, Head(q)) \o Tail(q) = t \o q
         /\ Append(t, Head(q)) \in Seq(Packets)
         /\ Tail(q) \in Seq(Packets)
<1>1. Head(q) \in Packets /\ Tail(q) \in Seq(Packets)
  BY HeadTailProperties
<1>2. q = <<Head(q)>> \o Tail(q)
  BY <1>1
<1>3. Append(t, Head(q)) = t \o <<Head(q)>>
  BY <1>1, AppendIsConcat
<1>4. <<Head(q)>> \in Seq(Packets)
  BY <1>1
<1>5. (t \o <<Head(q)>>) \o Tail(q) = t \o (<<Head(q)>> \o Tail(q))
  BY <1>1, <1>4, ConcatAssociative
<1> QED
  BY <1>1, <1>2, <1>3, <1>5, AppendProperties
-----------------------------------------------------------------------------
(* Type correctness *)

LEMMA JitterInitTypes == JitterInit => TypeOK /\ CountIsArrived
<1> SUFFICES ASSUME JitterInit PROVE TypeOK /\ CountIsArrived
  OBVIOUS
<1>1. Cardinality({}) = 0 /\ Cardinality(Packets) \in Nat
  BY PacketsFinite, FS_EmptySet, FS_CardinalityType
<1>2. isEnded \in BOOLEAN /\ rtpDuration \in BOOLEAN /\ playing \in BOOLEAN
  BY Zenon DEF JitterInit
<1>3. readable \in BOOLEAN /\ writtable \in BOOLEAN /\ got \in BOOLEAN
  BY Zenon DEF JitterInit
<1>4. queue \in Seq(Packets) /\ taken \in Seq(Packets)
  BY DEF JitterInit
<1>5. chosen \in [{"network", "feeder"} -> Thresholds]
  BY DEF JitterInit
<1> QED
  BY <1>1, <1>2, <1>3, <1>4, <1>5 DEF JitterInit, TypeOK, CountIsArrived

\* The threshold a recalculation chooses is of its type.
LEMMA ThresholdType ==
  ASSUME TypeOK, NEW threshold \in Threshold
  PROVE  threshold \in Thresholds
  BY DEF Threshold, TypeOK

LEMMA JitterNextTypes == TypeOK /\ CountIsArrived /\ [JitterNext]_jitterVars => TypeOK' /\ CountIsArrived'
<1> SUFFICES ASSUME TypeOK, CountIsArrived, [JitterNext]_jitterVars
             PROVE  TypeOK' /\ CountIsArrived'
  OBVIOUS
<1> USE DEF TypeOK, CountIsArrived
<1>1. ASSUME NEW p \in Packets, Arrive(p) PROVE TypeOK' /\ CountIsArrived'
  <2>1. /\ totalRTPCount' = Cardinality(arrived')
        /\ totalRTPCount' \in 0 .. Cardinality(Packets)
        /\ arrived' \in SUBSET Packets
    BY <1>1, ArrivedFinite DEF Arrive
  <2>2. p.seq \in Sequences16
    BY PacketsFinite
  <2>3. rtpDuration' \in BOOLEAN
    BY <1>1 DEF Arrive
  <2>4. lastSequence' \in Sequences16 \cup {0}
    BY <1>1, <2>2 DEF Arrive
  <2>5. late' \subseteq Packets
    BY <1>1 DEF Arrive
  <2> QED
    BY <1>1, <2>1, <2>3, <2>4, <2>5 DEF Arrive
<1>2. CASE Enqueue
  BY <1>2 DEF Enqueue
<1>3. CASE Recalculate
  <2>1. chosen' \in [{"network", "feeder"} -> Thresholds]
    BY <1>3, ThresholdType DEF Recalculate
  <2> QED
    BY <1>3, <2>1 DEF Recalculate
<1>4. CASE ResetThreshold
  BY <1>4 DEF ResetThreshold
<1>5. CASE Popup
  BY <1>5 DEF Popup
<1>6. CASE WriteAccept
  <2>1. cur' \in Packets \/ UNCHANGED <<npc, cur>> \/ npc' = "idle"
    BY <1>6 DEF WriteAccept
  <2>2. held' \subseteq Packets
    BY <1>6 DEF WriteAccept
  <2> QED
    BY <1>6, <2>1, <2>2 DEF WriteAccept
<1>7. CASE WriteTestReadable
  BY <1>7 DEF WriteTestReadable
<1>8. CASE WritePush
  <2>1. queue' \in Seq(Packets) /\ raced' \subseteq Packets
    BY <1>8, AppendProperties DEF WritePush
  <2> QED
    BY <1>8, <2>1 DEF WritePush
<1>9. CASE WriteFinish
  <2>1. writtable' \in BOOLEAN /\ writeStatus' \in {"WRITING", "END"} \cup Timeouts
    BY <1>9 DEF WriteFinish
  <2>2. held' \subseteq Packets /\ npc' = "popping"
    BY <1>9 DEF WriteFinish
  <2> QED
    BY <1>9, <2>1, <2>2 DEF WriteFinish
<1>10. CASE StartTrack
  BY <1>10 DEF StartTrack
<1>11. CASE ReadPop
  <2>1. taken' \in Seq(Packets) /\ queue' \in Seq(Packets) /\ raced' \subseteq Packets
    BY <1>11, PassedTaken DEF ReadPop
  <2>2. got' \in BOOLEAN
    BY <1>11, Zenon DEF ReadPop
  <2> QED
    BY <1>11, <2>1, <2>2 DEF ReadPop
<1>12. CASE ReadTestEmpty
  BY <1>12 DEF ReadTestEmpty
<1>13. CASE ReadTestWrite
  <2>1. readable' \in BOOLEAN
    BY <1>13, Zenon DEF ReadTestWrite
  <2> QED
    BY <1>13, <2>1 DEF ReadTestWrite
<1>14. CASE ReadReturn
  <2>1. rpc' \in {"read", "rehold"} /\ got' \in BOOLEAN
    BY <1>14, Zenon DEF ReadReturn
  <2> QED
    BY <1>14, <2>1 DEF ReadReturn
<1>15. CASE Rehold
  <2>1. chosen' \in [{"network", "feeder"} -> Thresholds]
    BY <1>15, ThresholdType DEF Rehold
  <2> QED
    BY <1>15, <2>1 DEF Rehold
<1>16. CASE ReholdReset
  BY <1>16 DEF ReholdReset
<1>17. CASE WriteTick
  BY <1>17 DEF WriteTick
<1>18. CASE WriteExpire
  <2>1. writeStatus' \in {"WRITING", "END"} \cup Timeouts
    BY <1>18 DEF WriteExpire, Timeouts
  <2>2. readable' \in BOOLEAN /\ tpc' = "idle"
    BY <1>18, Zenon DEF WriteExpire
  <2> QED
    BY <1>18, <2>1, <2>2 DEF WriteExpire
<1>19. CASE UNCHANGED jitterVars
  BY <1>19
<1> QED
  BY <1>1, <1>2, <1>3, <1>4, <1>5, <1>6, <1>7, <1>8, <1>9, <1>10, <1>11, <1>12,
     <1>13, <1>14, <1>15, <1>16, <1>17, <1>18, <1>19
  DEF JitterNext, NetworkStep, WriteStep, FeederStep, ReadStep, TimerStep
-----------------------------------------------------------------------------
(* The order of what has passed *)

Ordered == HeldIsNext /\ NewIsNext /\ WrittenIsTop /\ InOrderUnlessLate

\* A step that neither holds nor passes a packet leaves the order alone; those
\* that are late stay late.
LEMMA OrderKept ==
  ASSUME Ordered, held' \subseteq held, UNCHANGED <<passed, late>>,
         npc' = "enqueue" => npc = "enqueue" /\ cur' = cur,
         npc' \in Writing => (Top(cur))'
  PROVE  Ordered'
  BY DEF Ordered, HeldIsNext, NewIsNext, WrittenIsTop, InOrderUnlessLate

\* The packet at the top of the queue is passed: nothing that is still held was
\* to come before it, and what has passed was to come later only if it was late.
LEMMA OrderOfPop ==
  ASSUME TypeOK, Ordered, WritePush
  PROVE  Ordered'
<1> DEFINE n == Len(passed)
           p == cur
<1>0. /\ UNCHANGED <<cur, held, taken, late>> /\ queue' = Append(queue, p)
      /\ p \in held /\ Top(p) /\ npc' = "stored"
  BY DEF WritePush, Ordered, WrittenIsTop, Top
<1> HIDE DEF p
<1>1. /\ n \in Nat
      /\ Len(passed') = n + 1
      /\ \A i \in 1 .. n : passed'[i] = passed[i]
      /\ passed'[n + 1] = p
  <2>1. p \in Packets /\ queue \in Seq(Packets) /\ taken \in Seq(Packets)
    BY <1>0 DEF TypeOK
  <2>2. passed' = taken \o Append(queue, p) /\ passed = taken \o queue
    BY <1>0 DEF passed
  <2> QED
    BY <2>1, <2>2, PassedAppend
<1>2. HeldIsNext'
  <2> SUFFICES ASSUME NEW i \in 1 .. n + 1, NEW q \in held', passed'[i].seq > q.seq
               PROVE  q \in late
    BY <1>0, <1>1 DEF HeldIsNext
  <2>1. q \in held /\ p.seq \in Nat /\ q.seq \in Nat /\ p.seq <= q.seq
    BY <1>0, PacketsFinite DEF TypeOK, Top
  <2>2. i # n + 1
    BY <1>1, <2>1
  <2> QED
    BY <1>1, <2>1, <2>2 DEF Ordered, HeldIsNext
<1>3. InOrderUnlessLate'
  <2> SUFFICES ASSUME NEW i \in 1 .. n + 1, NEW j \in 1 .. n + 1,
                      i < j, passed'[i].seq > passed'[j].seq
               PROVE  passed'[j] \in late
    BY <1>0, <1>1 DEF InOrderUnlessLate
  <2>1. i \in 1 .. n /\ passed'[i] = passed[i]
    BY <1>1
  <2>2. CASE j = n + 1
    BY <1>0, <1>1, <2>1, <2>2 DEF Ordered, HeldIsNext
  <2>3. CASE j \in 1 .. n
    BY <1>1, <2>1, <2>3 DEF Ordered, InOrderUnlessLate
  <2> QED
    BY <2>2, <2>3
<1>4. NewIsNext' /\ WrittenIsTop'
  <2>1. (Top(cur))'
    BY <1>0 DEF Top, p
  <2> QED
    BY <1>0, <2>1 DEF NewIsNext, WrittenIsTop
<1> QED
  BY <1>2, <1>3, <1>4 DEF Ordered

LEMMA NextOrdered == TypeOK /\ Ordered /\ [JitterNext]_jitterVars => Ordered'
<1> SUFFICES ASSUME TypeOK, Ordered, [JitterNext]_jitterVars PROVE Ordered'
  OBVIOUS
<1> USE DEF passed
<1>1. ASSUME NEW p \in Packets, Arrive(p) PROVE Ordered'
  <2>1. /\ UNCHANGED <<held, passed>> /\ cur' = p /\ late \subseteq late'
        /\ (\E i \in 1 .. Len(passed) : passed[i].seq > p.seq) => p \in late'
        /\ npc' = "enqueue"
    BY <1>1 DEF Arrive
  <2> QED
    BY <2>1 DEF Ordered, HeldIsNext, NewIsNext, WrittenIsTop, InOrderUnlessLate
<1>2. CASE Enqueue
  <2>1. held' \subseteq held \cup {cur} /\ UNCHANGED <<passed, late>> /\ npc = "enqueue"
    BY <1>2 DEF Enqueue
  <2>2. npc' = "recalculate"
    BY <1>2 DEF Enqueue
  <2> QED
    BY <2>1, <2>2 DEF Ordered, HeldIsNext, NewIsNext, WrittenIsTop, InOrderUnlessLate
<1>3. CASE WriteAccept
  <2>1. held' \subseteq held /\ UNCHANGED <<passed, late>> /\ npc' # "enqueue"
    BY <1>3 DEF WriteAccept
  <2>2. npc' \in Writing => (Top(cur))'
    BY <1>3 DEF WriteAccept, Top
  <2> QED
    BY <2>1, <2>2, OrderKept
<1>4. CASE WriteTestReadable
  <2>1. UNCHANGED <<held, passed, late, cur>> /\ npc = "accepted" /\ npc' # "enqueue"
    BY <1>4 DEF WriteTestReadable
  <2>2. (Top(cur))'
    BY <2>1 DEF Ordered, WrittenIsTop, Top
  <2> QED
    BY <2>1, <2>2, OrderKept
<1>5. CASE WritePush
  BY <1>5, OrderOfPop
<1>6. CASE WriteFinish
  BY <1>6, OrderKept DEF WriteFinish
<1>7. CASE ReadPop
  <2>1. passed' = passed
    BY <1>7, PassedTaken DEF ReadPop, TypeOK
  <2>2. UNCHANGED <<held, late, cur, npc>>
    BY <1>7 DEF ReadPop
  <2> QED
    BY <2>1, <2>2, OrderKept DEF Ordered, WrittenIsTop, Top
<1>8. CASE Recalculate \/ ResetThreshold \/ Popup
  BY <1>8, OrderKept DEF Recalculate, ResetThreshold, Popup
<1>9. CASE StartTrack \/ ReadTestEmpty \/ ReadTestWrite \/ ReadReturn
  <2>1. UNCHANGED <<held, passed, late, cur, npc>>
    BY <1>9 DEF StartTrack, ReadTestEmpty, ReadTestWrite, ReadReturn
  <2> QED
    BY <2>1, OrderKept DEF Ordered, WrittenIsTop, Top
<1>10. CASE Rehold \/ ReholdReset \/ WriteTick \/ WriteExpire
  <2>1. UNCHANGED <<held, passed, late, cur, npc>>
    BY <1>10 DEF Rehold, ReholdReset, WriteTick, WriteExpire
  <2> QED
    BY <2>1, OrderKept DEF Ordered, WrittenIsTop, Top
<1>11. CASE UNCHANGED jitterVars
  BY <1>11, OrderKept DEF Ordered, WrittenIsTop, Top
<1> QED
  BY <1>1, <1>2, <1>3, <1>4, <1>5, <1>6, <1>7, <1>8, <1>9, <1>10, <1>11
  DEF JitterNext, NetworkStep, WriteStep, FeederStep, ReadStep, TimerStep
-----------------------------------------------------------------------------
(* The flush of the marker *)

LEMMA NextFlushed == TypeOK /\ FlushedBeforeNext /\ [JitterNext]_jitterVars => FlushedBeforeNext'
<1> SUFFICES ASSUME TypeOK, FlushedBeforeNext, [JitterNext]_jitterVars PROVE FlushedBeforeNext'
  OBVIOUS
<1> USE DEF FlushedBeforeNext
<1>1. ASSUME NEW p \in Packets, Arrive(p) PROVE FlushedBeforeNext'
  BY <1>1 DEF Arrive
<1>2. CASE Enqueue
  BY <1>2 DEF Enqueue
<1>3. CASE Recalculate \/ ResetThreshold
  BY <1>3 DEF Recalculate, ResetThreshold
<1>4. CASE Popup
  BY <1>4 DEF Popup
<1>5. CASE WriteAccept
  BY <1>5 DEF WriteAccept
<1>6. CASE WriteTestReadable \/ WritePush \/ WriteFinish
  BY <1>6 DEF WriteTestReadable, WritePush, WriteFinish
<1>7. CASE StartTrack \/ ReadPop \/ ReadTestEmpty \/ ReadTestWrite \/ ReadReturn
  BY <1>7 DEF StartTrack, ReadPop, ReadTestEmpty, ReadTestWrite, ReadReturn
<1>8. CASE Rehold \/ ReholdReset \/ WriteTick \/ WriteExpire
  BY <1>8 DEF Rehold, ReholdReset, WriteTick, WriteExpire
<1>9. CASE UNCHANGED jitterVars
  BY <1>9
<1> QED
  BY <1>1, <1>2, <1>3, <1>4, <1>5, <1>6, <1>7, <1>8, <1>9
  DEF JitterNext, NetworkStep, WriteStep, FeederStep, ReadStep, TimerStep
-----------------------------------------------------------------------------
(* The theorems *)

LEMMA InitJitterInv == JitterInit => JitterInv
<1> SUFFICES ASSUME JitterInit PROVE JitterInv
  OBVIOUS
<1>1. TypeOK /\ CountIsArrived
  BY JitterInitTypes
<1>2. passed = <<>> /\ Len(passed) = 0 /\ held = {} /\ npc = "idle"
  BY DEF JitterInit, passed
<1>3. HeldIsNext /\ NewIsNext /\ WrittenIsTop /\ FlushedBeforeNext /\ InOrderUnlessLate
  BY <1>2 DEF HeldIsNext, NewIsNext, WrittenIsTop, FlushedBeforeNext, InOrderUnlessLate
<1> QED
  BY <1>1, <1>3 DEF JitterInv

\* The inductive invariant.
THEOREM JitterInductive == JitterSpec => []JitterInv
<1>1. JitterInv /\ [JitterNext]_jitterVars => JitterInv'
  BY JitterNextTypes, NextOrdered, NextFlushed DEF JitterInv, Ordered
<1> QED
  BY InitJitterInv, <1>1, PTL DEF JitterSpec

\* The counts, switches, thresholds and packets keep their types.
THEOREM JitterTypeCorrect == JitterSpec => []TypeOK
<1>1. JitterInv => TypeOK
  BY DEF JitterInv
<1> QED
  BY JitterInductive, <1>1, PTL

\* What leaves the jitter buffer is in order but for what came too late, across
\* bursts, changes of the threshold by both threads, and the flush of the end.
THEOREM InOrderUnlessLateHolds == JitterSpec => []InOrderUnlessLate
<1>1. JitterInv => InOrderUnlessLate
  BY DEF JitterInv
<1> QED
  BY JitterInductive, <1>1, PTL

\* A stream whose marker has come has nothing held back between two packets.
THEOREM EndedIsFlushedHolds == JitterSpec => []EndedIsFlushed
<1>1. JitterInv => EndedIsFlushed
  BY DEF JitterInv, FlushedBeforeNext, EndedIsFlushed
<1> QED
  BY JitterInductive, <1>1, PTL
=============================================================================
