----------------------------- MODULE PolicyProofs -----------------------------
(***************************************************************************)
(* policy::cmdline for every command line and every key: what it answers   *)
(* is what the kernel reads, and an injected key decodes to the file's     *)
(* contents. The lemmas are about the Base64 of luks.rs; those about the   *)
(* stripping and the UCS-2 encoding on the way are in CmdlineProofs.       *)
(***************************************************************************)
EXTENDS Policy, CmdlineProofs

-----------------------------------------------------------------------------
(* Base64.                                                                 *)

LEMMA Halves ==
  ASSUME NEW n \in Nat
  PROVE  n \div 2 \in Nat /\ n % 2 \in {0, 1} /\ n % 2 = n - 2 * (n \div 2)
  OBVIOUS

\* Where the i-th bit of n bytes is.
LEMMA OctetOf ==
  ASSUME NEW i \in Nat, NEW n \in Nat, i < 8 * n
  PROVE  (i \div 8) + 1 \in 1 .. n /\ (i % 8) + 1 \in 1 .. 8
  OBVIOUS

LEMMA Weights ==
  /\ \A k \in 1 .. 8 : Weight[k] \in Nat \ {0}
  /\ Weight[1] = 128 /\ Weight[2] = 64 /\ Weight[3] = 32 /\ Weight[4] = 16
  /\ Weight[5] = 8 /\ Weight[6] = 4 /\ Weight[7] = 2 /\ Weight[8] = 1
  BY DEF Weight

LEMMA BitType ==
  ASSUME NEW data \in Seq(Octets), NEW i \in Nat
  PROVE  Bit(data, i) \in 0 .. 1
  <1>1. Len(data) \in Nat /\ \A k \in 1 .. Len(data) : data[k] \in Nat
    <2>1. Len(data) \in Nat /\ \A k \in 1 .. Len(data) : data[k] \in Octets
      OBVIOUS
    <2> QED
      BY <2>1, OctetsAreNumbers, Zenon
  <1>2. \A n \in Nat, w \in Nat \ {0} : (n \div w) % 2 \in 0 .. 1
    OBVIOUS
  <1>3. CASE i >= 8 * Len(data)
    BY <1>3 DEF Bit
  <1>4. CASE ~ (i >= 8 * Len(data))
    <2>1. (i \div 8) + 1 \in 1 .. Len(data) /\ (i % 8) + 1 \in 1 .. 8
      BY <1>1, <1>4, OctetOf
    <2>2. data[(i \div 8) + 1] \in Nat /\ Weight[(i % 8) + 1] \in Nat \ {0}
      BY <1>1, <2>1, Weights
    <2>3. (data[(i \div 8) + 1] \div Weight[(i % 8) + 1]) % 2 \in 0 .. 1
      BY <1>2, <2>2
    <2> QED
      BY <1>4, <2>3 DEF Bit
  <1> QED
    BY <1>3, <1>4

\* The characters stand for the numbers below 64.
LEMMA ValueOfAlphabet ==
  ASSUME NEW v \in 0 .. 63
  PROVE  /\ Alphabet(v) \in Octets \ (Whitespace \cup {0})
         /\ Value(Alphabet(v)) = v
  <1>1. \A u \in 0 .. 63 : Alphabet(u) = IF u < 26 THEN 65 + u
                                         ELSE IF u < 52 THEN 97 + (u - 26)
                                         ELSE IF u < 62 THEN 48 + (u - 52)
                                         ELSE IF u = 62 THEN 43 ELSE 47
    BY DEF Alphabet
  <1>2. \A u \in 0 .. 63 : Alphabet(u) = Alphabet(v) => u = v
    BY <1>1
  <1>3. Value(Alphabet(v)) = v
    BY <1>2 DEF Value
  <1> QED
    BY <1>1, <1>3 DEF Octets, Whitespace

\* A sextet spells six bits.
LEMMA BitsOfSextet ==
  ASSUME NEW data \in Seq(Octets), NEW m \in Nat
  PROVE  /\ Sextet(data, m) \in 0 .. 63
         /\ \A k \in 0 .. 5 : (Sextet(data, m) \div Weight[k + 3]) % 2 = Bit(data, 6 * m + k)
  <1> DEFINE b(k) == Bit(data, 6 * m + k)
  <1>1. PICK b0, b1, b2, b3, b4, b5 \in 0 .. 1 :
          b0 = b(0) /\ b1 = b(1) /\ b2 = b(2) /\ b3 = b(3) /\ b4 = b(4) /\ b5 = b(5)
    <2>1. /\ b(0) \in 0 .. 1 /\ b(1) \in 0 .. 1 /\ b(2) \in 0 .. 1
          /\ b(3) \in 0 .. 1 /\ b(4) \in 0 .. 1 /\ b(5) \in 0 .. 1
      BY BitType
    <2> HIDE DEF b
    <2> QED
      BY <2>1, Zenon
  <1>2. PICK n : n = Sextet(data, m) /\ n = 32 * b0 + 16 * b1 + 8 * b2 + 4 * b3 + 2 * b4 + b5
    <2>1. 6 * m + 0 = 6 * m
      OBVIOUS
    <2> QED
      BY <1>1, <2>1, Zenon DEF Sextet
  <1> HIDE DEF b
  <1>3. n = 32 * b0 + 16 * b1 + 8 * b2 + 4 * b3 + 2 * b4 + b5
    BY <1>2
  <1>4. n \in 0 .. 63
    BY <1>3
  <1>5. (n \div 32) % 2 = b0 /\ (n \div 16) % 2 = b1 /\ (n \div 8) % 2 = b2
    BY <1>3
  <1>6. (n \div 4) % 2 = b3 /\ (n \div 2) % 2 = b4
    BY <1>3
  <1>7. (n \div 1) % 2 = b5
    BY <1>3
  <1>8. ASSUME NEW k \in 0 .. 5
        PROVE  (n \div Weight[k + 3]) % 2 = b(k)
    <2>1. k = 0 \/ k = 1 \/ k = 2 \/ k = 3 \/ k = 4 \/ k = 5
      OBVIOUS
    <2>2. /\ Weight[0 + 3] = 32 /\ Weight[1 + 3] = 16 /\ Weight[2 + 3] = 8
          /\ Weight[3 + 3] = 4 /\ Weight[4 + 3] = 2 /\ Weight[5 + 3] = 1
      BY Weights
    <2> QED
      BY <1>1, <1>5, <1>6, <1>7, <2>1, <2>2, Zenon
  <1> QED
    BY <1>2, <1>4, <1>8, Zenon DEF b

\* A byte is the sum of its weighted bits.
LEMMA BitsOfOctet ==
  ASSUME NEW x \in Octets
  PROVE  x = ((x \div 128) % 2) * 128 + ((x \div 64) % 2) * 64 + ((x \div 32) % 2) * 32
             + ((x \div 16) % 2) * 16 + ((x \div 8) % 2) * 8 + ((x \div 4) % 2) * 4
             + ((x \div 2) % 2) * 2 + ((x \div 1) % 2) * 1
  <1> DEFINE h(w) == x \div w
             r(w) == (x \div w) % 2
  <1> SUFFICES x = r(128) * 128 + r(64) * 64 + r(32) * 32 + r(16) * 16
                   + r(8) * 8 + r(4) * 4 + r(2) * 2 + r(1) * 1
    OBVIOUS
  <1>1. x \in Nat /\ x < 256
    BY DEF Octets
  <1>2. h(2) = h(1) \div 2 /\ h(4) = h(2) \div 2 /\ h(8) = h(4) \div 2
    BY <1>1
  <1>3. h(16) = h(8) \div 2 /\ h(32) = h(16) \div 2 /\ h(64) = h(32) \div 2
    BY <1>1
  <1>4. h(128) = h(64) \div 2
    BY <1>1
  <1>5. /\ r(1) = h(1) % 2 /\ r(2) = h(2) % 2 /\ r(4) = h(4) % 2 /\ r(8) = h(8) % 2
        /\ r(16) = h(16) % 2 /\ r(32) = h(32) % 2 /\ r(64) = h(64) % 2
        /\ r(128) = h(128) % 2
    OBVIOUS
  <1>6. h(1) = x /\ h(1) \in Nat
    BY <1>1
  <1>7. r(128) \in 0 .. 1 /\ r(128) = h(128)
    BY <1>1
  <1> HIDE DEF h, r
  <1>8. /\ h(2) \in Nat /\ h(4) \in Nat /\ h(8) \in Nat /\ h(16) \in Nat
        /\ h(32) \in Nat /\ h(64) \in Nat /\ h(128) \in Nat
    BY <1>2, <1>3, <1>4, <1>6, Halves
  <1>9. \A n, m, q : n \in Nat /\ m = n \div 2 /\ q = n % 2 => q \in 0 .. 1 /\ q = n - 2 * m
    BY Halves
  <1>10. r(1) \in 0 .. 1 /\ r(1) = h(1) - 2 * h(2)
    BY <1>2, <1>3, <1>4, <1>5, <1>6, <1>8, <1>9, Zenon
  <1>11. r(2) \in 0 .. 1 /\ r(2) = h(2) - 2 * h(4)
    BY <1>2, <1>3, <1>4, <1>5, <1>6, <1>8, <1>9, Zenon
  <1>12. r(4) \in 0 .. 1 /\ r(4) = h(4) - 2 * h(8)
    BY <1>2, <1>3, <1>4, <1>5, <1>6, <1>8, <1>9, Zenon
  <1>13. r(8) \in 0 .. 1 /\ r(8) = h(8) - 2 * h(16)
    BY <1>2, <1>3, <1>4, <1>5, <1>6, <1>8, <1>9, Zenon
  <1>14. r(16) \in 0 .. 1 /\ r(16) = h(16) - 2 * h(32)
    BY <1>2, <1>3, <1>4, <1>5, <1>6, <1>8, <1>9, Zenon
  <1>15. r(32) \in 0 .. 1 /\ r(32) = h(32) - 2 * h(64)
    BY <1>2, <1>3, <1>4, <1>5, <1>6, <1>8, <1>9, Zenon
  <1>16. r(64) \in 0 .. 1 /\ r(64) = h(64) - 2 * h(128)
    BY <1>2, <1>3, <1>4, <1>5, <1>6, <1>8, <1>9, Zenon
  <1>17. h(1) = r(128) * 128 + r(64) * 64 + r(32) * 32 + r(16) * 16
                + r(8) * 8 + r(4) * 4 + r(2) * 2 + r(1) * 1
    BY <1>6, <1>7, <1>8, <1>10, <1>11, <1>12, <1>13, <1>14, <1>15, <1>16
  <1> QED
    BY <1>6, <1>17, Zenon

LEMMA Lengths ==
  ASSUME NEW n \in Nat
  PROVE  /\ (8 * n + 5) \div 6 \in Nat
         /\ (6 * ((8 * n + 5) \div 6)) \div 8 = n
         /\ \A i \in Nat : i < 8 * n => i \div 6 < (8 * n + 5) \div 6
  OBVIOUS

LEMMA SextetOf ==
  ASSUME NEW i \in Nat
  PROVE  i \div 6 \in Nat /\ i % 6 \in 0 .. 5 /\ 6 * (i \div 6) + (i % 6) = i
  OBVIOUS

LEMMA Base64Type ==
  ASSUME NEW data \in Seq(Octets)
  PROVE  /\ Base64(data) \in Seq(Octets \ (Whitespace \cup {0}))
         /\ Len(Base64(data)) = EncodedLen(data)
         /\ data # <<>> => EncodedLen(data) > 0
  <1>1. Len(data) \in Nat /\ (data # <<>> => Len(data) > 0)
    OBVIOUS
  <1>2. EncodedLen(data) \in Nat /\ (data # <<>> => EncodedLen(data) > 0)
    BY <1>1 DEF EncodedLen
  <1>3. \A i \in 1 .. EncodedLen(data) :
          Alphabet(Sextet(data, i - 1)) \in Octets \ (Whitespace \cup {0})
    <2> SUFFICES ASSUME NEW i \in 1 .. EncodedLen(data)
                 PROVE  Alphabet(Sextet(data, i - 1)) \in Octets \ (Whitespace \cup {0})
      OBVIOUS
    <2>1. i - 1 \in Nat
      BY <1>2
    <2>2. Sextet(data, i - 1) \in 0 .. 63
      BY <2>1, BitsOfSextet
    <2> QED
      BY <2>2, ValueOfAlphabet
  <1> QED
    BY <1>2, <1>3 DEF Base64

\* What is decoded bit by bit is what was encoded.
LEMMA DecodedBit ==
  ASSUME NEW data \in Seq(Octets), NEW i \in Nat, i < 8 * Len(data)
  PROVE  (Value(Base64(data)[(i \div 6) + 1]) \div Weight[(i % 6) + 3]) % 2 = Bit(data, i)
  <1>1. Len(data) \in Nat
    OBVIOUS
  <1>2. i \div 6 \in Nat /\ i % 6 \in 0 .. 5 /\ 6 * (i \div 6) + (i % 6) = i
    BY SextetOf
  <1>3. (i \div 6) + 1 \in 1 .. EncodedLen(data) /\ ((i \div 6) + 1) - 1 = i \div 6
    BY <1>1, <1>2, Lengths DEF EncodedLen
  <1>4. Base64(data)[(i \div 6) + 1] = Alphabet(Sextet(data, i \div 6))
    BY <1>3 DEF Base64
  <1>5. Value(Base64(data)[(i \div 6) + 1]) = Sextet(data, i \div 6)
    BY <1>2, <1>4, BitsOfSextet, ValueOfAlphabet
  <1>6. (Sextet(data, i \div 6) \div Weight[(i % 6) + 3]) % 2 = Bit(data, 6 * (i \div 6) + (i % 6))
    BY <1>2, BitsOfSextet
  <1> QED
    BY <1>2, <1>5, <1>6

\* The bits of a byte.
LEMMA BitsOfByte ==
  ASSUME NEW data \in Seq(Octets), NEW n \in 1 .. Len(data), NEW j \in 0 .. 7
  PROVE  /\ 8 * (n - 1) + j \in Nat /\ 8 * (n - 1) + j < 8 * Len(data)
         /\ Bit(data, 8 * (n - 1) + j) = (data[n] \div Weight[j + 1]) % 2
  <1> DEFINE i == 8 * (n - 1) + j
  <1>1. Len(data) \in Nat /\ n \in Nat
    OBVIOUS
  <1>2. i \in Nat /\ i < 8 * Len(data) /\ i \div 8 = n - 1 /\ i % 8 = j
    BY <1>1
  <1>3. (i \div 8) + 1 = n /\ ~ (i >= 8 * Len(data))
    BY <1>1, <1>2
  <1> HIDE DEF i
  <1>4. Bit(data, i) = (data[n] \div Weight[j + 1]) % 2
    BY <1>2, <1>3, Zenon DEF Bit
  <1> QED
    BY <1>2, <1>4 DEF i

\* A key decodes to itself, whatever its length.
THEOREM KeyDecodes ==
  ASSUME NEW data \in Seq(Octets)
  PROVE  Decoded(Base64(data)) = data
  <1> DEFINE code == Base64(data)
             bit(i) == (Value(code[(i \div 6) + 1]) \div Weight[(i % 6) + 3]) % 2
             b(n, j) == bit(8 * (n - 1) + j) * Weight[j + 1]
             sum(n) == b(n, 0) + b(n, 1) + b(n, 2) + b(n, 3)
                         + b(n, 4) + b(n, 5) + b(n, 6) + b(n, 7)
  <1>1. Len(data) \in Nat
    OBVIOUS
  <1>2. (6 * Len(code)) \div 8 = Len(data)
    BY <1>1, Base64Type, Lengths DEF EncodedLen
  <1>3. ASSUME NEW n \in 1 .. Len(data)
        PROVE  sum(n) = data[n]
    <2>1. ASSUME NEW j \in 0 .. 7
          PROVE  b(n, j) = ((data[n] \div Weight[j + 1]) % 2) * Weight[j + 1]
      <3>1. bit(8 * (n - 1) + j) = Bit(data, 8 * (n - 1) + j)
        BY BitsOfByte, DecodedBit
      <3> HIDE DEF bit
      <3> QED
        BY <3>1, BitsOfByte
    <2> HIDE DEF b
    <2>2. data[n] \in Octets
      OBVIOUS
    <2>3. /\ b(n, 0) = ((data[n] \div 128) % 2) * 128 /\ b(n, 1) = ((data[n] \div 64) % 2) * 64
          /\ b(n, 2) = ((data[n] \div 32) % 2) * 32 /\ b(n, 3) = ((data[n] \div 16) % 2) * 16
      BY <2>1, Weights
    <2>4. /\ b(n, 4) = ((data[n] \div 8) % 2) * 8 /\ b(n, 5) = ((data[n] \div 4) % 2) * 4
          /\ b(n, 6) = ((data[n] \div 2) % 2) * 2 /\ b(n, 7) = ((data[n] \div 1) % 2) * 1
      BY <2>1, Weights
    <2>5. data[n] = ((data[n] \div 128) % 2) * 128 + ((data[n] \div 64) % 2) * 64
                      + ((data[n] \div 32) % 2) * 32 + ((data[n] \div 16) % 2) * 16
                      + ((data[n] \div 8) % 2) * 8 + ((data[n] \div 4) % 2) * 4
                      + ((data[n] \div 2) % 2) * 2 + ((data[n] \div 1) % 2) * 1
      BY <2>2, BitsOfOctet, Zenon
    <2>6. data[n] = b(n, 0) + b(n, 1) + b(n, 2) + b(n, 3)
                      + b(n, 4) + b(n, 5) + b(n, 6) + b(n, 7)
      BY <2>3, <2>4, <2>5
    <2> QED
      BY <2>6, Zenon
  <1>4. Decoded(code) = [n \in 1 .. (6 * Len(code)) \div 8 |-> sum(n)]
    BY DEF Decoded
  <1> HIDE DEF sum
  <1>5. Decoded(code) = [n \in 1 .. Len(data) |-> data[n]]
    BY <1>2, <1>3, <1>4
  <1> QED
    BY <1>5

-----------------------------------------------------------------------------
(* policy::cmdline.                                                        *)

\* The one case in which a key is appended.
Injects == muak /\ ~ available /\ luks.kind = "readable" /\ luks.data # <<>>

\* What each phase knows, and what the answer is.
Decided ==
  /\ phase = "start" => answer = NoCmdline
  /\ phase = "key" => muak /\ ~ available /\ answer = NoCmdline
  /\ phase = "base" => answer = NoCmdline /\ ~ Injects
  /\ phase = "done" => answer = IF Injects THEN Combined(base, luks.data) ELSE base
  /\ phase \in {"base", "done"} /\ muak => available \/ luks.kind # "unreadable"
  /\ phase = "failed" => (muak => luks.kind = "unreadable" /\ ~ available)
                         /\ answer = NoCmdline

PolicyInv == TypeOK /\ Decided

LEMMA LuksFileType ==
  ASSUME luks \in LuksFile
  PROVE  /\ luks.data \in Seq(Octets)
         /\ luks.kind \in {"absent", "unreadable", "readable"}
         /\ luks.kind # "readable" => luks.data = <<>>
  <1>1. CASE luks \in [kind : {"absent", "unreadable"}, data : {<<>>}]
    <2>1. luks.data = <<>> /\ luks.kind \in {"absent", "unreadable"}
      BY <1>1
    <2>2. <<>> \in Seq(Octets)
      OBVIOUS
    <2> QED
      BY <2>1, <2>2
  <1>2. CASE luks \in [kind : {"readable"}, data : Keys]
    <2>1. luks.data \in Keys /\ luks.kind = "readable"
      BY <1>2
    <2> QED
      BY <2>1, KeysAssumption DEF Octets
  <1> QED
    BY <1>1, <1>2 DEF LuksFile

LEMMA BaseLineType ==
  ASSUME TypeOK
  PROVE  /\ BaseLine \in Seq(Octets)
         /\ base # NoCmdline => base \in Seq(Octets)
  <1>1. base # NoCmdline => base \in Seq(Octets)
    BY BasesAssumption DEF TypeOK, Octets
  <1> QED
    BY <1>1, StripCuts DEF BaseLine

LEMMA PrefixType ==
  LuksKeyPrefix \in Seq(Visible \cup Whitespace) /\ LuksKeyPrefix \in Seq(Octets)
  <1>1. \A i \in 1 .. 10 : LuksKeyPrefix[i] \in Octets \ {0}
    BY DEF LuksKeyPrefix, Octets
  <1>2. Octets \ {0} \subseteq Visible \cup Whitespace
    BY DEF Visible
  <1>3. LuksKeyPrefix \in Seq(Octets \ {0})
    BY DEF LuksKeyPrefix, Octets
  <1> QED
    BY <1>2, <1>3

\* The injected tail: the option's name and the key.
LEMMA InjectedTail ==
  ASSUME TypeOK, luks.data # <<>>
  PROVE  LET tail == LuksKeyPrefix \o Base64(luks.data)
         IN  /\ tail \in Seq(Visible \cup Whitespace)
             /\ Combined(base, luks.data) = BaseLine \o tail
             /\ Combined(base, luks.data) \in Seq(Octets)
             /\ Strip(Combined(base, luks.data)) = Combined(base, luks.data)
             /\ Combined(base, luks.data) # <<>>
  <1> DEFINE code == Base64(luks.data)
             tail == LuksKeyPrefix \o code
             line == BaseLine \o tail
  <1>1. luks.data \in Seq(Octets)
    BY LuksFileType DEF TypeOK
  <1>2. code \in Seq(Visible) /\ Len(code) > 0
    BY <1>1, Base64Type DEF Visible, EncodedLen
  <1>3. code \in Seq(Octets) /\ code \in Seq(Visible \cup Whitespace)
    <2>1. Visible \subseteq Octets /\ Visible \subseteq Visible \cup Whitespace
      BY DEF Visible
    <2> QED
      BY <1>2, <2>1, SeqMonotonic
  <1>4. tail \in Seq(Visible \cup Whitespace)
    BY <1>3, PrefixType, ConcatProperties
  <1>5. tail \in Seq(Octets) /\ Len(tail) = Len(LuksKeyPrefix) + Len(code)
        /\ \A i \in 1 .. Len(tail) : tail[i] =
             IF i <= Len(LuksKeyPrefix) THEN LuksKeyPrefix[i] ELSE code[i - Len(LuksKeyPrefix)]
    BY <1>3, PrefixType, ConcatProperties
  <1>6. BaseLine \in Seq(Octets)
    BY BaseLineType
  <1>7. Combined(base, luks.data) = line
    <2>1. Combined(base, luks.data) = (BaseLine \o LuksKeyPrefix) \o code
      <3>1. Strip(<<>>) = <<>>
        <4>1. <<>> \in Seq(Octets) /\ Len(<<>>) = 0
          OBVIOUS
        <4>2. PICK k \in 0 .. Len(<<>>) : Strip(<<>>) = SubSeq(<<>>, 1, k)
          BY <4>1, StripCuts
        <4> QED
          BY <4>1, <4>2, SubSeqEmpty
      <3> QED
        BY <3>1 DEF Combined, BaseLine
    <2> HIDE DEF code
    <2>2. (BaseLine \o LuksKeyPrefix) \o code = BaseLine \o (LuksKeyPrefix \o code)
      BY <1>3, <1>6, PrefixType, ConcatAssociative
    <2> QED
      BY <2>1, <2>2, Zenon
  <1> HIDE DEF code, tail
  <1>8. line \in Seq(Octets) /\ Len(line) = Len(BaseLine) + Len(tail)
        /\ \A i \in 1 .. Len(line) : line[i] =
             IF i <= Len(BaseLine) THEN BaseLine[i] ELSE tail[i - Len(BaseLine)]
    BY <1>5, <1>6, ConcatProperties
  <1>9. Len(BaseLine) \in Nat /\ Len(LuksKeyPrefix) \in Nat /\ Len(code) \in Nat
    BY <1>3, <1>6, PrefixType
  <1> HIDE DEF line
  <1>10. line[Len(line)] = tail[Len(tail)]
    <2>1. /\ Len(line) \in 1 .. Len(line) /\ ~ (Len(line) <= Len(BaseLine))
          /\ Len(line) - Len(BaseLine) = Len(tail)
      BY <1>2, <1>5, <1>8, <1>9
    <2> QED
      BY <1>8, <2>1
  <1>11. tail[Len(tail)] = code[Len(code)]
    BY <1>2, <1>5, <1>9
  <1>12. code[Len(code)] \in Visible
    BY <1>2, <1>9
  <1>13. line # <<>>
    BY <1>2, <1>5, <1>8, <1>9
  <1>14. Strip(line) = line
    BY <1>8, <1>10, <1>11, <1>12, <1>13, StripCuts
  <1> QED
    BY <1>4, <1>7, <1>8, <1>13, <1>14 DEF line, tail, code

-----------------------------------------------------------------------------
LEMMA InitEstablishesPolicyInv == Init => PolicyInv
  BY DEF Init, PolicyInv, TypeOK, Decided, Injects

LEMMA StepKeepsPolicyInv == PolicyInv /\ [Next]_vars => PolicyInv'
  <1> SUFFICES ASSUME PolicyInv, [Next]_vars PROVE PolicyInv'
    OBVIOUS
  <1> USE DEF PolicyInv
  <1>1. CASE CopyBase
    <2>1. TypeOK'
      BY <1>1, BaseLineType DEF CopyBase, TypeOK, Octets
    <2>2. Decided'
      BY <1>1 DEF CopyBase, Decided, Injects
    <2> QED
      BY <2>1, <2>2
  <1>2. CASE AskTpm
    <2>1. TypeOK'
      BY <1>2 DEF AskTpm, SearchResults, TypeOK
    <2>2. Decided'
      BY <1>2 DEF AskTpm, SearchResults, TypeOK, Decided, Injects
    <2> QED
      BY <2>1, <2>2
  <1>3. CASE ReadKey
    <2>1. TypeOK'
      <3>1. \/ phase' \in {"failed", "base"} /\ answer' = answer
            \/ /\ phase' = "done" /\ luks.data # <<>>
               /\ answer' = Combined(base, luks.data)
        BY <1>3 DEF ReadKey
      <3>2. luks.data # <<>> => Combined(base, luks.data) \in Seq(0 .. 255)
        BY InjectedTail DEF Octets
      <3>3. answer' # NoCmdline => answer' \in Seq(0 .. 255)
        BY <3>1, <3>2 DEF TypeOK
      <3>4. phase' \in {"start", "key", "base", "done", "failed"}
        BY <3>1
      <3> QED
        BY <1>3, <3>3, <3>4 DEF TypeOK, ReadKey
    <2>2. Decided'
      BY <1>3, LuksFileType DEF ReadKey, Unreadable, TypeOK, Decided, Injects
    <2> QED
      BY <2>1, <2>2
  <1>4. CASE ReturnBase
    <2>1. TypeOK'
      BY <1>4, BaseLineType DEF ReturnBase, TypeOK, Octets
    <2>2. Decided'
      BY <1>4 DEF ReturnBase, Decided, Injects
    <2> QED
      BY <2>1, <2>2
  <1>5. CASE UNCHANGED vars
    <2>1. TypeOK'
      <3>1. phase' \in {"start", "key", "base", "done", "failed"}
        BY <1>5, Zenon DEF vars, TypeOK
      <3>2. available' \in {FALSE, present'}
        BY <1>5, Zenon DEF vars, TypeOK
      <3>3. answer' # NoCmdline => answer' \in Seq(0 .. 255)
        BY <1>5, Zenon DEF vars, TypeOK
      <3>4. muak' \in BOOLEAN /\ base' \in Bases /\ present' \in BOOLEAN
        BY <1>5, Zenon DEF vars, TypeOK
      <3>5. luks' \in LuksFile
        <4>1. luks' = luks /\ luks \in LuksFile
          BY <1>5 DEF vars, TypeOK
        <4> QED
          BY <4>1, Zenon
      <3> QED
        BY <3>1, <3>2, <3>3, <3>4, <3>5, Zenon DEF TypeOK
    <2>2. Decided'
      BY <1>5 DEF vars, Decided, Injects
    <2> QED
      BY <2>1, <2>2
  <1> QED
    BY <1>1, <1>2, <1>3, <1>4, <1>5 DEF Next

THEOREM PolicyInvariant == Spec => []PolicyInv
  BY InitEstablishesPolicyInv, StepKeepsPolicyInv, PTL DEF Spec

\* Every variable of policy::cmdline stays in its type.
THEOREM PolicyTypeCorrect == Spec => []TypeOK
  BY PolicyInvariant, PTL DEF PolicyInv

\* A muak build fails for a key file that is there and cannot be read, unless a
\* TPM2 answers, and for nothing else.
THEOREM PolicyStopsForUnreadableKey == Spec => []UnreadableKeyStopsBoot
  <1>1. PolicyInv => UnreadableKeyStopsBoot
    BY DEF PolicyInv, Decided, UnreadableKeyStopsBoot
  <1> QED
    BY <1>1, PolicyInvariant, PTL

\* What main takes policy::cmdline to answer (Answers in Stub.tla): the line it
\* was given or, in a muak build without a TPM2, that line without its trailing
\* terminators and behind it an option, which is a string of bytes.
THEOREM PolicyAnswersAsMainExpects ==
  Spec => [](phase = "done" =>
               \/ answer = base
               \/ \E option \in Seq(Octets) :
                    muak /\ ~ available /\ answer = BaseLine \o option)
  <1>1. PolicyInv =>
          (phase = "done" =>
             \/ answer = base
             \/ \E option \in Seq(Octets) :
                  muak /\ ~ available /\ answer = BaseLine \o option)
    <2> SUFFICES ASSUME PolicyInv, phase = "done", Injects
                 PROVE  \E option \in Seq(Octets) :
                          muak /\ ~ available /\ answer = BaseLine \o option
      BY DEF PolicyInv, Decided
    <2> DEFINE tail == LuksKeyPrefix \o Base64(luks.data)
    <2>1. answer = Combined(base, luks.data) /\ luks.data # <<>> /\ TypeOK
      BY DEF PolicyInv, Decided, Injects
    <2>2. answer = BaseLine \o tail /\ tail \in Seq(Visible \cup Whitespace)
      BY <2>1, InjectedTail
    <2> HIDE DEF tail
    <2>3. tail \in Seq(Octets)
      <3>1. Visible \cup Whitespace \subseteq Octets
        BY DEF Visible, Whitespace, Octets
      <3> QED
        BY <2>2, <3>1, SeqMonotonic
    <2>4. muak /\ ~ available
      BY DEF Injects
    <2> QED
      BY <2>2, <2>3, <2>4, Zenon
  <1> QED
    BY <1>1, PolicyInvariant, PTL

\* start finds nothing to set exactly if there is neither a line nor a key.
LEMMA SetsNothing ==
  ASSUME PolicyInv, phase = "done"
  PROVE  /\ NothingToSet(answer) <=> BaseLine = <<>> /\ NoKey
         /\ Injects <=> ~ NoKey
  <1>1. TypeOK /\ (Injects <=> ~ NoKey)
    BY LuksFileType DEF PolicyInv, TypeOK, Injects, NoKey
  <1>2. CASE Injects
    <2>1. answer = Combined(base, luks.data) /\ luks.data # <<>>
      BY <1>2 DEF PolicyInv, Decided, Injects
    <2>2. answer \in Seq(Octets) /\ Strip(answer) = answer /\ answer # <<>>
      BY <1>1, <2>1, InjectedTail
    <2>3. answer # NoCmdline
      BY <2>2, OctetsAreNumbers, SeqMonotonic, NoCmdlineAssumption
    <2> QED
      BY <1>1, <1>2, <2>2, <2>3 DEF NothingToSet, IsBlank
  <1>3. CASE ~ Injects
    <2>1. answer = base
      BY <1>3 DEF PolicyInv, Decided
    <2> QED
      BY <1>1, <1>3, <2>1 DEF NothingToSet, IsBlank, BaseLine
  <1> QED
    BY <1>1, <1>2, <1>3

\* What a kernel reads of an answer that is set.
LEMMA ReadsAnswer ==
  ASSUME PolicyInv, phase = "done", ~ NothingToSet(answer)
  PROVE  \E tail \in Seq(Visible \cup Whitespace) :
           /\ KernelLine = KernelReads(Ucs2(BaseLine \o tail))
           /\ Injects => tail = LuksKeyPrefix \o Base64(luks.data)
           /\ ~ Injects => tail = <<>>
  <1>1. BaseLine \in Seq(Octets) /\ TypeOK /\ KernelLine = KernelReads(Ucs2(Strip(answer)))
    BY BaseLineType DEF PolicyInv, KernelLine, Encoded
  <1>2. CASE Injects
    <2>1. answer = Combined(base, luks.data) /\ luks.data # <<>>
      BY <1>2 DEF PolicyInv, Decided, Injects
    <2> QED
      BY <1>1, <1>2, <2>1, InjectedTail
  <1>3. CASE ~ Injects
    <2>1. answer = base /\ BaseLine \o <<>> = BaseLine /\ <<>> \in Seq(Visible \cup Whitespace)
      BY <1>1, <1>3, ConcatEmptySeq DEF PolicyInv, Decided
    <2>2. Strip(answer) = BaseLine
      BY <2>1 DEF BaseLine, NothingToSet
    <2> QED
      BY <1>1, <1>3, <2>1, <2>2
  <1> QED
    BY <1>2, <1>3

\* Whether a line is clean is whether it holds no NUL.
LEMMA CleanBaseLine ==
  ASSUME TypeOK
  PROVE  CleanBase <=> 0 \notin Range(BaseLine)
  <1>1. CASE base = NoCmdline
    BY <1>1 DEF CleanBase, BaseLine, Range
  <1>2. CASE base # NoCmdline
    BY <1>2 DEF CleanBase, BaseLine, HasInnerNul
  <1> QED
    BY <1>1, <1>2

\* The kernel reads the UKI's command line first, or with neither a line nor a
\* key the load options that the stub was started with.
THEOREM PolicyBaseReachesKernel == Spec => []BaseReachesKernel
  <1>1. PolicyInv => BaseReachesKernel
    <2> SUFFICES ASSUME PolicyInv, phase = "done" PROVE BaseReachesKernel
      BY DEF BaseReachesKernel
    <2>1. TypeOK /\ BaseLine \in Seq(Octets)
      BY BaseLineType DEF PolicyInv
    <2>2. CASE BaseLine = <<>> /\ NoKey
      BY <2>2, SetsNothing DEF BaseReachesKernel, KernelLine
    <2>3. CASE ~ (BaseLine = <<>> /\ NoKey)
      <3>1. PICK tail \in Seq(Visible \cup Whitespace) :
              /\ KernelLine = KernelReads(Ucs2(BaseLine \o tail))
              /\ NoKey => tail = <<>>
        BY <2>3, SetsNothing, ReadsAnswer
      <3>2. tail \in Seq(Octets)
        <4>1. Visible \cup Whitespace \subseteq Octets
          BY DEF Visible, Whitespace, Octets
        <4> QED
          BY <4>1, SeqMonotonic
      <3>3. CASE CleanBase
        <4>1. KernelLine = BaseLine \o tail
          BY <2>1, <3>1, <3>3, ReadsLineAndTail, CleanBaseLine
        <4>2. IsPrefix(BaseLine, KernelLine)
          BY <2>1, <3>2, <4>1, PrefixOfConcat
        <4>3. NoKey => KernelLine = BaseLine
          BY <2>1, <3>1, <4>1, ConcatEmptySeq
        <4> QED
          BY <2>3, <3>3, <4>2, <4>3 DEF BaseReachesKernel
      <3>4. CASE ~ CleanBase
        BY <2>1, <2>3, <3>1, <3>4, ReadsLineAndTail, CleanBaseLine DEF BaseReachesKernel
      <3> QED
        BY <3>3, <3>4
    <2> QED
      BY <2>2, <2>3
  <1> QED
    BY <1>1, PolicyInvariant, PTL

\* An injected key arrives, one word behind the option's name, and decodes to
\* the file's contents.
THEOREM PolicyKeyReachesKernel == Spec => []KeyReachesKernel
  <1>1. PolicyInv => KeyReachesKernel
    <2> SUFFICES ASSUME PolicyInv, phase = "done", CleanBase, muak, ~ available,
                        luks.data # <<>>
                 PROVE  KeyReachesKernel
      BY DEF KeyReachesKernel
    <2> DEFINE key   == Base64(luks.data)
               start == Len(BaseLine) + Len(LuksKeyPrefix)
               code  == SubSeq(KernelLine, start + 1, Len(KernelLine))
    <2>1. TypeOK /\ BaseLine \in Seq(Octets) /\ LuksKeyPrefix \in Seq(Octets)
      BY BaseLineType, PrefixType DEF PolicyInv
    <2>2. luks.data \in Seq(Octets) /\ Injects
      BY <2>1, LuksFileType DEF Injects, TypeOK
    <2>3. key \in Seq(Visible) /\ key \in Seq(Octets) /\ Len(key) > 0
      <3>1. key \in Seq(Visible) /\ Len(key) > 0
        BY <2>2, Base64Type DEF Visible, EncodedLen
      <3>2. Visible \subseteq Octets
        BY DEF Visible
      <3> QED
        BY <3>1, <3>2, SeqMonotonic
    <2>4. Decoded(key) = luks.data
      BY <2>2, KeyDecodes
    <2> HIDE DEF key
    <2>5. KernelLine = BaseLine \o (LuksKeyPrefix \o key)
      <3>1. PICK tail \in Seq(Visible \cup Whitespace) :
              /\ KernelLine = KernelReads(Ucs2(BaseLine \o tail))
              /\ tail = LuksKeyPrefix \o key
        BY <2>2, SetsNothing, ReadsAnswer DEF key
      <3> QED
        BY <2>1, <3>1, ReadsLineAndTail, CleanBaseLine
    <2> DEFINE before == BaseLine \o LuksKeyPrefix
    <2>6. KernelLine = before \o key
      BY <2>1, <2>3, <2>5, ConcatAssociative
    <2>7. before \in Seq(Octets) /\ Len(before) = start
      BY <2>1, ConcatProperties
    <2> HIDE DEF before
    <2>8. IsPrefix(before, KernelLine)
      BY <2>3, <2>6, <2>7, PrefixOfConcat
    <2>9. /\ Len(KernelLine) = start + Len(key) /\ start \in Nat /\ Len(key) \in Nat
          /\ \A i \in 1 .. Len(key) : KernelLine[start + i] = key[i]
      <3>1. Len(before) \in Nat /\ Len(key) \in Nat
        BY <2>3, <2>7
      <3>2. /\ Len(KernelLine) = Len(before) + Len(key)
            /\ \A i \in 1 .. Len(before) + Len(key) : KernelLine[i] =
                 IF i <= Len(before) THEN before[i] ELSE key[i - Len(before)]
        <4> HIDE DEF start
        <4>1. /\ Len(before \o key) = Len(before) + Len(key)
              /\ \A i \in 1 .. Len(before) + Len(key) : (before \o key)[i] =
                   IF i <= Len(before) THEN before[i] ELSE key[i - Len(before)]
          BY <2>3, <2>7, ConcatProperties
        <4> QED
          BY <2>6, <4>1, Zenon
      <3> HIDE DEF start
      <3>3. ASSUME NEW i \in 1 .. Len(key)
            PROVE  KernelLine[Len(before) + i] = key[i]
        <4>1. /\ Len(before) + i \in 1 .. Len(before) + Len(key)
              /\ ~ (Len(before) + i <= Len(before)) /\ (Len(before) + i) - Len(before) = i
          BY <3>1
        <4> QED
          BY <3>2, <4>1
      <3> QED
        BY <2>7, <3>1, <3>2, <3>3
    <2> HIDE DEF start
    <2>10. code = key
      <3>1. \A i \in start + 1 .. Len(KernelLine) : KernelLine[i] \in Octets
        <4> TAKE i \in start + 1 .. Len(KernelLine)
        <4>1. i - start \in 1 .. Len(key) /\ start + (i - start) = i
          BY <2>9
        <4>2. KernelLine[i] = key[i - start]
          BY <2>9, <4>1
        <4> QED
          BY <2>3, <4>1, <4>2
      <3>2. start + 1 \in Int /\ Len(KernelLine) \in Int
        BY <2>9
      <3>3. /\ code \in Seq(Octets)
            /\ Len(code) = IF start + 1 <= Len(KernelLine)
                           THEN Len(KernelLine) - (start + 1) + 1 ELSE 0
            /\ \A i \in 1 .. Len(KernelLine) - (start + 1) + 1 :
                 code[i] = KernelLine[(start + 1) + i - 1]
        BY <3>1, <3>2, SubSeqProperties
      <3> HIDE DEF code
      <3>4. Len(code) = Len(key)
        BY <2>3, <2>9, <3>3
      <3>5. \A i \in 1 .. Len(code) : code[i] = key[i]
        <4> TAKE i \in 1 .. Len(code)
        <4>1. i \in 1 .. Len(KernelLine) - (start + 1) + 1 /\ (start + 1) + i - 1 = start + i
          BY <2>9, <3>4
        <4> QED
          BY <2>9, <3>3, <3>4, <4>1
      <3> QED
        BY <2>3, <3>3, <3>4, <3>5, SeqEqual
    <2>11. Range(key) \cap (Whitespace \cup {0}) = {}
      <3>1. Range(key) \subseteq Visible
        BY <2>3, RangeOfSeq
      <3> QED
        BY <3>1 DEF Visible
    <2> HIDE DEF code
    <2>12. Range(code) \cap (Whitespace \cup {0}) = {} /\ Decoded(code) = luks.data
      BY <2>4, <2>10, <2>11
    <2> QED
      BY <2>8, <2>12 DEF KeyReachesKernel, before, code, start
  <1> QED
    BY <1>1, PolicyInvariant, PTL
=============================================================================
