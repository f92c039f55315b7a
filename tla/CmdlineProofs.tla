----------------------------- MODULE CmdlineProofs -----------------------------
(***************************************************************************)
(* The stripping and the UCS-2 encoding of cmdline.rs, for every sequence  *)
(* of bytes: what strip_trailing_terminators cuts, and what a kernel reads *)
(* of what encode_ucs2 leaves. The proofs of the policy and of main cite   *)
(* these facts.                                                            *)
(***************************************************************************)
EXTENDS Cmdline, SequenceTheorems, WellFoundedInduction, TLAPS

Octets == 0 .. 255

LEMMA OctetsAreNumbers == Octets \subseteq Nat
  BY DEF Octets

\* A set of positions that is not empty has a least and a greatest element.
LEMMA FirstOf ==
  ASSUME NEW n \in Nat, NEW S \in SUBSET (1 .. n), S # {}
  PROVE  Min(S) \in S /\ \A i \in S : Min(S) <= i
  <1> DEFINE R == {p \in Nat \X Nat : p[1] < p[2]}
  <1>1. IsWellFoundedOn(R, Nat) /\ S \subseteq Nat
    BY NatLessThanWellFounded DEF OpToRel
  <1>2. PICK x \in S : \A y \in S : ~ (<<y, x>> \in R)
    BY <1>1, WFMin
  <1>3. \A y \in S : x <= y
    <2> TAKE y \in S
    <2>1. x \in Nat /\ y \in Nat
      BY <1>1
    <2>2. ~ (y < x)
      BY <1>2, <2>1
    <2> QED
      BY <2>1, <2>2
  <1> QED
    BY <1>3 DEF Min

LEMMA LastOf ==
  ASSUME NEW n \in Nat, NEW S \in SUBSET (1 .. n), S # {}
  PROVE  Max(S) \in S /\ \A i \in S : i <= Max(S)
  <1> DEFINE T == {n + 1 - i : i \in S}
  <1>1. \A i \in S : n + 1 - i \in 1 .. n /\ n + 1 - i \in T
    OBVIOUS
  <1>2. T \in SUBSET (1 .. n) /\ T # {}
    BY <1>1
  <1>3. Min(T) \in T /\ \A y \in T : Min(T) <= y
    BY <1>2, FirstOf
  <1>4. PICK k \in S : Min(T) = n + 1 - k
    BY <1>3
  <1>5. \A i \in S : i <= k
    <2> TAKE i \in S
    <2>1. Min(T) <= n + 1 - i
      BY <1>1, <1>3
    <2> QED
      BY <1>4, <2>1
  <1> QED
    BY <1>5 DEF Max

Visible == Octets \ (Whitespace \cup {0})

LEMMA StripCuts ==
  ASSUME NEW data \in Seq(Octets)
  PROVE  /\ \E k \in 0 .. Len(data) : Strip(data) = SubSeq(data, 1, k)
         /\ Strip(data) \in Seq(Octets)
         /\ data # <<>> /\ data[Len(data)] \in Visible => Strip(data) = data
  <1> DEFINE I == {i \in 1 .. Len(data) : data[i] # 0 /\ data[i] \notin Whitespace}
             k == IF I # {} THEN Max(I) ELSE 0
  <1>1. Len(data) \in Nat /\ I \in SUBSET (1 .. Len(data))
    OBVIOUS
  <1>2. Strip(data) = SubSeq(data, 1, k)
    BY DEF Strip, SelectLastInSeq
  <1>3. I # {} => Max(I) \in I /\ \A i \in I : i <= Max(I)
    BY <1>1, LastOf
  <1>4. k \in 0 .. Len(data)
    BY <1>1, <1>3
  <1>5. Strip(data) \in Seq(Octets)
    <2>1. \A i \in 1 .. k : data[i] \in Octets
      BY <1>1, <1>4
    <2>2. k \in Int
      BY <1>1, <1>4
    <2> HIDE DEF k
    <2> QED
      BY <1>2, <2>1, <2>2, SubSeqProperties
  <1>6. data # <<>> /\ data[Len(data)] \in Visible => k = Len(data)
    BY <1>1, <1>3 DEF Visible
  <1>7. SubSeq(data, 1, Len(data)) = data
    OBVIOUS
  <1> QED
    BY <1>2, <1>4, <1>5, <1>6, <1>7

\* A kernel reads an encoded line up to its first NUL.
LEMMA ReadsToFirstNul ==
  ASSUME NEW cmd \in Seq(Octets)
  PROVE  \E f \in 1 .. Len(cmd) + 1 :
           /\ KernelReads(Ucs2(cmd)) = SubSeq(cmd, 1, f - 1)
           /\ \A i \in 1 .. f - 1 : cmd[i] # 0
           /\ f <= Len(cmd) => cmd[f] = 0
  <1> DEFINE n     == Len(cmd)
             units == Units(Ucs2(cmd))
             ends  == {i \in 1 .. Len(units) : units[i] = 0}
  <1>1. n \in Nat /\ \A i \in 1 .. n : cmd[i] \in Nat
    <2>1. n \in Nat /\ \A i \in 1 .. n : cmd[i] \in Octets
      OBVIOUS
    <2> QED
      BY <2>1, OctetsAreNumbers
  <1>2. Len(Ucs2(cmd)) = 2 * (n + 1) /\ (2 * (n + 1)) \div 2 = n + 1
    BY <1>1 DEF Ucs2
  <1>3. ASSUME NEW i \in 1 .. n + 1
        PROVE  /\ Ucs2(cmd)[2 * i - 1] = IF i <= n THEN cmd[i] ELSE 0
               /\ Ucs2(cmd)[2 * i] = 0
    <2>1. /\ 2 * i - 1 \in 1 .. 2 * (n + 1) /\ 2 * i \in 1 .. 2 * (n + 1)
          /\ (2 * i - 1) % 2 = 1 /\ (2 * i) % 2 = 0 /\ ((2 * i - 1) + 1) \div 2 = i
          /\ 2 * i - 1 <= 2 * n <=> i <= n
      BY <1>1
    <2>2. Ucs2(cmd)[2 * i - 1] = IF i <= n THEN cmd[i] ELSE 0
      BY <2>1 DEF Ucs2
    <2>3. Ucs2(cmd)[2 * i] = 0
      BY <2>1 DEF Ucs2
    <2> QED
      BY <2>2, <2>3
  <1>4. units = [i \in 1 .. n + 1 |-> Ucs2(cmd)[2 * i - 1] + 256 * Ucs2(cmd)[2 * i]]
    BY <1>2 DEF Units
  <1>5. ASSUME NEW i \in 1 .. n + 1
        PROVE  units[i] = IF i <= n THEN cmd[i] ELSE 0
    <2> HIDE DEF units
    <2>1. units[i] = (IF i <= n THEN cmd[i] ELSE 0) + 256 * 0
      BY <1>3, <1>4
    <2> QED
      BY <1>1, <2>1
  <1>6. Len(units) = n + 1
    BY <1>1, <1>4
  <1> HIDE DEF units
  <1>7. n + 1 \in ends /\ ends \in SUBSET (1 .. n + 1)
    BY <1>1, <1>5, <1>6
  <1>8. Min(ends) \in ends /\ \A i \in ends : Min(ends) <= i
    <2>1. n + 1 \in Nat
      BY <1>1
    <2> HIDE DEF ends
    <2> QED
      BY <1>7, <2>1, FirstOf
  <1>9. KernelReads(Ucs2(cmd)) = SubSeq(units, 1, Min(ends) - 1)
    BY <1>7 DEF KernelReads, units
  <1>10. Min(ends) \in 1 .. n + 1 /\ units[Min(ends)] = 0
    BY <1>6, <1>8
  <1>11. \A i \in 1 .. Min(ends) - 1 : units[i] # 0
    BY <1>6, <1>8, <1>10
  <1> DEFINE f == Min(ends)
  <1> HIDE DEF ends, f
  <1>12. f \in 1 .. n + 1 /\ units[f] = 0 /\ \A i \in 1 .. f - 1 : units[i] # 0
    BY <1>10, <1>11 DEF f
  <1>13. \A i \in 1 .. f - 1 : i \in 1 .. n /\ i \in 1 .. n + 1 /\ units[i] = cmd[i]
    BY <1>1, <1>5, <1>12
  <1>14. SubSeq(units, 1, f - 1) = SubSeq(cmd, 1, f - 1)
    BY <1>12, <1>13
  <1> QED
    BY <1>1, <1>5, <1>9, <1>12, <1>13, <1>14 DEF f

\* A kernel reads a line with text behind it whole, or ends at a NUL in it.
LEMMA ReadsLineAndTail ==
  ASSUME NEW line \in Seq(Octets), NEW tail \in Seq(Visible \cup Whitespace)
  PROVE  LET read == KernelReads(Ucs2(line \o tail))
         IN  /\ 0 \notin Range(line) => read = line \o tail
             /\ 0 \in Range(line) =>
                  /\ IsStrictPrefix(read, line)
                  /\ 0 \notin Range(read) /\ line[Len(read) + 1] = 0
  <1> DEFINE cmd  == line \o tail
             read == KernelReads(Ucs2(cmd))
             n    == Len(line)
  <1>1. tail \in Seq(Octets) /\ \A i \in 1 .. Len(tail) : tail[i] # 0
    <2>1. \A i \in 1 .. Len(tail) : tail[i] \in Visible \cup Whitespace
      OBVIOUS
    <2>2. Visible \cup Whitespace \subseteq Octets /\ 0 \notin Visible \cup Whitespace
      BY DEF Visible, Whitespace, Octets
    <2>3. \A i \in 1 .. Len(tail) : tail[i] \in Octets /\ tail[i] # 0
      BY <2>1, <2>2
    <2> QED
      BY <2>3
  <1>2. /\ cmd \in Seq(Octets) /\ Len(cmd) = n + Len(tail)
        /\ \A i \in 1 .. Len(cmd) : cmd[i] = IF i <= n THEN line[i] ELSE tail[i - n]
        /\ n \in Nat /\ Len(tail) \in Nat
    BY <1>1, ConcatProperties
  <1>3. Range(line) = {line[i] : i \in 1 .. n}
    BY RangeEquality
  <1> HIDE DEF cmd
  <1>4. PICK f \in 1 .. Len(cmd) + 1 :
          /\ read = SubSeq(cmd, 1, f - 1)
          /\ \A i \in 1 .. f - 1 : cmd[i] # 0
          /\ f <= Len(cmd) => cmd[f] = 0
    BY <1>2, ReadsToFirstNul
  <1>5. ASSUME 0 \notin Range(line)
        PROVE  read = cmd
    <2>1. \A i \in 1 .. Len(cmd) : cmd[i] # 0
      <3> TAKE i \in 1 .. Len(cmd)
      <3>1. CASE i <= n
        BY <1>2, <1>3, <1>5, <3>1
      <3>2. CASE ~ (i <= n)
        <4>1. i - n \in 1 .. Len(tail)
          BY <1>2, <3>2
        <4> QED
          BY <1>1, <1>2, <3>2, <4>1
      <3> QED
        BY <3>1, <3>2
    <2>2. f = Len(cmd) + 1
      BY <1>2, <1>4, <2>1
    <2> QED
      BY <1>2, <1>4, <2>2
  <1>6. ASSUME 0 \in Range(line)
        PROVE  /\ IsStrictPrefix(read, line)
               /\ 0 \notin Range(read) /\ line[Len(read) + 1] = 0
    <2>1. PICK k \in 1 .. n : line[k] = 0
      BY <1>3, <1>6
    <2>2. k \in 1 .. Len(cmd) /\ cmd[k] = 0
      BY <1>2, <2>1
    <2>3. f \in 1 .. n /\ f <= k
      BY <1>2, <1>4, <2>1, <2>2
    <2>4. \A i \in 1 .. f : i \in 1 .. Len(cmd) /\ cmd[i] = line[i]
      BY <1>2, <2>3
    <2>5. line[f] = 0
      BY <1>2, <1>4, <2>3, <2>4
    <2>6. /\ read \in Seq(Octets) /\ Len(read) = f - 1
          /\ \A i \in 1 .. f - 1 : read[i] = line[i] /\ read[i] # 0
      <3>1. \A i \in 1 .. f - 1 : cmd[i] \in Octets /\ cmd[i] = line[i]
        BY <1>2, <2>3, <2>4
      <3>2. /\ SubSeq(cmd, 1, f - 1) \in Seq(Octets)
            /\ Len(SubSeq(cmd, 1, f - 1)) = f - 1
            /\ \A i \in 1 .. f - 1 : SubSeq(cmd, 1, f - 1)[i] = cmd[i]
        BY <1>2, <2>3, <3>1, SubSeqProperties
      <3> QED
        BY <1>4, <3>1, <3>2
    <2> HIDE DEF read
    <2>7. SubSeq(read, 1, Len(read)) = SubSeq(line, 1, Len(read))
      BY <2>3, <2>6
    <2>8. read # line
      BY <1>2, <2>3, <2>6
    <2>9. 0 \notin Range(read)
      BY <2>6, RangeEquality
    <2> QED
      BY <1>2, <2>3, <2>5, <2>6, <2>7, <2>8, <2>9 DEF IsStrictPrefix, IsPrefix
  <1> QED
    BY <1>5, <1>6 DEF cmd

LEMMA PrefixOfConcat ==
  ASSUME NEW s \in Seq(Octets), NEW t \in Seq(Octets)
  PROVE  IsPrefix(s, s \o t)
  <1>1. /\ Len(s \o t) = Len(s) + Len(t) /\ Len(s) \in Nat /\ Len(t) \in Nat
        /\ \A i \in 1 .. Len(s) : (s \o t)[i] = s[i]
    BY ConcatProperties
  <1>2. SubSeq(s, 1, Len(s)) = SubSeq(s \o t, 1, Len(s))
    BY <1>1
  <1> QED
    BY <1>1, <1>2 DEF IsPrefix

-----------------------------------------------------------------------------
(* What is put behind a stripped line.                                     *)

LEMMA StrippedEnd ==
  ASSUME NEW data \in Seq(Octets), Strip(data) # <<>>
  PROVE  Strip(data)[Len(Strip(data))] \in Visible
  <1> DEFINE I == {i \in 1 .. Len(data) : data[i] # 0 /\ data[i] \notin Whitespace}
             k == IF I # {} THEN Max(I) ELSE 0
  <1>1. Len(data) \in Nat /\ I \in SUBSET (1 .. Len(data))
    OBVIOUS
  <1>2. Strip(data) = SubSeq(data, 1, k)
    BY DEF Strip, SelectLastInSeq
  <1>3. I # {}
    <2> SUFFICES ASSUME I = {} PROVE FALSE
      OBVIOUS
    <2>1. Strip(data) = SubSeq(data, 1, 0)
      BY <1>2
    <2> QED
      BY <2>1
  <1>4. Max(I) \in I
    BY <1>1, <1>3, LastOf
  <1> HIDE DEF I
  <1>5. k \in 1 .. Len(data) /\ data[k] \in Visible
    <2>1. k \in I
      BY <1>3, <1>4
    <2>2. k \in 1 .. Len(data) /\ data[k] # 0 /\ data[k] \notin Whitespace
      BY <2>1 DEF I
    <2> QED
      BY <2>2 DEF Visible
  <1> HIDE DEF k
  <1>6. Len(SubSeq(data, 1, k)) = k /\ SubSeq(data, 1, k)[k] = data[k]
    BY <1>1, <1>5
  <1> QED
    BY <1>2, <1>5, <1>6

\* Stripping again cuts nothing more, and stripping a line with something
\* behind it cuts only of that.
LEMMA StripKeepsStripped ==
  ASSUME NEW data \in Seq(Octets), NEW tail \in Seq(Octets)
  PROVE  /\ Strip(Strip(data)) = Strip(data)
         /\ IsPrefix(Strip(data), Strip(Strip(data) \o tail))
         /\ Strip(Strip(data) \o tail) \in Seq(Octets)
  <1> DEFINE line == Strip(data)
             all  == line \o tail
             n    == Len(line)
             I    == {i \in 1 .. Len(all) : all[i] # 0 /\ all[i] \notin Whitespace}
             k    == IF I # {} THEN Max(I) ELSE 0
  <1>1. line \in Seq(Octets) /\ n \in Nat
    BY StripCuts
  <1>2. line # <<>> => line[n] \in Visible
    BY StrippedEnd
  <1> HIDE DEF line
  <1>3. Strip(line) = line
    <2>1. CASE line = <<>>
      <3>1. PICK m \in 0 .. Len(line) : Strip(line) = SubSeq(line, 1, m)
        BY <1>1, StripCuts
      <3> QED
        BY <2>1, <3>1, SubSeqEmpty
    <2>2. CASE line # <<>>
      BY <1>1, <1>2, <2>2, StripCuts
    <2> QED
      BY <2>1, <2>2
  <1>4. /\ all \in Seq(Octets) /\ Len(all) = n + Len(tail) /\ Len(tail) \in Nat
        /\ \A i \in 1 .. n : all[i] = line[i]
    BY <1>1, ConcatProperties
  <1> HIDE DEF all
  <1>5. Strip(all) = SubSeq(all, 1, k)
    BY DEF Strip, SelectLastInSeq
  <1>6. I \in SUBSET (1 .. Len(all)) /\ Len(all) \in Nat
    BY <1>1, <1>4
  <1>7. n > 0 => n \in I
    <2> SUFFICES ASSUME n > 0 PROVE n \in I
      OBVIOUS
    <2>1. line[n] # 0 /\ line[n] \notin Whitespace
      BY <1>1, <1>2 DEF Visible
    <2>2. n \in 1 .. Len(all) /\ all[n] = line[n]
      BY <1>1, <1>4
    <2> QED
      BY <2>1, <2>2
  <1>8. I # {} => Max(I) \in I /\ \A i \in I : i <= Max(I)
    BY <1>6, LastOf
  <1>9. k \in n .. Len(all)
    <2> HIDE DEF I
    <2>1. CASE I = {}
      <3>1. ~ (n > 0) /\ k = 0
        BY <1>7, <2>1
      <3> HIDE DEF k
      <3> QED
        BY <1>1, <1>6, <3>1
    <2>2. CASE I # {}
      <3>1. k = Max(I) /\ Max(I) \in I
        BY <1>8, <2>2
      <3>2. k \in 1 .. Len(all) /\ \A i \in I : i <= k
        BY <1>6, <1>8, <3>1
      <3> HIDE DEF k
      <3>3. n > 0 => n <= k
        BY <1>7, <3>2
      <3> QED
        BY <1>1, <1>6, <3>2, <3>3
    <2> QED
      BY <2>1, <2>2
  <1> HIDE DEF k, I
  <1>10. /\ Len(SubSeq(all, 1, k)) = k
         /\ \A i \in 1 .. n : SubSeq(all, 1, k)[i] = line[i]
    <2>1. /\ Len(SubSeq(all, 1, k)) = k
          /\ \A i \in 1 .. k : SubSeq(all, 1, k)[i] = all[i]
      BY <1>1, <1>4, <1>9
    <2> QED
      BY <1>1, <1>4, <1>9, <2>1
  <1>11. IsPrefix(line, Strip(all))
    <2> DEFINE cut == Strip(all)
    <2>1. /\ Len(cut) = k /\ \A i \in 1 .. n : cut[i] = line[i]
      BY <1>5, <1>10
    <2> HIDE DEF cut
    <2>2. SubSeq(line, 1, n) = SubSeq(cut, 1, n)
      BY <1>1, <2>1
    <2> QED
      BY <1>1, <1>9, <2>1, <2>2 DEF IsPrefix, cut
  <1>12. Strip(all) \in Seq(Octets)
    BY <1>4, StripCuts
  <1> QED
    BY <1>3, <1>11, <1>12 DEF all, line

\* A kernel reads past what comes up front and holds no NUL.
LEMMA ReadsCleanFront ==
  ASSUME NEW line \in Seq(Octets), NEW cmd \in Seq(Octets), IsPrefix(line, cmd),
         0 \notin Range(line)
  PROVE  IsPrefix(line, KernelReads(Ucs2(cmd)))
  <1> DEFINE n == Len(line)
  <1>1. /\ n \in Nat /\ n <= Len(cmd) /\ Len(cmd) \in Nat
        /\ SubSeq(line, 1, n) = SubSeq(cmd, 1, n)
    BY DEF IsPrefix
  <1>2. \A i \in 1 .. n : line[i] = cmd[i] /\ cmd[i] # 0
    <2> TAKE i \in 1 .. n
    <2>1. SubSeq(line, 1, n)[i] = line[i] /\ SubSeq(cmd, 1, n)[i] = cmd[i]
      BY <1>1
    <2>2. line[i] \in Range(line)
      BY DEF Range
    <2> QED
      BY <1>1, <2>1, <2>2
  <1>3. PICK f \in 1 .. Len(cmd) + 1 :
          /\ KernelReads(Ucs2(cmd)) = SubSeq(cmd, 1, f - 1)
          /\ f <= Len(cmd) => cmd[f] = 0
    BY ReadsToFirstNul
  <1>4. f > n
    BY <1>1, <1>2, <1>3
  <1> DEFINE read == SubSeq(cmd, 1, f - 1)
  <1>5. Len(read) = f - 1 /\ \A i \in 1 .. n : read[i] = line[i]
    BY <1>1, <1>2, <1>4
  <1> HIDE DEF read
  <1>6. SubSeq(line, 1, n) = SubSeq(read, 1, n)
    BY <1>1, <1>5
  <1>7. IsPrefix(line, read)
    BY <1>1, <1>4, <1>5, <1>6 DEF IsPrefix
  <1> QED
    BY <1>3, <1>7 DEF read

\* What a kernel reads of a clean line is the line.
LEMMA ReadsCleanLine ==
  ASSUME NEW line \in Seq(Octets), 0 \notin Range(line)
  PROVE  KernelReads(Ucs2(line)) = line
  <1>1. <<>> \in Seq(Visible \cup Whitespace) /\ line \o <<>> = line
    BY ConcatEmptySeq
  <1> QED
    BY <1>1, ReadsLineAndTail
=============================================================================
