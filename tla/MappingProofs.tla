---------------------------- MODULE MappingProofs ----------------------------
(***************************************************************************)
(* Memory safety and correctness of the section mapping, for every page    *)
(* size, address space and set of kernel images.                           *)
(***************************************************************************)
EXTENDS Mapping, TLAPS

\* What the loop has established about the sections it completed: each of
\* them passed the bounds checks. Only with it is LastSectionWins enough to
\* bound the addresses and the file offsets involved.
MappedSectionsPassed ==
  \A i \in 1 .. mapped : Mappable(kernel, kernel.sections[i])

\* The base address is chosen before the first section is mapped.
NothingMappedYet == status = "allocating" => mapped = 0

MapInv ==
  MapTypeOK /\ MappedSectionsPassed /\ LastSectionWins /\ NothingMappedYet

-----------------------------------------------------------------------------
\* CopySize, the min of the raw and the virtual size, never exceeds either.
LEMMA CopySizeBounds ==
  ASSUME NEW s \in SectionHeader
  PROVE  /\ CopySize(s) \in Nat
         /\ CopySize(s) <= s.virtual_size
         /\ CopySize(s) <= s.size_of_raw_data
  BY DEF CopySize, SectionHeader

\* A section of an image that passed the checks of map_sections covers only
\* bytes of the image.
LEMMA CoverInsideImage ==
  ASSUME kernel \in Image, base \in Nat, NEW s \in SectionHeader,
         InsideImage(kernel, s), NEW a \in Addr, Covers(s, a)
  PROVE  a \in base .. base + kernel.size - 1
  <1> DEFINE start == s.virtual_address - kernel.base_address
  <1>1. kernel.base_address \in Nat /\ kernel.size \in Nat
    BY DEF Image
  <1>2. s.virtual_address \in Nat /\ s.virtual_size \in Nat
    BY DEF SectionHeader
  <1>3. start \in Nat /\ start + s.virtual_size <= kernel.size
    BY <1>1, <1>2 DEF InsideImage, DestOffset
  <1>4. a \in Int /\ base + start <= a /\ a <= base + start + s.virtual_size - 1
    BY <1>1, <1>2, AddrMaxAssumption DEF Covers, SectionBase, DestOffset, Addr
  <1> HIDE DEF start
  <1> QED
    BY <1>1, <1>2, <1>3, <1>4

\* What such a section leaves at an address it covers is zero or a byte that
\* lies inside the kernel file.
LEMMA ByteFromFile ==
  ASSUME kernel \in Image, base \in Nat, NEW s \in SectionHeader,
         Mappable(kernel, s), NEW a \in Addr, Covers(s, a)
  PROVE  /\ ByteAt(s, a) \in Nat \cup {Zero}
         /\ ByteAt(s, a) \in Nat => ByteAt(s, a) < kernel.data_len
  <1> DEFINE offset == a - SectionBase(s)
  <1>1. offset \in Nat
    <2>1. kernel.base_address \in Nat /\ s.virtual_address \in Nat
          /\ s.virtual_size \in Nat
      BY DEF Image, SectionHeader
    <2>2. SectionBase(s) \in Nat
      BY <2>1 DEF Mappable, InsideImage, SectionBase, DestOffset
    <2> QED
      BY <2>1, <2>2, AddrMaxAssumption DEF Covers, Addr
  <1>2. CASE offset < CopySize(s)
    <2>1. ByteAt(s, a) = s.pointer_to_raw_data + offset
      BY <1>2 DEF ByteAt
    <2>2. s.pointer_to_raw_data + CopySize(s) <= kernel.data_len
      BY <1>1, <1>2, CopySizeBounds DEF Mappable, InsideFile
    <2>3. s.pointer_to_raw_data \in Nat /\ kernel.data_len \in Nat
      BY DEF SectionHeader, Image
    <2> QED
      BY <1>1, <1>2, <2>1, <2>2, <2>3, CopySizeBounds
  <1>3. CASE ~ (offset < CopySize(s))
    BY <1>3 DEF ByteAt, Zero
  <1> QED
    BY <1>2, <1>3

LEMMA SectionsAreHeaders ==
  ASSUME kernel \in Image, NEW i \in 1 .. Len(kernel.sections)
  PROVE  kernel.sections[i] \in SectionHeader
  BY DEF Image

\* The length of the copy is the min of two lengths, yet no address of a
\* section can tell: at an address it covers, map_sections leaves what the
\* PE format asks for.
LEMMA ByteIsLoadedByte ==
  ASSUME kernel \in Image, base \in Nat, NEW s \in SectionHeader,
         NEW a \in Addr, Covers(s, a)
  PROVE  ByteAt(s, a) = LoadedByte(s, a)
  BY AddrMaxAssumption
  DEF ByteAt, LoadedByte, CopySize, Covers, SectionBase, DestOffset,
      SectionHeader, Image, Addr

-----------------------------------------------------------------------------
LEMMA InitEstablishesMapInv == MapInit => MapInv
  <1> SUFFICES ASSUME MapInit PROVE MapInv
    OBVIOUS
  <1>1. MapTypeOK
    <2>1. kernel \in Image
      BY KernelsAssumption DEF MapInit
    <2>2. mem \in [Addr -> Byte]
      BY DEF MapInit, Byte
    <2>3. 0 \in 0 .. Len(kernel.sections)
      BY <2>1 DEF Image
    <2> QED
      BY <2>1, <2>2, <2>3 DEF MapInit, MapTypeOK, Status
  <1>2. MappedSectionsPassed
    BY DEF MapInit, MappedSectionsPassed
  <1>3. LastSectionWins
    BY DEF MapInit, LastSectionWins
  <1>4. NothingMappedYet
    BY DEF MapInit, NothingMappedYet
  <1> QED
    BY <1>1, <1>2, <1>3, <1>4 DEF MapInv

\* One more section: the bytes it covers are its own, every other byte keeps
\* what the sections before it left there.
LEMMA MapSectionKeepsMapInv == MapInv /\ MapSection => MapInv'
  <1> SUFFICES ASSUME MapInv, MapSection PROVE MapInv'
    OBVIOUS
  <1> DEFINE n == mapped + 1
             s == kernel.sections[n]
  <1>1. /\ kernel \in Image /\ base \in Nat /\ mem \in [Addr -> Byte]
        /\ mapped \in 0 .. Len(kernel.sections) /\ status \in Status
    BY DEF MapInv, MapTypeOK
  <1>2. /\ mapped < Len(kernel.sections) /\ Mappable(kernel, s)
        /\ mem' = [a \in Addr |-> IF Covers(s, a) THEN ByteAt(s, a) ELSE mem[a]]
        /\ mapped' = n /\ kernel' = kernel /\ base' = base /\ status' = status
    BY DEF MapSection, GoOn
  <1>3. Len(kernel.sections) \in Nat
    BY <1>1 DEF Image
  <1>4. n \in 1 .. Len(kernel.sections) /\ n \in 0 .. Len(kernel.sections)
    BY <1>1, <1>2, <1>3
  <1>5. s \in SectionHeader
    BY <1>1, <1>4, SectionsAreHeaders
  <1>6. MapTypeOK'
    <2>1. \A a \in Addr : Covers(s, a) => ByteAt(s, a) \in Byte
      BY <1>1, <1>2, <1>5, ByteFromFile DEF Byte
    <2>2. mem' \in [Addr -> Byte]
      BY <1>1, <1>2, <2>1
    <2> QED
      BY <1>1, <1>2, <1>4, <2>2 DEF MapTypeOK
  <1>7. MappedSectionsPassed'
    <2> SUFFICES ASSUME NEW i \in 1 .. n
                 PROVE  Mappable(kernel, kernel.sections[i])
      BY <1>2 DEF MappedSectionsPassed
    <2>1. CASE i = n
      BY <1>2, <2>1
    <2>2. CASE i # n
      <3>1. i \in 1 .. mapped
        BY <1>1, <1>3, <2>2
      <3> QED
        BY <3>1 DEF MapInv, MappedSectionsPassed
    <2> QED
      BY <2>1, <2>2
  <1>8. LastSectionWins'
    <2> SUFFICES
          ASSUME NEW a \in Addr
          PROVE  LET over == {i \in 1 .. n : Covers(kernel.sections[i], a)}
                 IN  IF over = {}
                     THEN mem'[a] = Untouched
                     ELSE \E i \in over :
                            /\ \A j \in over : j <= i
                            /\ mem'[a] = LoadedByte(kernel.sections[i], a)
      BY <1>2 DEF LastSectionWins, Covers, LoadedByte, SectionBase
    <2> DEFINE before == {i \in 1 .. mapped : Covers(kernel.sections[i], a)}
               over   == {i \in 1 .. n : Covers(kernel.sections[i], a)}
    <2>1. mem'[a] = IF Covers(s, a) THEN ByteAt(s, a) ELSE mem[a]
      BY <1>2
    <2>2. CASE Covers(s, a)
      <3>1. n \in over /\ \A j \in over : j <= n
        BY <1>3, <1>4, <2>2
      <3>2. mem'[a] = LoadedByte(kernel.sections[n], a)
        BY <1>1, <1>5, <2>1, <2>2, ByteIsLoadedByte
      <3> QED
        BY <3>1, <3>2
    <2>3. CASE ~ Covers(s, a)
      <3>1. over = before
        BY <1>1, <1>3, <2>3
      <3>2. mem'[a] = mem[a]
        BY <2>1, <2>3
      <3>3. IF before = {}
            THEN mem[a] = Untouched
            ELSE \E i \in before : /\ \A j \in before : j <= i
                                   /\ mem[a] = LoadedByte(kernel.sections[i], a)
        BY DEF MapInv, LastSectionWins
      <3> HIDE DEF over, before
      <3>4. IF over = {}
            THEN mem'[a] = Untouched
            ELSE \E i \in over : /\ \A j \in over : j <= i
                                 /\ mem'[a] = LoadedByte(kernel.sections[i], a)
        BY <3>1, <3>2, <3>3
      <3> QED
        BY <3>4 DEF over
    <2> QED
      BY <2>2, <2>3
  <1>9. NothingMappedYet'
    BY DEF MapSection, NothingMappedYet
  <1> QED
    BY <1>6, <1>7, <1>8, <1>9 DEF MapInv

\* The allocation moves the base only while no section is mapped, and the
\* other steps change neither memory nor what describes it.
LEMMA StepKeepsMapInv == MapInv /\ [MapNext]_mapVars => MapInv'
  <1> SUFFICES ASSUME MapInv, [MapNext]_mapVars PROVE MapInv'
    OBVIOUS
  <1>1. CASE AllocatePages
    <2>1. base' \in Nat
      <3>1. CASE UNCHANGED base
        BY <3>1 DEF MapInv, MapTypeOK
      <3>2. CASE \E page \in 1 .. AddrMax \div PageSize : base' = page * PageSize
        BY <3>2, PageSizeAssumption, AddrMaxAssumption
      <3> QED
        BY <1>1, <3>1, <3>2 DEF AllocatePages
    <2>2. status' \in Status
      BY <1>1 DEF AllocatePages, Status
    <2>3. UNCHANGED <<kernel, mem, mapped>>
      BY <1>1 DEF AllocatePages
    <2>4. MapTypeOK'
      BY <2>1, <2>2, <2>3 DEF MapInv, MapTypeOK
    <2>5. MappedSectionsPassed'
      BY <2>3 DEF MapInv, MappedSectionsPassed
    <2>6. mapped = 0
      BY <1>1 DEF AllocatePages, MapInv, NothingMappedYet
    <2>7. LastSectionWins'
      BY <2>3, <2>6 DEF MapInv, LastSectionWins
    <2>8. NothingMappedYet'
      BY <2>3, <2>6 DEF NothingMappedYet
    <2> QED
      BY <2>4, <2>5, <2>7, <2>8 DEF MapInv
  <1>2. CASE MapSection
    BY <1>2, MapSectionKeepsMapInv
  <1>3. CASE RefuseSection
    BY <1>3 DEF RefuseSection, MapInv, MapTypeOK, Status, MappedSectionsPassed,
       LastSectionWins, Covers, LoadedByte, SectionBase, NothingMappedYet
  <1>4. CASE FinishMapping
    BY <1>4 DEF FinishMapping, MapInv, MapTypeOK, Status, MappedSectionsPassed,
       LastSectionWins, Covers, LoadedByte, SectionBase, NothingMappedYet
  <1>5. CASE UNCHANGED mapVars
    BY <1>5 DEF mapVars, MapInv, MapTypeOK, MappedSectionsPassed,
       LastSectionWins, Covers, LoadedByte, SectionBase, NothingMappedYet
  <1> QED
    BY <1>1, <1>2, <1>3, <1>4, <1>5 DEF MapNext

-----------------------------------------------------------------------------
LEMMA MapInvariant == MapSpec => []MapInv
  BY InitEstablishesMapInv, StepKeepsMapInv, PTL DEF MapSpec

\* Every variable of the mapping keeps its type.
THEOREM MapTypeCorrect == MapSpec => []MapTypeOK
  <1>1. MapInv => MapTypeOK
    BY DEF MapInv
  <1> QED
    BY <1>1, MapInvariant, PTL

\* The loaded image is what the section table describes, whatever the order,
\* the overlaps and the sizes of the sections.
THEOREM MapsSectionTable == MapSpec => []LastSectionWins
  <1>1. MapInv => LastSectionWins
    BY DEF MapInv
  <1> QED
    BY <1>1, MapInvariant, PTL

\* At an address that holds something, a mapped section covers it.
LEMMA WrittenIsCovered ==
  ASSUME MapInv, NEW a \in Addr, mem[a] # Untouched
  PROVE  \E i \in 1 .. mapped :
           /\ kernel.sections[i] \in SectionHeader
           /\ Mappable(kernel, kernel.sections[i])
           /\ Covers(kernel.sections[i], a)
           /\ mem[a] = ByteAt(kernel.sections[i], a)
  <1> DEFINE over == {i \in 1 .. mapped : Covers(kernel.sections[i], a)}
  <1>1. PICK i \in over : mem[a] = LoadedByte(kernel.sections[i], a)
    BY DEF MapInv, LastSectionWins
  <1>2. i \in 1 .. Len(kernel.sections) /\ kernel \in Image /\ base \in Nat
    BY <1>1 DEF MapInv, MapTypeOK, Image
  <1>3. kernel.sections[i] \in SectionHeader
    BY <1>2, SectionsAreHeaders
  <1>4. mem[a] = ByteAt(kernel.sections[i], a)
    BY <1>1, <1>2, <1>3, ByteIsLoadedByte
  <1>5. Mappable(kernel, kernel.sections[i])
    BY <1>1 DEF MapInv, MappedSectionsPassed
  <1> QED
    BY <1>1, <1>3, <1>4, <1>5

\* What the invariant bounds: where the mapping writes and what it reads.
LEMMA WritesAreInside == MapInv => WritesStayInsideImage
  <1> SUFFICES ASSUME MapInv, NEW a \in Addr, mem[a] # Untouched
               PROVE  a \in base .. base + kernel.size - 1
    BY DEF WritesStayInsideImage
  <1>1. kernel \in Image /\ base \in Nat
    BY DEF MapInv, MapTypeOK
  <1> QED
    BY <1>1, WrittenIsCovered, CoverInsideImage DEF Mappable

LEMMA ReadsAreInside == MapInv => ReadsStayInsideFile
  <1> SUFFICES ASSUME MapInv, NEW a \in Addr, mem[a] \in Nat
               PROVE  mem[a] < kernel.data_len
    BY DEF ReadsStayInsideFile
  <1>1. kernel \in Image /\ base \in Nat /\ mem[a] # Untouched
    BY DEF MapInv, MapTypeOK, Untouched
  <1> QED
    BY <1>1, WrittenIsCovered, ByteFromFile

\* No write of map_sections leaves the image it allocated.
THEOREM MapWritesInside == MapSpec => []WritesStayInsideImage
  BY WritesAreInside, MapInvariant, PTL

\* No read of map_sections leaves the kernel file.
THEOREM MapReadsInside == MapSpec => []ReadsStayInsideFile
  BY ReadsAreInside, MapInvariant, PTL

\* Which kernels are mapped is decided by their section tables alone: with pages
\* to be had, those all of whose sections pass the checks, so none with a
\* section whose RVA lies below ImageBase.
THEOREM MapDecidesByTheTable ==
  MapSpec => [](/\ status = "mapped" =>
                     \A i \in 1 .. Len(kernel.sections) : Mappable(kernel, kernel.sections[i])
                /\ status = "failed" /\ base # 0 =>
                     \E i \in 1 .. Len(kernel.sections) : ~ Mappable(kernel, kernel.sections[i]))
  <1> DEFINE Passed  == status = "mapped" => mapped = Len(kernel.sections)
             Refused == /\ status = "allocating" => base = 0
                        /\ status = "failed" /\ base # 0 =>
                             \E i \in 1 .. Len(kernel.sections) :
                               ~ Mappable(kernel, kernel.sections[i])
  <1>1. MapInit => Passed /\ Refused
    BY DEF MapInit
  <1>2. MapInv /\ Passed /\ Refused /\ [MapNext]_mapVars => (Passed /\ Refused)'
    <2> SUFFICES ASSUME MapInv, Passed, Refused, [MapNext]_mapVars
                 PROVE  Passed' /\ Refused'
      OBVIOUS
    <2>1. CASE AllocatePages
      BY <2>1 DEF AllocatePages
    <2>2. CASE MapSection
      BY <2>2 DEF MapSection
    <2>3. CASE RefuseSection
      <3>1. mapped + 1 \in 1 .. Len(kernel.sections)
        BY <2>3 DEF RefuseSection, MapInv, MapTypeOK, Image
      <3> QED
        BY <2>3, <3>1 DEF RefuseSection
    <2>4. CASE FinishMapping
      BY <2>4 DEF FinishMapping
    <2>5. CASE UNCHANGED mapVars
      BY <2>5 DEF mapVars
    <2> QED
      BY <2>1, <2>2, <2>3, <2>4, <2>5 DEF MapNext
  <1>3. MapInv /\ Passed /\ Refused =>
          /\ status = "mapped" =>
               \A i \in 1 .. Len(kernel.sections) : Mappable(kernel, kernel.sections[i])
          /\ status = "failed" /\ base # 0 =>
               \E i \in 1 .. Len(kernel.sections) : ~ Mappable(kernel, kernel.sections[i])
    BY DEF MapInv, MappedSectionsPassed
  <1> QED
    BY <1>1, <1>2, <1>3, MapInvariant, PTL DEF MapSpec
=============================================================================
