----------------------------- MODULE LoaderProofs -----------------------------
(***************************************************************************)
(* start, for every kernel, command line and answer of the firmware: it    *)
(* lets go of LoadedImage, never describes half a kernel, and hands over   *)
(* exactly what the abstract Handover says. What memory and the page       *)
(* tables hold is what MappingProofs and ProtectionProofs have shown of    *)
(* the steps of those modules, which start only takes.                     *)
(***************************************************************************)
EXTENDS Loader, TLAPS

MP == INSTANCE MappingProofs
PP == INSTANCE ProtectionProofs

\* Where start stands determines what the mapping and the protection have
\* done: nothing is protected before all is mapped.
Order ==
  /\ phase \in Phase
  /\ phase = "map" => status \in {"allocating", "mapping"}
  /\ phase \notin {"map", "failed"} => status = "mapped" /\ mapped = Len(kernel.sections)
  /\ phase \in {"map", "locate"} => cursor = 0 /\ ro = {}
  /\ unavailable => kernel.nx_compat /\ phase \notin {"map", "locate", "protect"}
  /\ cursor \in 0 .. Len(kernel.sections)
  /\ step # "none" => phase = "protect" /\ cursor < Len(kernel.sections)

\* The pages the mapping got exist.
Room == status \in {"mapping", "mapped"} => base \in Nat /\ base + RoundUp(kernel.size) <= AddrMax + 1

Describes(options) == loadedImage = [base |-> base, size |-> kernel.size, options |-> options]

\* LoadedImage changes hands once, to a kernel that is whole.
Description ==
  /\ phase \in {"map", "locate", "protect", "set_image"} => loadedImage = StubImage
  /\ phase = "options" => Describes(Inherited)
  /\ phase \in {"enter", "kernel", "returned"} => Describes(Handed!Options(cmdline))
  /\ phase = "failed" => loadedImage = StubImage
       \/ (mapped = Len(kernel.sections) /\ \E options : Describes(options))

\* A line is only taken further if its size can be told.
LineFits ==
  phase \in {"enter", "kernel", "returned"} => NothingToSet(cmdline) \/ FitsOptions(cmdline)

LoaderInv ==
  /\ MP!MapInv
  /\ kernel \in Kernels /\ cmdline \in Cmdlines /\ exclusive \in BOOLEAN
  /\ Order
  /\ Room
  /\ Description
  /\ LineFits
  /\ NobodyHoldsLoadedImage

-----------------------------------------------------------------------------
(* The mapping that start runs is the one MappingProofs is about. *)

LEMMA SameImage == MP!Image = Image /\ M!Image = Image
  BY DEF Image, M!Image, MP!Image, SectionHeader, M!SectionHeader, MP!SectionHeader

LEMMA SameChecks ==
  ASSUME NEW k, NEW s
  PROVE  (Mappable(k, s) <=> MP!Mappable(k, s)) /\ (Mappable(k, s) <=> M!Mappable(k, s))
                                                /\ (Mappable(k, s) <=> Handed!Mappable(k, s))
  BY DEF Mappable, InsideImage, InsideFile, CopySize, DestOffset,
         M!Mappable, M!InsideImage, M!InsideFile, M!CopySize, M!DestOffset,
         MP!Mappable, MP!InsideImage, MP!InsideFile, MP!CopySize, MP!DestOffset,
         Handed!Mappable, Handed!InsideImage, Handed!InsideFile, Handed!CopySize,
         Handed!DestOffset

LEMMA SameInit == M!MapInit => MP!MapInit
  BY DEF M!MapInit, MP!MapInit, M!Addr, MP!Addr, M!Untouched, MP!Untouched

LEMMA SameSteps == [M!MapNext]_(M!mapVars) => [MP!MapNext]_(MP!mapVars)
  <1>1. \A s, a : /\ M!Covers(s, a) <=> MP!Covers(s, a)
                  /\ M!ByteAt(s, a) = MP!ByteAt(s, a)
    BY DEF M!Covers, M!ByteAt, M!SectionBase, M!CopySize, M!DestOffset, M!Zero,
           MP!Covers, MP!ByteAt, MP!SectionBase, MP!CopySize, MP!DestOffset, MP!Zero
  <1>2. M!AllocatePages => MP!AllocatePages
    BY DEF M!AllocatePages, M!RoundUp, M!PageCount, MP!AllocatePages, MP!RoundUp, MP!PageCount
  <1>3. M!MapSection => MP!MapSection
    BY <1>1, SameChecks DEF M!MapSection, M!GoOn, M!Addr, MP!MapSection, MP!GoOn, MP!Addr
  <1>4. M!RefuseSection => MP!RefuseSection
    BY SameChecks DEF M!RefuseSection, MP!RefuseSection
  <1>5. M!FinishMapping => MP!FinishMapping
    BY DEF M!FinishMapping, MP!FinishMapping
  <1> QED
    BY <1>2, <1>3, <1>4, <1>5 DEF M!MapNext, M!mapVars, MP!MapNext, MP!mapVars

LEMMA MapInitInv == M!MapInit => MP!MapInv
  BY SameInit, SameImage, MP!InitEstablishesMapInv,
     KernelsAssumption, AddrMaxAssumption, PageSizeAssumption

LEMMA MapStepKeepsInv == MP!MapInv /\ [M!MapNext]_(M!mapVars) => MP!MapInv'
  BY SameSteps, SameImage, MP!StepKeepsMapInv,
     KernelsAssumption, AddrMaxAssumption, PageSizeAssumption

LEMMA MapInvType ==
  ASSUME MP!MapInv
  PROVE  /\ M!MapTypeOK
         /\ kernel \in Image /\ Len(kernel.sections) \in Nat /\ mapped \in Nat
         /\ mapped <= Len(kernel.sections)
  <1>1. M!MapTypeOK
    BY SameImage DEF MP!MapInv, MP!MapTypeOK, MP!Status, MP!Addr, MP!Byte, MP!Untouched, MP!Zero,
       M!MapTypeOK, M!Status, M!Addr, M!Byte, M!Untouched, M!Zero
  <1>2. kernel \in Image /\ mapped \in 0 .. Len(kernel.sections)
    BY <1>1, SameImage DEF M!MapTypeOK
  <1>3. Len(kernel.sections) \in Nat
    BY <1>2 DEF Image
  <1> QED
    BY <1>1, <1>2, <1>3

LEMMA RoundUpCovers ==
  ASSUME NEW n \in Nat
  PROVE  RoundUp(n) \in Nat /\ n <= RoundUp(n)
  <1> DEFINE m == n + PageSize - 1
             q == m \div PageSize
  <1>1. m \in Nat /\ PageSize \in Nat \ {0}
    BY PageSizeAssumption
  <1>2. q \in Nat /\ m < q * PageSize + PageSize
    BY <1>1
  <1>3. q * PageSize \in Nat /\ RoundUp(n) = q * PageSize
    BY <1>1, <1>2 DEF RoundUp, PageCount
  <1> QED
    BY <1>1, <1>2, <1>3

\* The options that set_load_options leaves are those of the handover.
LEMMA SameOptions ==
  ASSUME NEW line
  PROVE  /\ NothingToSet(line) => Handed!Options(line) = Inherited
         /\ ~ NothingToSet(line) => Handed!Options(line) = Encoded(line)
         /\ NothingToSet(line) \/ FitsOptions(line) => Handed!Tellable(line)
  <1>1. \A data : Strip(data) = Handed!Strip(data)
    BY DEF Strip, Handed!Strip, SelectLastInSeq, Handed!SelectLastInSeq, Max, Handed!Max,
       Whitespace, Handed!Whitespace
  <1>2. \A cmd : Ucs2(cmd) = Handed!Ucs2(cmd)
    BY DEF Ucs2, Handed!Ucs2
  <1>3. NothingToSet(line) <=> Handed!NothingToSet(line)
    BY <1>1 DEF NothingToSet, Handed!NothingToSet, IsBlank, Handed!IsBlank
  <1> QED
    BY <1>1, <1>2, <1>3 DEF Handed!Options, Handed!Tellable, Encoded, FitsOptions

-----------------------------------------------------------------------------
LEMMA InitEstablishesLoaderInv == Init => LoaderInv
  <1> SUFFICES ASSUME Init PROVE LoaderInv
    OBVIOUS
  <1>1. MP!MapInv /\ kernel \in Kernels /\ status = "allocating"
    BY MapInitInv DEF Init, M!MapInit
  <1>2. Len(kernel.sections) \in Nat
    BY <1>1, MapInvType
  <1>3. Order
    BY <1>1, <1>2 DEF Init, P!AttributesInit, Order, Phase
  <1>4. Description
    BY DEF Init, Description
  <1> QED
    BY <1>1, <1>3, <1>4 DEF Init, LoaderInv, Room, LineFits, NobodyHoldsLoadedImage

LEMMA MapKeepsLoaderInv ==
  ASSUME LoaderInv, Map
  PROVE  LoaderInv'
  <1> USE DEF attributeVars
  <1>1. MP!MapInv' /\ M!MapNext
    BY MapStepKeepsInv DEF LoaderInv, Map
  <1>2. /\ phase = "map" /\ status \in {"allocating", "mapping"}
        /\ UNCHANGED <<cursor, step, ro, unavailable, cmdline, loadedImage>>
        /\ kernel' = kernel
    BY <1>1 DEF LoaderInv, Order, Map, M!MapNext, M!AllocatePages, M!MapSection,
                M!RefuseSection, M!FinishMapping
  <1>3. \/ status' \in {"allocating", "mapping"} /\ phase' = "map" /\ exclusive' = exclusive
        \/ /\ status' = "mapped" /\ mapped' = Len(kernel.sections)
           /\ phase' = "locate" /\ exclusive' = exclusive
        \/ status' = "failed" /\ phase' = "failed" /\ exclusive' = FALSE
    <2>1. \/ status' \in {"allocating", "mapping"}
          \/ status' = "mapped" /\ mapped' = Len(kernel.sections)
          \/ status' = "failed"
      BY <1>1, <1>2 DEF M!MapNext, M!AllocatePages, M!MapSection, M!RefuseSection,
                        M!FinishMapping
    <2>2. status' # "allocating"
      BY <1>1, <1>2 DEF M!MapNext, M!AllocatePages, M!MapSection, M!RefuseSection,
                        M!FinishMapping
    <2> QED
      BY <2>1, <2>2 DEF Map, AfterMapping, Proceed, Fail, Drop
  <1>4. Order'
    BY <1>2, <1>3 DEF LoaderInv, Order, Phase
  <1>5. Room'
    <2>1. M!AllocatePages => Room'
      <3> SUFFICES ASSUME M!AllocatePages, status' = "mapping" PROVE Room'
        BY DEF Room, M!AllocatePages
      <3>1. PICK page \in 1 .. AddrMax \div PageSize :
              /\ page * PageSize + RoundUp(kernel.size) <= AddrMax + 1
              /\ base' = page * PageSize
        BY DEF M!AllocatePages, M!RoundUp, M!PageCount, RoundUp, PageCount
      <3>2. page * PageSize \in Nat
        BY <3>1, PageSizeAssumption, AddrMaxAssumption
      <3> QED
        BY <1>2, <3>1, <3>2 DEF Room, RoundUp, PageCount
    <2>2. ~ M!AllocatePages => UNCHANGED base /\ status = "mapping"
      BY <1>1 DEF M!MapNext, M!MapSection, M!RefuseSection, M!FinishMapping
    <2> QED
      BY <1>2, <2>1, <2>2 DEF LoaderInv, Room, RoundUp, PageCount
  <1>6. Description'
    BY <1>2, <1>3 DEF LoaderInv, Description
  <1>7. LineFits' /\ NobodyHoldsLoadedImage'
    BY <1>2, <1>3 DEF LoaderInv, LineFits, NobodyHoldsLoadedImage
  <1> QED
    BY <1>1, <1>2, <1>3, <1>4, <1>5, <1>6, <1>7 DEF LoaderInv

\* What no step behind the mapping changes.
LEMMA MappingIsDone ==
  ASSUME LoaderInv, UNCHANGED mappingVars, UNCHANGED cmdline
  PROVE  /\ MP!MapInv' /\ kernel' \in Kernels /\ cmdline' \in Cmdlines /\ Room'
         /\ \A options : Describes(options)' <=>
              loadedImage' = [base |-> base, size |-> kernel.size, options |-> options]
  <1>1. MP!MapInv'
    BY MapStepKeepsInv DEF LoaderInv, M!mapVars, mappingVars
  <1>2. Room'
    BY DEF LoaderInv, Room, RoundUp, PageCount, mappingVars
  <1> QED
    BY <1>1, <1>2 DEF LoaderInv, Describes, mappingVars

LEMMA LocateKeepsLoaderInv ==
  ASSUME LoaderInv, Locate
  PROVE  LoaderInv'
  <1> USE DEF Locate, attributeVars
  <1>1. /\ phase = "locate" /\ phase' \in {"protect", "set_image"}
        /\ UNCHANGED <<status, kernel, mapped>>
    BY DEF mappingVars
  <1>2. Order'
    BY <1>1 DEF LoaderInv, Order, Phase
  <1>3. Description'
    BY <1>1 DEF LoaderInv, Description
  <1>4. LineFits' /\ NobodyHoldsLoadedImage'
    BY <1>1 DEF LoaderInv, LineFits, NobodyHoldsLoadedImage
  <1> QED
    BY <1>2, <1>3, <1>4, MappingIsDone DEF LoaderInv

\* The loop stays within the section table.
LEMMA ProtectStep ==
  ASSUME LoaderInv, P!ProtectNext, phase = "protect"
  PROVE  /\ cursor' \in 0 .. Len(kernel.sections)
         /\ step' # "none" => cursor' < Len(kernel.sections)
  <1>1. cursor \in 0 .. Len(kernel.sections) /\ Len(kernel.sections) \in Nat
    BY MapInvType DEF LoaderInv, Order
  <1>2. cursor < Len(kernel.sections)
    BY <1>1 DEF LoaderInv, Order, P!ProtectNext, P!SkipSection, P!SetReadOnly, P!AtSection,
                P!ClearNoExecute, P!RollBack
  <1>3. cursor + 1 \in 0 .. Len(kernel.sections)
    BY <1>1, <1>2
  <1>4. CASE P!SkipSection
    BY <1>1, <1>2, <1>3, <1>4 DEF P!SkipSection
  <1>5. CASE P!SetReadOnly
    BY <1>1, <1>2, <1>3, <1>5 DEF P!SetReadOnly
  <1>6. CASE P!ClearNoExecute
    BY <1>1, <1>2, <1>3, <1>6 DEF P!ClearNoExecute
  <1>7. CASE P!RollBack
    BY <1>1, <1>2, <1>3, <1>7 DEF P!RollBack, P!Continue
  <1> QED
    BY <1>4, <1>5, <1>6, <1>7 DEF P!ProtectNext

LEMMA ProtectKeepsLoaderInv ==
  ASSUME LoaderInv, Protect
  PROVE  LoaderInv'
  <1> USE DEF Protect, Protects, attributeVars
  <1>1. /\ phase = "protect" /\ phase' \in {"protect", "set_image"}
        /\ UNCHANGED <<status, kernel, mapped>>
    BY DEF mappingVars
  <1>2. Len(kernel.sections) \in Nat
    BY MapInvType DEF LoaderInv
  <1>3. Order'
    <2>1. CASE P!ProtectNext /\ UNCHANGED phase
      BY <1>1, <2>1, ProtectStep DEF LoaderInv, Order
    <2>2. CASE cursor = Len(kernel.sections) /\ phase' = "set_image" /\ UNCHANGED attributeVars
      BY <1>1, <1>2, <2>2 DEF LoaderInv, Order, Phase
    <2> QED
      BY <2>1, <2>2
  <1>4. Description' /\ LineFits' /\ NobodyHoldsLoadedImage'
    BY <1>1 DEF LoaderInv, Description, LineFits, NobodyHoldsLoadedImage
  <1> QED
    BY <1>3, <1>4, MappingIsDone DEF LoaderInv

\* The steps behind the protection leave the page tables alone.
LEMMA AttributesAreDone ==
  ASSUME LoaderInv, UNCHANGED mappingVars, UNCHANGED attributeVars, UNCHANGED unavailable,
         phase \notin {"map", "locate", "protect", "failed"},
         phase' \in Phase \ {"map", "locate", "protect"}
  PROVE  Order'
  <1>1. UNCHANGED <<status, kernel, mapped, cursor, step, ro>>
    BY DEF mappingVars, attributeVars
  <1>2. step' = "none"
    BY <1>1 DEF LoaderInv, Order
  <1> QED
    BY <1>1, <1>2 DEF LoaderInv, Order

LEMMA SetImageKeepsLoaderInv ==
  ASSUME LoaderInv, SetImage
  PROVE  LoaderInv'
  <1> USE DEF SetImage
  <1>1. Order'
    BY AttributesAreDone DEF Phase
  <1>2. loadedImage' = [base |-> base, size |-> kernel.size, options |-> Inherited]
    <2>1. loadedImage = [base |-> 0, size |-> 0, options |-> Inherited]
      BY DEF LoaderInv, Description, StubImage
    <2> QED
      BY <2>1
  <1>3. Description'
    BY <1>2, MappingIsDone DEF Description
  <1> QED
    BY <1>1, <1>3, MappingIsDone DEF LoaderInv, LineFits, NobodyHoldsLoadedImage

LEMMA SetLoadOptionsKeepsLoaderInv ==
  ASSUME LoaderInv, SetLoadOptions
  PROVE  LoaderInv'
  <1> USE DEF SetLoadOptions
  <1>1. /\ phase = "options" /\ mapped = Len(kernel.sections)
        /\ loadedImage = [base |-> base, size |-> kernel.size, options |-> Inherited]
        /\ UNCHANGED <<cmdline, kernel, base, mapped>>
    BY DEF LoaderInv, Order, Description, Describes, mappingVars
  <1>2. \/ /\ phase' = "enter" /\ exclusive' = exclusive
           /\ NothingToSet(cmdline) \/ FitsOptions(cmdline)
           /\ loadedImage' = [base |-> base, size |-> kernel.size,
                              options |-> Handed!Options(cmdline)]
        \/ phase' = "failed" /\ exclusive' = FALSE /\ loadedImage' = loadedImage
    BY <1>1, SameOptions DEF Proceed, Fail, Drop
  <1>3. Order'
    BY <1>2, AttributesAreDone DEF Phase
  <1>4. Handed!Options(cmdline)' = Handed!Options(cmdline)
    BY <1>1
  <1>5. Description'
    BY <1>1, <1>2, <1>4, MappingIsDone DEF Description
  <1>6. LineFits'
    BY <1>1, <1>2 DEF LineFits
  <1> QED
    BY <1>2, <1>3, <1>5, <1>6, MappingIsDone DEF LoaderInv, NobodyHoldsLoadedImage

LEMMA EnterKeepsLoaderInv ==
  ASSUME LoaderInv, Enter \/ KernelReturns
  PROVE  LoaderInv'
  <1> USE DEF Enter, KernelReturns
  <1>1. /\ phase \in {"enter", "kernel"} /\ mapped = Len(kernel.sections)
        /\ loadedImage = [base |-> base, size |-> kernel.size,
                          options |-> Handed!Options(cmdline)]
        /\ UNCHANGED <<cmdline, kernel, base, mapped, loadedImage>>
    BY DEF LoaderInv, Order, Description, Describes, mappingVars
  <1>2. /\ phase' \in {"kernel", "returned", "failed"} /\ exclusive' = FALSE
        /\ NothingToSet(cmdline) \/ FitsOptions(cmdline)
    BY DEF Fail, Drop, LoaderInv, LineFits, NobodyHoldsLoadedImage
  <1>3. Order'
    BY <1>2, AttributesAreDone DEF Phase
  <1>4. Handed!Options(cmdline)' = Handed!Options(cmdline)
    BY <1>1
  <1>5. Description'
    BY <1>1, <1>2, <1>4, MappingIsDone DEF Description
  <1>6. LineFits'
    BY <1>1, <1>2 DEF LineFits
  <1> QED
    BY <1>2, <1>3, <1>5, <1>6, MappingIsDone DEF LoaderInv, NobodyHoldsLoadedImage

LEMMA StutterKeepsLoaderInv ==
  ASSUME LoaderInv, UNCHANGED vars
  PROVE  LoaderInv'
  <1>1. UNCHANGED <<status, kernel, base, mapped, cursor, step, ro, unavailable,
                    phase, cmdline, loadedImage, exclusive>>
    BY DEF vars, mappingVars, attributeVars
  <1>2. Order'
    BY <1>1 DEF LoaderInv, Order
  <1>3. Description'
    <2>1. Handed!Options(cmdline)' = Handed!Options(cmdline)
      BY <1>1
    <2> QED
      BY <1>1, <2>1 DEF LoaderInv, Description, Describes
  <1>4. LineFits'
    BY <1>1 DEF LoaderInv, LineFits
  <1> QED
    BY <1>1, <1>2, <1>3, <1>4, MappingIsDone DEF LoaderInv, NobodyHoldsLoadedImage, vars

LEMMA LoaderInvariant == Spec => []LoaderInv
  <1>1. LoaderInv /\ [Next]_vars => LoaderInv'
    BY MapKeepsLoaderInv, LocateKeepsLoaderInv, ProtectKeepsLoaderInv,
       SetImageKeepsLoaderInv, SetLoadOptionsKeepsLoaderInv, EnterKeepsLoaderInv,
       StutterKeepsLoaderInv DEF Next, StartNext
  <1> QED
    BY <1>1, InitEstablishesLoaderInv, PTL DEF Spec

-----------------------------------------------------------------------------
\* The mapping inside start is map_sections, undisturbed: whatever start does
\* before and behind it is no step of it.
THEOREM LoaderRunsMapping == Spec => M!MapSpec
  <1>1. Init => M!MapInit
    BY DEF Init
  <1>2. [Next]_vars => [M!MapNext]_(M!mapVars)
    BY DEF Next, StartNext, Map, Locate, Protect, SetImage, SetLoadOptions, Enter,
       KernelReturns, vars, mappingVars, M!mapVars
  <1> QED
    BY <1>1, <1>2, PTL DEF Spec, M!MapSpec

\* So the memory that start prepares, protects and hands over is at every step
\* what the section table says, and not a byte outside the image is written
\* nor one from beyond the file read.
THEOREM LoaderPlacesSections ==
  Spec => [](M!LastSectionWins /\ M!WritesStayInsideImage /\ M!ReadsStayInsideFile)
  <1>1. MP!MapInv => MP!LastSectionWins /\ MP!WritesStayInsideImage /\ MP!ReadsStayInsideFile
    BY SameImage, MP!WritesAreInside, MP!ReadsAreInside,
       KernelsAssumption, AddrMaxAssumption, PageSizeAssumption DEF MP!MapInv
  <1>2. MP!LastSectionWins => M!LastSectionWins
    BY DEF MP!LastSectionWins, MP!Covers, MP!LoadedByte, MP!SectionBase, MP!CopySize,
       MP!DestOffset, MP!Addr, MP!Untouched, MP!Zero,
       M!LastSectionWins, M!Covers, M!LoadedByte, M!SectionBase, M!CopySize,
       M!DestOffset, M!Addr, M!Untouched, M!Zero
  <1>3. MP!WritesStayInsideImage => M!WritesStayInsideImage
    BY DEF MP!WritesStayInsideImage, MP!Addr, MP!Untouched,
       M!WritesStayInsideImage, M!Addr, M!Untouched
  <1>4. MP!ReadsStayInsideFile => M!ReadsStayInsideFile
    BY DEF MP!ReadsStayInsideFile, MP!Addr, M!ReadsStayInsideFile, M!Addr
  <1>5. LoaderInv => M!LastSectionWins /\ M!WritesStayInsideImage /\ M!ReadsStayInsideFile
    BY <1>1, <1>2, <1>3, <1>4 DEF LoaderInv
  <1> QED
    BY <1>5, LoaderInvariant, PTL

\* Every variable of start stays in its type, and its phase agrees with the
\* mapping and the protection.
THEOREM LoaderTypeCorrect == Spec => []TypeOK
  <1>1. LoaderInv => TypeOK
    <2> SUFFICES ASSUME LoaderInv PROVE TypeOK
      OBVIOUS
    <2>1. M!MapTypeOK
      BY MapInvType DEF LoaderInv
    <2>2. loadedImage.base \in {StubImage.base, base}
      BY DEF LoaderInv, Order, Phase, Description, Describes
    <2> QED
      BY <2>1, <2>2 DEF LoaderInv, Order, TypeOK
  <1> QED
    BY <1>1, LoaderInvariant, PTL

\* Nobody has LoadedImage open when the kernel is entered, nor after any of
\* the errors of start (mod.rs:70).
THEOREM LoaderLetsGo == Spec => []NobodyHoldsLoadedImage
  BY LoaderInvariant, PTL DEF LoaderInv

\* LoadedImage describes the stub or a kernel that is wholly in memory,
\* whichever call failed.
THEOREM LoaderDescribesWhole == Spec => []LoadedImageIsWhole
  <1>1. LoaderInv => LoadedImageIsWhole
    BY DEF LoaderInv, Order, Phase, Description, Describes, LoadedImageIsWhole
  <1> QED
    BY <1>1, LoaderInvariant, PTL

\* Nothing is written once anything may be read-only.
THEOREM LoaderWritesBeforeProtection == Spec => NoWriteToReadOnlyPage
  <1>1. LoaderInv /\ [Next]_vars =>
          [\A a \in Addr : mem'[a] # mem[a] => a \div PageSize \notin ro]_vars
    <2> SUFFICES ASSUME LoaderInv, Next, NEW a \in Addr, mem'[a] # mem[a]
                 PROVE  a \div PageSize \notin ro
      OBVIOUS
    <2>1. phase = "map"
      BY DEF Next, StartNext, Map, Locate, Protect, SetImage, SetLoadOptions, Enter,
             KernelReturns, mappingVars
    <2> QED
      BY <2>1 DEF LoaderInv, Order
  <1> QED
    BY <1>1, LoaderInvariant, PTL DEF Spec, NoWriteToReadOnlyPage

-----------------------------------------------------------------------------
(* The page tables. The protection that start runs is the one              *)
(* ProtectionProofs is about: it begins where the mapping has ended.       *)

LEMMA SamePPImage == PP!Image = Image
  BY DEF Image, PP!Image, SectionHeader, PP!SectionHeader

LEMMA SameProtectSteps == [P!ProtectNext]_(P!protectVars) => [PP!ProtectNext]_(PP!protectVars)
  <1>1. \A s : /\ P!PagesOf(s) = PP!PagesOf(s) /\ (P!Overflows(s) <=> PP!Overflows(s))
               /\ (P!FirmwareAccepts(s) <=> PP!FirmwareAccepts(s))
    BY DEF P!PagesOf, P!CodeBase, P!SaturatingOffset, P!DestOffset, P!PageCount, P!Overflows,
           P!FirmwareAccepts, PP!PagesOf, PP!CodeBase, PP!SaturatingOffset, PP!DestOffset,
           PP!PageCount, PP!Overflows, PP!FirmwareAccepts
  <1>2. P!Current = PP!Current /\ (P!AtSection <=> PP!AtSection) /\ (P!Warn <=> PP!Warn)
    BY DEF P!Current, PP!Current, P!AtSection, PP!AtSection, P!Warn, PP!Warn
  <1>3. P!SkipSection => PP!SkipSection
    BY <1>1, <1>2 DEF P!SkipSection, PP!SkipSection
  <1>4. P!SetReadOnly => PP!SetReadOnly
    BY <1>1, <1>2 DEF P!SetReadOnly, PP!SetReadOnly
  <1>5. P!ClearNoExecute => PP!ClearNoExecute
    BY <1>1, <1>2 DEF P!ClearNoExecute, P!DoNotReport, PP!ClearNoExecute, PP!DoNotReport
  <1>6. P!RollBack => PP!RollBack
    BY <1>1, <1>2 DEF P!RollBack, P!Undo, P!Continue, PP!RollBack, PP!Undo, PP!Continue
  <1> QED
    BY <1>3, <1>4, <1>5, <1>6 DEF P!ProtectNext, P!protectVars, PP!ProtectNext, PP!protectVars

\* The pages exist, lie above page zero and start on a page.
Aligned == status \in {"mapping", "mapped"} => base \in 1 .. AddrMax /\ base % PageSize = 0

\* What start has done to the attributes: nothing before the mapping is done,
\* and nothing at all unless the kernel asked for it; then, all of apply.
AttributesInv ==
  /\ Aligned
  /\ phase \in {"map", "locate"} => P!AttributesInit
  /\ phase \notin {"map", "locate", "failed"} => PP!ProtectInv
  /\ phase = "protect" => kernel.nx_compat
  /\ phase \notin {"map", "locate", "failed", "protect"} =>
       IF ~ kernel.nx_compat \/ unavailable THEN P!AttributesInit
       ELSE cursor = Len(kernel.sections)

LEMMA MappedIsProtectable ==
  ASSUME LoaderInv, Aligned, P!AttributesInit, phase = "locate"
  PROVE  PP!ProtectInv
  <1>1. /\ status = "mapped" /\ mapped = Len(kernel.sections) /\ kernel \in Kernels
        /\ base \in Nat /\ base + RoundUp(kernel.size) <= AddrMax + 1
        /\ base \in 1 .. AddrMax /\ base % PageSize = 0
    BY DEF LoaderInv, Order, Room, Aligned
  <1>2. \A i \in 1 .. Len(kernel.sections) : PP!Mappable(kernel, kernel.sections[i])
    BY <1>1 DEF LoaderInv, MP!MapInv, MP!MappedSectionsPassed,
       MP!Mappable, MP!InsideImage, MP!InsideFile, MP!CopySize, MP!DestOffset,
       PP!Mappable, PP!InsideImage, PP!InsideFile, PP!CopySize, PP!DestOffset
  <1>3. PP!IsMapped(kernel, base) /\ base \in PP!Addr
    BY <1>1, <1>2 DEF PP!IsMapped, PP!RoundUp, PP!PageCount, RoundUp, PageCount, PP!Addr
  <1>4. PP!ProtectInit
    BY <1>1, <1>3 DEF PP!ProtectInit, P!AttributesInit, P!InitialXP, P!Pages,
       PP!AttributesInit, PP!InitialXP, PP!Pages
  <1> QED
    BY <1>4, PP!InitEstablishesProtectInv, SamePPImage, DefaultNXAssumption,
       KernelsAssumption, AddrMaxAssumption, PageSizeAssumption

LEMMA ProtectStepKeepsInv == PP!ProtectInv /\ [P!ProtectNext]_(P!protectVars) => PP!ProtectInv'
  BY SameProtectSteps, PP!StepKeepsProtectInv, SamePPImage, DefaultNXAssumption,
     KernelsAssumption, AddrMaxAssumption, PageSizeAssumption

LEMMA MapKeepsAttributesInv ==
  ASSUME LoaderInv, AttributesInv, Map
  PROVE  AttributesInv'
  <1> USE DEF attributeVars
  <1>1. /\ phase = "map" /\ P!AttributesInit /\ P!AttributesInit' /\ M!MapNext
        /\ status \in {"allocating", "mapping"}
    BY DEF AttributesInv, LoaderInv, Order, Map, P!AttributesInit, P!InitialXP, P!Pages
  <1>2. phase' \in {"map", "locate", "failed"}
    <2>1. status' \in {"mapping", "mapped", "failed"}
      BY <1>1 DEF M!MapNext, M!AllocatePages, M!MapSection, M!RefuseSection, M!FinishMapping
    <2> QED
      BY <1>1, <2>1 DEF Map, AfterMapping, Proceed, Fail
  <1>3. Aligned'
    <2>1. CASE M!AllocatePages
      <3> SUFFICES ASSUME status' = "mapping"
                   PROVE  base' \in 1 .. AddrMax /\ base' % PageSize = 0
        BY <2>1 DEF M!AllocatePages, Aligned
      <3>1. PICK page \in 1 .. AddrMax \div PageSize : base' = page * PageSize
        BY <2>1 DEF M!AllocatePages
      <3>2. PageSize \in Nat \ {0} /\ AddrMax \in Nat /\ page \in Nat \ {0}
        BY PageSizeAssumption, AddrMaxAssumption
      <3>3. page * PageSize \in 1 .. AddrMax /\ (page * PageSize) % PageSize = 0
        BY <3>2
      <3> QED
        BY <3>1, <3>3
    <2>2. CASE ~ M!AllocatePages
      BY <1>1, <2>2 DEF M!MapNext, M!MapSection, M!RefuseSection, M!FinishMapping,
                        AttributesInv, Aligned
    <2> QED
      BY <2>1, <2>2
  <1> QED
    BY <1>1, <1>2, <1>3 DEF AttributesInv

\* The steps that leave mapping and attributes alone.
LEMMA QuietKeepsAttributesInv ==
  ASSUME AttributesInv, UNCHANGED mappingVars, UNCHANGED attributeVars, UNCHANGED unavailable,
         \/ phase' = phase
         \/ phase \notin {"map", "locate", "failed", "protect"}
            /\ phase' \notin {"map", "locate", "protect"}
  PROVE  AttributesInv'
  <1>1. /\ UNCHANGED <<status, kernel, base, cursor, step, ro, xp, reported, warned, stuck>>
        /\ UNCHANGED P!protectVars
    BY DEF mappingVars, attributeVars, P!protectVars
  <1>2. PP!ProtectInv => PP!ProtectInv'
    BY <1>1, ProtectStepKeepsInv
  <1>3. P!AttributesInit' <=> P!AttributesInit
    BY <1>1 DEF P!AttributesInit, P!InitialXP, P!Pages
  <1> QED
    BY <1>1, <1>2, <1>3 DEF AttributesInv, Aligned

LEMMA LocateKeepsAttributesInv ==
  ASSUME LoaderInv, AttributesInv, Locate
  PROVE  AttributesInv'
  <1>1. /\ UNCHANGED <<status, kernel, base, cursor, step, ro, xp, reported, warned, stuck>>
        /\ UNCHANGED P!protectVars /\ phase = "locate"
        /\ \/ phase' = "set_image" /\ unavailable' = kernel.nx_compat
           \/ phase' = "protect" /\ kernel.nx_compat
    BY DEF Locate, mappingVars, attributeVars, P!protectVars
  <1>2. P!AttributesInit /\ P!AttributesInit'
    BY <1>1 DEF AttributesInv, P!AttributesInit, P!InitialXP, P!Pages
  <1>3. PP!ProtectInv'
    BY <1>1, <1>2, MappedIsProtectable, ProtectStepKeepsInv DEF AttributesInv
  <1> QED
    BY <1>1, <1>2, <1>3 DEF AttributesInv, Aligned

LEMMA ProtectKeepsAttributesInv ==
  ASSUME LoaderInv, AttributesInv, Protect
  PROVE  AttributesInv'
  <1> USE DEF Protect, Protects
  <1>1. /\ phase = "protect" /\ phase' \in {"protect", "set_image"}
        /\ UNCHANGED <<status, kernel, base>> /\ PP!ProtectInv
        /\ kernel.nx_compat /\ ~ unavailable'
    BY DEF mappingVars, AttributesInv, LoaderInv, Order
  <1>2. [P!ProtectNext]_(P!protectVars)
    BY <1>1 DEF P!protectVars, attributeVars
  <1>3. PP!ProtectInv'
    BY <1>1, <1>2, ProtectStepKeepsInv
  <1>4. phase' = "set_image" => cursor' = Len(kernel.sections)
    BY <1>1 DEF attributeVars
  <1> QED
    BY <1>1, <1>3, <1>4 DEF AttributesInv, Aligned

LEMMA AttributesInvariant == Spec => []AttributesInv
  <1>1. Init => AttributesInv
    BY DEF Init, M!MapInit, AttributesInv, Aligned
  <1>2. LoaderInv /\ AttributesInv /\ [Next]_vars => AttributesInv'
    <2> SUFFICES ASSUME LoaderInv, AttributesInv, [Next]_vars PROVE AttributesInv'
      OBVIOUS
    <2>1. CASE SetImage \/ SetLoadOptions \/ Enter \/ KernelReturns
      <3>1. /\ UNCHANGED mappingVars /\ UNCHANGED attributeVars /\ UNCHANGED unavailable
            /\ phase \notin {"map", "locate", "failed", "protect"}
            /\ phase' \notin {"map", "locate", "protect"}
        BY <2>1 DEF SetImage, SetLoadOptions, Enter, KernelReturns, Proceed, Fail
      <3> QED
        BY <3>1, QuietKeepsAttributesInv
    <2>2. CASE UNCHANGED vars
      BY <2>2, QuietKeepsAttributesInv DEF vars
    <2> QED
      BY <2>1, <2>2, MapKeepsAttributesInv, LocateKeepsAttributesInv,
         ProtectKeepsAttributesInv DEF Next, StartNext
  <1> QED
    BY <1>1, <1>2, LoaderInvariant, PTL DEF Spec

\* The protection's terms mean the same to start.
LEMMA SameGeometry ==
  /\ \A s : P!CodeBase(s) = PP!CodeBase(s) /\ P!PagesOf(s) = PP!PagesOf(s)
  /\ \A i : P!Section(i) = PP!Section(i)
  /\ P!CodeSections = PP!CodeSections /\ P!ImagePages = PP!ImagePages
  /\ P!InitialXP = PP!InitialXP /\ P!InHand = PP!InHand
  /\ \A S : P!PagesOfAll(S) = PP!PagesOfAll(S)
  /\ \A i, page : P!UndoneBehind(i, page) <=> PP!UndoneBehind(i, page)
  <1>1. /\ \A s : P!CodeBase(s) = PP!CodeBase(s) /\ P!PagesOf(s) = PP!PagesOf(s)
        /\ \A i : P!Section(i) = PP!Section(i)
        /\ P!CodeSections = PP!CodeSections /\ P!ImagePages = PP!ImagePages
        /\ P!InitialXP = PP!InitialXP /\ P!InHand = PP!InHand
    BY DEF P!PagesOf, P!CodeBase, P!SaturatingOffset, P!DestOffset, P!PageCount, P!Section,
           P!CodeSections, P!ImagePages, P!InitialXP, P!Pages, P!InHand,
           PP!PagesOf, PP!CodeBase, PP!SaturatingOffset, PP!DestOffset, PP!PageCount,
           PP!Section, PP!CodeSections, PP!ImagePages, PP!InitialXP, PP!Pages, PP!InHand
  <1>2. \A S : P!PagesOfAll(S) = PP!PagesOfAll(S)
    BY <1>1 DEF P!PagesOfAll, PP!PagesOfAll
  <1>3. \A i, page : P!UndoneBehind(i, page) <=> PP!UndoneBehind(i, page)
    BY <1>1 DEF P!UndoneBehind, PP!UndoneBehind
  <1> QED
    BY <1>1, <1>2, <1>3

\* What apply has established is still so when the kernel is entered: the page
\* tables are those the kernel asked for, and the log is true of them.
THEOREM LoaderProtectsAsLogged == Spec => []AttributesMatchTheLog
  <1>1. LoaderInv /\ AttributesInv => AttributesMatchTheLog
    <2> SUFFICES ASSUME LoaderInv, AttributesInv, phase \in {"kernel", "returned"}
                 PROVE  AttributesMatchTheLog
      BY DEF AttributesMatchTheLog
    <2>1. /\ PP!ProtectInv
          /\ ~ kernel.nx_compat \/ unavailable => ro = {} /\ xp = P!InitialXP
      BY DEF AttributesInv, P!AttributesInit
    <2>2. PP!WriteXorExecute
      BY <2>1, PP!NeverWritableAndExecutable, SamePPImage, DefaultNXAssumption,
         KernelsAssumption, AddrMaxAssumption, PageSizeAssumption
    <2>3. PP!ReportedSectionsAreProtected /\ PP!FailedSectionsAreRolledBack
      BY <2>1 DEF PP!ProtectInv
    <2>4. P!WriteXorExecute
      BY <2>2, SameGeometry DEF P!WriteXorExecute, PP!WriteXorExecute
    <2>5. P!ReportedSectionsAreProtected
      BY <2>3, SameGeometry
      DEF P!ReportedSectionsAreProtected, PP!ReportedSectionsAreProtected
    <2>6. P!FailedSectionsAreRolledBack
      BY <2>3, SameGeometry DEF P!FailedSectionsAreRolledBack, PP!FailedSectionsAreRolledBack
    <2> QED
      BY <2>1, <2>4, <2>5, <2>6 DEF AttributesMatchTheLog
  <1> QED
    BY <1>1, LoaderInvariant, AttributesInvariant, PTL

\* Where the first instruction of a kernel that declares NX_COMPAT faults, the
\* log said that there is no protocol, or named every code section around it.
THEOREM LoaderWarnsOfCompatibleEntryFault == Spec => []CompatibleEntryFaultsOnlyAfterWarning
  <1>1. LoaderInv /\ AttributesInv => CompatibleEntryFaultsOnlyAfterWarning
    <2> SUFFICES ASSUME LoaderInv, AttributesInv, phase = "kernel", kernel.nx_compat,
                        EntryAddress \div PageSize \in xp, ~ unavailable,
                        NEW i \in AroundEntry
                 PROVE  i \in warned
      BY DEF CompatibleEntryFaultsOnlyAfterWarning
    <2>1. PP!ProtectInv /\ cursor = Len(kernel.sections)
      BY DEF AttributesInv
    <2>2. /\ i \in PP!CodeSections \cap 1 .. cursor
          /\ EntryAddress \in PP!CodeBase(PP!Section(i))
               .. PP!CodeBase(PP!Section(i)) + PP!Section(i).virtual_size - 1
      BY <2>1, SameGeometry DEF AroundEntry, PP!CodeSections, PP!Section
    <2> QED
      BY <2>1, <2>2, PP!FaultingCodeIsNamed, SamePPImage, DefaultNXAssumption,
         KernelsAssumption, AddrMaxAssumption, PageSizeAssumption
  <1> QED
    BY <1>1, LoaderInvariant, AttributesInvariant, PTL

-----------------------------------------------------------------------------
(* Progress: how much start still has to do. *)

\* A step of the mapping leaves a section less, or is the last.
LEMMA MapAdvances ==
  ASSUME LoaderInv, AttributesInv, Map
  PROVE  Remaining' \in 0 .. Remaining - 1
  <1> DEFINE n == Len(kernel.sections)
  <1>1. /\ phase = "map" /\ status \in {"allocating", "mapping"} /\ M!MapNext
        /\ n \in Nat /\ mapped \in Nat /\ mapped <= n
        /\ status = "allocating" => mapped = 0
        /\ kernel' = kernel
    BY MapInvType DEF LoaderInv, Order, MP!MapInv, MP!NothingMappedYet, Map, M!MapNext,
       M!AllocatePages, M!MapSection, M!RefuseSection, M!FinishMapping
  <1>2. Remaining = IF status = "allocating" THEN 4 * n + 7 ELSE 4 * n + 6 - mapped
    BY <1>1 DEF Remaining
  <1>3. /\ phase' = "map" /\ status' # "allocating" => Remaining' = 4 * n + 6 - mapped'
        /\ phase' = "locate" => Remaining' = 3 * n + 5
        /\ phase' = "failed" => Remaining' = 0
    BY <1>1 DEF Remaining
  <1>4. CASE M!AllocatePages
    <2>1. /\ status = "allocating" /\ mapped' = 0
          /\ \/ status' = "mapping" /\ phase' = "map"
             \/ phase' = "failed"
      BY <1>1, <1>4 DEF M!AllocatePages, Map, AfterMapping, Proceed, Fail
    <2> HIDE DEF n
    <2> QED
      BY <1>1, <1>2, <1>3, <2>1
  <1>5. CASE M!MapSection
    <2>1. /\ status = "mapping" /\ status' = "mapping" /\ phase' = "map"
          /\ mapped < n /\ mapped' = mapped + 1
      BY <1>5 DEF M!MapSection, M!GoOn, Map, AfterMapping, Proceed
    <2> HIDE DEF n
    <2> QED
      BY <1>1, <1>2, <1>3, <2>1
  <1>6. CASE M!RefuseSection \/ M!FinishMapping
    <2>1. status = "mapping" /\ (phase' = "failed" \/ phase' = "locate")
      BY <1>6 DEF M!RefuseSection, M!FinishMapping, Map, AfterMapping, Proceed, Fail
    <2> HIDE DEF n
    <2> QED
      BY <1>1, <1>2, <1>3, <2>1
  <1> QED
    BY <1>1, <1>4, <1>5, <1>6 DEF M!MapNext

\* A call less is left for the section at hand, or the section is done with.
LEMMA ProtectAdvances ==
  ASSUME LoaderInv, AttributesInv, Protect
  PROVE  Remaining' \in 0 .. Remaining - 1
  <1> DEFINE n == Len(kernel.sections)
  <1>1. /\ phase = "protect" /\ n \in Nat /\ cursor \in 0 .. n
        /\ step \in {"none", "read_only", "not_executable"} /\ kernel' = kernel
    BY MapInvType DEF Protect, Protects, mappingVars, LoaderInv, Order, AttributesInv,
       PP!ProtectInv, PP!ProtectTypeOK, PP!Step
  <1>2. Remaining = 3 * (n - cursor) + 4 - CallsMade
    BY <1>1 DEF Remaining
  <1>3. /\ phase' = "protect" => Remaining' = 3 * (n - cursor') + 4 - CallsMade'
        /\ phase' = "set_image" => Remaining' = 3
    BY <1>1 DEF Remaining
  <1>4. /\ step = "none" => CallsMade = 0
        /\ step = "read_only" => CallsMade = 1
        /\ step = "not_executable" => CallsMade = 2
        /\ step' = "none" => CallsMade' = 0
        /\ step' = "read_only" => CallsMade' = 1
        /\ step' = "not_executable" => CallsMade' = 2
    BY DEF CallsMade
  <1>5. CASE P!ProtectNext /\ UNCHANGED phase
    <2>1. cursor < n
      BY <1>1, <1>5 DEF LoaderInv, Order, P!ProtectNext, P!SkipSection, P!SetReadOnly,
                        P!AtSection, P!ClearNoExecute, P!RollBack
    <2>2. \/ cursor' = cursor + 1 /\ step' = "none"
          \/ cursor' = cursor /\ step = "none" /\ step' = "read_only"
          \/ cursor' = cursor /\ step = "read_only" /\ step' = "not_executable"
      BY <1>5 DEF P!ProtectNext, P!SkipSection, P!SetReadOnly, P!ClearNoExecute,
                  P!RollBack, P!Continue
    <2> HIDE DEF n
    <2> QED
      BY <1>1, <1>2, <1>3, <1>4, <1>5, <2>1, <2>2
  <1>6. CASE cursor = n /\ phase' = "set_image"
    <2>1. step = "none"
      BY <1>1, <1>6 DEF LoaderInv, Order
    <2> HIDE DEF n
    <2> QED
      BY <1>1, <1>2, <1>3, <1>4, <1>6, <2>1
  <1> QED
    BY <1>5, <1>6 DEF Protect

\* start of a kernel of n sections decides within 4n + 7 steps.
THEOREM LoaderAdvances == Spec => StartAdvances
  <1>1. LoaderInv /\ AttributesInv /\ [Next]_vars =>
          [StartNext => Remaining' \in 0 .. Remaining - 1]_vars
    <2> SUFFICES ASSUME LoaderInv, AttributesInv, StartNext
                 PROVE  Remaining' \in 0 .. Remaining - 1
      OBVIOUS
    <2>1. CASE Locate
      <3>1. /\ phase = "locate" /\ phase' \in {"protect", "set_image"} /\ cursor' = 0
            /\ step' = "none" /\ kernel' = kernel
        BY <2>1 DEF Locate, mappingVars, attributeVars, AttributesInv, P!AttributesInit
      <3>2. Len(kernel.sections) \in Nat
        BY MapInvType DEF LoaderInv
      <3> QED
        BY <3>1, <3>2 DEF Remaining, CallsMade
    <2>2. CASE SetImage \/ SetLoadOptions \/ Enter
      BY <2>2 DEF SetImage, SetLoadOptions, Enter, Proceed, Fail, Remaining
    <2> QED
      BY <2>1, <2>2, MapAdvances, ProtectAdvances DEF StartNext
  <1> QED
    BY <1>1, LoaderInvariant, AttributesInvariant, PTL DEF Spec, StartAdvances

-----------------------------------------------------------------------------
(* Why start gives up. *)

NoPagesYet == status = "allocating" => base = 0

\* A kernel that fits, with no command line to set, is only given up for want
\* of pages: in the pages it got, its entry point is an address.
THEOREM LoaderGivesUpForAReason == Spec => []GivesUpForAReason
  <1>1. Init => GivesUpForAReason /\ NoPagesYet
    BY DEF Init, M!MapInit, GivesUpForAReason, NoPagesYet
  <1>2. LoaderInv /\ GivesUpForAReason /\ NoPagesYet /\ [Next]_vars =>
          (GivesUpForAReason /\ NoPagesYet)'
    <2> SUFFICES ASSUME LoaderInv, GivesUpForAReason, NoPagesYet, [Next]_vars
                 PROVE  (GivesUpForAReason /\ NoPagesYet)'
      OBVIOUS
    <2>1. kernel \in Image /\ Len(kernel.sections) \in Nat
      BY MapInvType DEF LoaderInv
    <2>2. CASE Map
      <3>1. phase = "map" /\ M!MapNext /\ kernel' = kernel /\ cmdline' = cmdline
        BY <2>2 DEF Map, M!MapNext, M!AllocatePages, M!MapSection, M!RefuseSection,
                    M!FinishMapping
      <3>2. CASE M!AllocatePages
        BY <2>2, <3>2 DEF M!AllocatePages, Map, AfterMapping, Proceed, NoPagesYet,
                          GivesUpForAReason
      <3>3. CASE M!MapSection \/ M!FinishMapping
        BY <2>2, <3>3 DEF M!MapSection, M!FinishMapping, Map, AfterMapping, Proceed,
                          NoPagesYet, GivesUpForAReason
      <3>4. CASE M!RefuseSection
        <4> DEFINE s == kernel.sections[mapped + 1]
        <4>1. mapped + 1 \in 1 .. Len(kernel.sections) /\ ~ Mappable(kernel, s)
              /\ status' = "failed"
          BY <2>1, <3>4, MapInvType, SameChecks DEF M!RefuseSection, LoaderInv
        <4>2. s \in SectionHeader /\ kernel.base_address \in Nat /\ kernel.size \in Nat
              /\ kernel.data_len \in Nat
          BY <2>1, <4>1 DEF Image
        <4> HIDE DEF s
        <4>3. \/ s.virtual_address < kernel.base_address
              \/ s.virtual_address - kernel.base_address + s.virtual_size > kernel.size
              \/ /\ s.virtual_size > 0 /\ s.size_of_raw_data > 0
                 /\ s.pointer_to_raw_data + CopySize(s) > kernel.data_len
          BY <4>1, <4>2 DEF Mappable, InsideImage, InsideFile, DestOffset, CopySize, SectionHeader
        <4> QED
          BY <3>1, <4>1, <4>3 DEF GivesUpForAReason, NoPagesYet, CopySize, s
      <3> QED
        BY <3>1, <3>2, <3>3, <3>4 DEF M!MapNext
    <2>3. CASE Locate \/ Protect \/ SetImage
      BY <2>3 DEF Locate, Protect, Protects, SetImage, mappingVars, GivesUpForAReason,
                  NoPagesYet
    <2>4. CASE SetLoadOptions
      BY <2>4 DEF SetLoadOptions, Proceed, mappingVars, GivesUpForAReason, NoPagesYet
    <2>5. CASE Enter
      <3>1. /\ UNCHANGED <<status, kernel, base, cmdline>>
            /\ base \in Nat /\ base + RoundUp(kernel.size) <= AddrMax + 1
        BY <2>5 DEF Enter, mappingVars, LoaderInv, Order, Room
      <3>2. ASSUME EntryAddress > AddrMax
            PROVE  kernel.entry_point_rva >= kernel.size
        <4>1. kernel.size \in Nat /\ kernel.entry_point_rva \in Nat
          BY <2>1 DEF Image
        <4>2. RoundUp(kernel.size) \in Nat /\ kernel.size <= RoundUp(kernel.size)
          BY <4>1, RoundUpCovers
        <4>3. base + kernel.entry_point_rva > AddrMax
          BY <3>2 DEF EntryAddress
        <4> QED
          BY <3>1, <4>1, <4>2, <4>3, AddrMaxAssumption
      <3>3. phase' = "failed" => kernel.entry_point_rva >= kernel.size
        BY <2>5, <3>2 DEF Enter
      <3> QED
        BY <2>5, <3>1, <3>3 DEF Enter, GivesUpForAReason, NoPagesYet
    <2>6. CASE KernelReturns \/ UNCHANGED vars
      <3>1. UNCHANGED <<status, kernel, base, cmdline>>
            /\ (phase' = "failed" => phase = "failed")
        BY <2>6 DEF KernelReturns, vars, mappingVars
      <3> QED
        BY <3>1 DEF GivesUpForAReason, NoPagesYet
    <2> QED
      BY <2>2, <2>3, <2>4, <2>5, <2>6 DEF Next, StartNext
  <1> QED
    BY <1>1, <1>2, LoaderInvariant, PTL DEF Spec

-----------------------------------------------------------------------------
(* The handover. *)

\* The greatest element of a set that has one.
LEMMA GreatestIsMax ==
  ASSUME NEW S \in SUBSET Nat, NEW i \in S, \A j \in S : j <= i
  PROVE  Handed!Max(S) = i
  <1> DEFINE Greatest(x) == \A y \in S : x >= y
  <1>1. i \in S /\ Greatest(i)
    OBVIOUS
  <1>2. \A x \in S : Greatest(x) => x = i
    OBVIOUS
  <1>3. Handed!Max(S) = CHOOSE x \in S : Greatest(x)
    BY DEF Handed!Max
  <1> HIDE DEF Greatest
  <1> QED
    BY <1>1, <1>2, <1>3

\* Once the mapping is done memory is, byte by byte, what the section table
\* says of the image.
LEMMA MemoryIsContents ==
  ASSUME LoaderInv, status = "mapped", mapped = Len(kernel.sections),
         base \in Nat, base + RoundUp(kernel.size) <= AddrMax + 1
  PROVE  [offset \in 0 .. kernel.size - 1 |-> mem[base + offset]] = Handed!Contents(kernel)
  <1>1. kernel \in Image /\ kernel.size \in Nat /\ Len(kernel.sections) \in Nat
    BY MapInvType DEF LoaderInv, Image
  <1> DEFINE Byt(offset) ==
        LET over == {i \in 1 .. Len(kernel.sections) :
                       offset \in Handed!DestOffset(kernel, kernel.sections[i]) ..
                         Handed!DestOffset(kernel, kernel.sections[i])
                           + kernel.sections[i].virtual_size - 1}
            s    == kernel.sections[Handed!Max(over)]
            into == offset - Handed!DestOffset(kernel, s)
        IN  IF over = {} THEN Handed!Untouched
            ELSE IF into < s.size_of_raw_data THEN s.pointer_to_raw_data + into
            ELSE Handed!Zero
  <1>2. ASSUME NEW offset \in 0 .. kernel.size - 1
        PROVE  mem[base + offset] = Byt(offset)
    <2> DEFINE a == base + offset
               over == {i \in 1 .. mapped : MP!Covers(kernel.sections[i], a)}
    <2>1. a \in MP!Addr
      <3>1. kernel.size <= RoundUp(kernel.size) /\ RoundUp(kernel.size) \in Nat
        BY <1>1, RoundUpCovers
      <3> QED
        BY <1>1, <3>1, AddrMaxAssumption DEF MP!Addr
    <2>2. IF over = {}
          THEN mem[a] = MP!Untouched
          ELSE \E i \in over : /\ \A j \in over : j <= i
                               /\ mem[a] = MP!LoadedByte(kernel.sections[i], a)
      BY <2>1 DEF LoaderInv, MP!MapInv, MP!LastSectionWins
    <2>3. ASSUME NEW i \in 1 .. Len(kernel.sections)
          PROVE  /\ Handed!DestOffset(kernel, kernel.sections[i]) \in Int
                 /\ kernel.sections[i].virtual_size \in Nat
                 /\ MP!SectionBase(kernel.sections[i])
                      = base + Handed!DestOffset(kernel, kernel.sections[i])
      <3>1. kernel.sections[i] \in SectionHeader /\ kernel.base_address \in Nat
        BY <1>1 DEF Image
      <3>2. /\ kernel.sections[i].virtual_address \in Nat
            /\ kernel.sections[i].virtual_size \in Nat
        BY <3>1 DEF SectionHeader
      <3> QED
        BY <3>1, <3>2 DEF MP!SectionBase, MP!DestOffset, Handed!DestOffset
    <2>4. over = {i \in 1 .. Len(kernel.sections) :
                    offset \in Handed!DestOffset(kernel, kernel.sections[i]) ..
                      Handed!DestOffset(kernel, kernel.sections[i])
                        + kernel.sections[i].virtual_size - 1}
      <3>1. ASSUME NEW i \in 1 .. Len(kernel.sections)
            PROVE  MP!Covers(kernel.sections[i], a) <=>
                     offset \in Handed!DestOffset(kernel, kernel.sections[i]) ..
                       Handed!DestOffset(kernel, kernel.sections[i])
                         + kernel.sections[i].virtual_size - 1
        <4> DEFINE to == Handed!DestOffset(kernel, kernel.sections[i])
                   n  == kernel.sections[i].virtual_size
        <4>1. to \in Int /\ n \in Nat /\ MP!SectionBase(kernel.sections[i]) = base + to
          BY <2>3
        <4>2. MP!Covers(kernel.sections[i], a) <=> a \in base + to .. base + to + n - 1
          BY <4>1 DEF MP!Covers
        <4> HIDE DEF to, n
        <4>3. a \in base + to .. base + to + n - 1 <=> offset \in to .. to + n - 1
          BY <4>1
        <4> QED
          BY <4>2, <4>3 DEF to, n
      <3> QED
        BY <3>1
    <2>5. CASE over = {}
      BY <2>2, <2>4, <2>5 DEF MP!Untouched, Handed!Untouched
    <2>6. CASE over # {}
      <3>1. PICK i \in over : /\ \A j \in over : j <= i
                              /\ mem[a] = MP!LoadedByte(kernel.sections[i], a)
        BY <2>2, <2>6
      <3>2. over \in SUBSET Nat /\ i \in 1 .. Len(kernel.sections)
        OBVIOUS
      <3> HIDE DEF over
      <3>3. Handed!Max(over) = i
        BY <3>1, <3>2, GreatestIsMax
      <3>4. a - MP!SectionBase(kernel.sections[i])
              = offset - Handed!DestOffset(kernel, kernel.sections[i])
        BY <1>1, <2>3, <3>2
      <3>5. Byt(offset) =
              LET s    == kernel.sections[i]
                  into == offset - Handed!DestOffset(kernel, s)
              IN  IF into < s.size_of_raw_data THEN s.pointer_to_raw_data + into
                  ELSE Handed!Zero
        BY <2>4, <2>6, <3>3
      <3> QED
        BY <3>1, <3>4, <3>5 DEF MP!LoadedByte, MP!Zero, Handed!Zero
    <2> QED
      BY <2>5, <2>6
  <1>3. Handed!Contents(kernel) = [offset \in 0 .. kernel.size - 1 |-> Byt(offset)]
    BY DEF Handed!Contents
  <1> HIDE DEF Byt
  <1> QED
    BY <1>2, <1>3

Preparing == phase \notin {"kernel", "returned", "failed"}

\* What the abstract variables are in terms of the phase.
LEMMA HandedVars ==
  /\ Preparing => Handed!handoverVars = <<kernel, cmdline, "preparing", Handed!NotHanded>>
  /\ phase = "failed" => Handed!handoverVars = <<kernel, cmdline, "refused", Handed!NotHanded>>
  /\ \A o \in {"kernel", "returned"} : phase = o =>
       Handed!handoverVars =
         <<kernel, cmdline, o,
           [ contents |-> [offset \in 0 .. loadedImage.size - 1 |->
                             mem[loadedImage.base + offset]],
             size |-> loadedImage.size, entry |-> EntryAddress - loadedImage.base,
             options |-> loadedImage.options ]>>
  BY DEF Preparing, Handed!handoverVars, Handed!NotHanded

\* start keeps preparing, or it refuses.
LEMMA PreparesOrRefuses ==
  ASSUME Preparing, UNCHANGED <<kernel, cmdline>>, Preparing' \/ phase' = "failed"
  PROVE  [Handed!Next]_(Handed!handoverVars)
  <1>1. CASE Preparing'
    BY <1>1, HandedVars DEF Preparing, Handed!handoverVars
  <1>2. CASE phase' = "failed"
    BY <1>2 DEF Preparing, Handed!Next, Handed!Refuse
  <1> QED
    BY <1>1, <1>2

LEMMA EnterHandsOver ==
  ASSUME LoaderInv, Enter, phase' = "kernel"
  PROVE  Handed!HandOver
  <1> USE DEF Enter, mappingVars
  <1>1. /\ phase = "enter" /\ status = "mapped" /\ mapped = Len(kernel.sections)
        /\ loadedImage = [base |-> base, size |-> kernel.size,
                          options |-> Handed!Options(cmdline)]
        /\ base \in Nat /\ base + RoundUp(kernel.size) <= AddrMax + 1
        /\ UNCHANGED <<kernel, cmdline, base, mem, loadedImage>>
    BY DEF LoaderInv, Order, Room, Description, Describes
  <1>2. \A i \in 1 .. Len(kernel.sections) : Handed!Mappable(kernel, kernel.sections[i])
    BY <1>1, SameChecks DEF LoaderInv, MP!MapInv, MP!MappedSectionsPassed
  <1>3. kernel.entry_point_rva \in Nat
    BY MapInvType DEF LoaderInv, Image
  <1>4. EntryAddress' - loadedImage'.base = kernel.entry_point_rva
    BY <1>1, <1>3 DEF EntryAddress
  <1>5. [offset \in 0 .. loadedImage'.size - 1 |-> mem'[loadedImage'.base + offset]]
          = Handed!Contents(kernel)
    BY <1>1, MemoryIsContents
  <1>6. [ contents |-> [offset \in 0 .. loadedImage'.size - 1 |->
                          mem'[loadedImage'.base + offset]],
          size |-> loadedImage'.size, entry |-> EntryAddress' - loadedImage'.base,
          options |-> loadedImage'.options ] = Handed!HandedOver(kernel, cmdline)
    <2>1. loadedImage'.size = kernel.size /\ loadedImage'.options = Handed!Options(cmdline)
      BY <1>1
    <2> HIDE DEF Enter
    <2> QED
      BY <1>4, <1>5, <2>1, Zenon DEF Handed!HandedOver
  <1>7. Handed!Tellable(cmdline)
    BY <1>1, SameOptions DEF LoaderInv, LineFits
  <1> QED
    BY <1>1, <1>2, <1>6, <1>7 DEF Handed!HandOver

LEMMA KernelReturnsReturns ==
  ASSUME KernelReturns
  PROVE  Handed!Return
  BY DEF KernelReturns, mappingVars, Handed!Return, EntryAddress

LEMMA StepRefines == LoaderInv /\ [Next]_vars => [Handed!Next]_(Handed!handoverVars)
  <1> SUFFICES ASSUME LoaderInv, [Next]_vars
               PROVE  [Handed!Next]_(Handed!handoverVars)
    OBVIOUS
  <1>1. CASE Map
    <2>1. UNCHANGED <<kernel, cmdline>> /\ Preparing
      BY <1>1 DEF Map, M!MapNext, M!AllocatePages, M!MapSection, M!RefuseSection,
                  M!FinishMapping, Preparing
    <2>2. Preparing' \/ phase' = "failed"
      <3>1. status' \in {"mapping", "mapped", "failed"}
        BY <1>1 DEF LoaderInv, Order, Map, M!MapNext, M!AllocatePages, M!MapSection,
                    M!RefuseSection, M!FinishMapping
      <3> QED
        BY <1>1, <3>1 DEF Map, AfterMapping, Proceed, Fail, Preparing
    <2> QED
      BY <2>1, <2>2, PreparesOrRefuses
  <1>2. CASE Locate \/ SetImage
    BY <1>2, PreparesOrRefuses DEF Locate, SetImage, Preparing, mappingVars
  <1>3. CASE Protect
    BY <1>3, PreparesOrRefuses DEF Protect, Protects, Preparing, mappingVars
  <1>4. CASE SetLoadOptions
    BY <1>4, PreparesOrRefuses DEF SetLoadOptions, Proceed, Fail, Preparing, mappingVars
  <1>5. CASE Enter
    <2>1. CASE phase' = "kernel"
      BY <1>5, <2>1, EnterHandsOver DEF Handed!Next
    <2>2. CASE phase' # "kernel"
      BY <1>5, <2>2, PreparesOrRefuses DEF Enter, Fail, Preparing, mappingVars
    <2> QED
      BY <2>1, <2>2
  <1>6. CASE KernelReturns
    BY <1>6, KernelReturnsReturns DEF Handed!Next
  <1>7. CASE UNCHANGED vars
    BY <1>7 DEF vars, mappingVars, attributeVars, Handed!handoverVars, EntryAddress
  <1> QED
    BY <1>1, <1>2, <1>3, <1>4, <1>5, <1>6, <1>7 DEF Next, StartNext

\* The handover without its promise to decide, which is liveness.
HandoverSafety == Handed!Init /\ [][Handed!Next]_(Handed!handoverVars)

\* Every step of start is a handover, a refusal, a return, or nothing that the
\* kernel or the firmware could tell from preparing.
THEOREM LoaderRefinesHandover == Spec => HandoverSafety
  <1>1. Init => Handed!Init
    BY DEF Init, M!MapInit, Handed!Init, Handed!NotHanded
  <1> QED
    BY <1>1, StepRefines, LoaderInvariant, PTL DEF Spec, HandoverSafety
=============================================================================
