-------------------------------- MODULE Mapping --------------------------------
(***************************************************************************)
(* map_sections of src/pe/loader/mapping.rs: allocate the pages of the     *)
(* kernel image, then copy and zero-fill its sections one after another    *)
(* in the order of the section table. Memory is a function of addresses;   *)
(* a byte copied from the kernel file is named by its offset in the file.  *)
(***************************************************************************)
EXTENDS KernelImage

VARIABLES
  status,   \* where map_sections stands
  kernel,   \* its argument
  base,     \* base_ptr, 0 before the pages are allocated
  mem,      \* what every address holds
  mapped    \* the number of sections the loop has completed

mapVars == <<status, kernel, base, mem, mapped>>

Status == {"allocating", "mapping", "mapped", "failed"}

-----------------------------------------------------------------------------
(* The addresses section s occupies, and what the loop leaves at one of    *)
(* them: the first CopySize(s) bytes come from the file, the tail is zero. *)

SectionBase(s) == base + DestOffset(kernel, s)

Covers(s, a) == a \in SectionBase(s) .. SectionBase(s) + s.virtual_size - 1

\* A plausible slip: the tail keeps what the page held.
ByteAtNoZeroFill(s, a) ==
  LET offset == a - SectionBase(s)
  IN  IF offset < CopySize(s) THEN s.pointer_to_raw_data + offset ELSE mem[a]

ByteAt(s, a) ==
  LET offset == a - SectionBase(s)
  IN  IF offset < CopySize(s) THEN s.pointer_to_raw_data + offset ELSE Zero

-----------------------------------------------------------------------------
MapInit ==
  /\ status = "allocating"
  /\ kernel \in Kernels
  /\ base = 0
  /\ mem = [a \in Addr |-> Untouched]
  /\ mapped = 0

\* The firmware picks any page-aligned run of pages above page zero (the uefi
\* crate does not hand out address zero), or has none.
AllocatePages ==
  /\ status = "allocating"
  /\ \/ /\ \E page \in 1 .. AddrMax \div PageSize :
             /\ page * PageSize + RoundUp(kernel.size) <= AddrMax + 1
             /\ base' = page * PageSize
        /\ status' = "mapping"
     \/ /\ status' = "failed"
        /\ UNCHANGED base
  /\ UNCHANGED <<kernel, mem, mapped>>

\* The loop goes on with the next section; a plausible slip skips one.
GoOnTwice == mapped' = mapped + 2

GoOn == mapped' = mapped + 1

MapSection ==
  /\ status = "mapping"
  /\ mapped < Len(kernel.sections)
  /\ LET s == kernel.sections[mapped + 1]
     IN  /\ Mappable(kernel, s)
         /\ mem' = [a \in Addr |-> IF Covers(s, a) THEN ByteAt(s, a) ELSE mem[a]]
  /\ GoOn
  /\ UNCHANGED <<status, kernel, base>>

\* The checks precede the copy: a refused section writes nothing. The pages,
\* with the sections already copied, are not given back.
RefuseSection ==
  /\ status = "mapping"
  /\ mapped < Len(kernel.sections)
  /\ ~ Mappable(kernel, kernel.sections[mapped + 1])
  /\ status' = "failed"
  /\ UNCHANGED <<kernel, base, mem, mapped>>

FinishMapping ==
  /\ status = "mapping"
  /\ mapped = Len(kernel.sections)
  /\ status' = "mapped"
  /\ UNCHANGED <<kernel, base, mem, mapped>>

MapNext == AllocatePages \/ MapSection \/ RefuseSection \/ FinishMapping

MapSpec == MapInit /\ [][MapNext]_mapVars

-----------------------------------------------------------------------------
(* Properties.                                                             *)

\* Every variable stays in its type.
MapTypeOK ==
  /\ status \in Status
  /\ kernel \in Image
  /\ base \in Nat
  /\ mem \in [Addr -> Byte]
  /\ mapped \in 0 .. Len(kernel.sections)

\* The unsafe copies and fills of copy_section_data and zero_section_tail
\* only ever write to the image's own bytes, however sections overlap and
\* whichever section is refused later: what lies outside keeps its contents.
WritesStayInsideImage ==
  \A a \in Addr : mem[a] # Untouched => a \in base .. base + kernel.size - 1

\* No byte placed in memory comes from beyond the end of the kernel file.
ReadsStayInsideFile ==
  \A a \in Addr : mem[a] \in Nat => mem[a] < kernel.data_len

\* What the PE format puts at address a of a loaded section s.
LoadedByte(s, a) ==
  LET offset == a - SectionBase(s)
  IN  IF offset < s.size_of_raw_data THEN s.pointer_to_raw_data + offset ELSE Zero

\* Memory is exactly what the section table says, a later section winning
\* over an earlier one: a byte covered by mapped sections holds the file
\* byte, or the zero, of the last of them, and any other byte is untouched.
\* The zero fill of one section never destroys another section's data
\* unless their address ranges meet.
LastSectionWins ==
  \A a \in Addr :
    LET over == {i \in 1 .. mapped : Covers(kernel.sections[i], a)}
    IN  IF over = {}
        THEN mem[a] = Untouched
        ELSE \E i \in over :
               /\ \A j \in over : j <= i
               /\ mem[a] = LoadedByte(kernel.sections[i], a)

\* tests of src/pe/kernel.rs (parse_happy_path_metadata) accept a kernel whose
\* ImageBase is not zero while its sections, as PE requires, have addresses
\* relative to that base: an image whose sections lie inside SizeOfImage and
\* inside the file is mapped unless there is no memory for it.
WellFormedKernelsAreMapped ==
  (status = "failed" /\ base # 0) =>
    \E i \in 1 .. Len(kernel.sections) :
      LET s == kernel.sections[i]
      IN  \/ s.virtual_address + s.virtual_size > kernel.size
          \/ ~ InsideFile(kernel, s)
=============================================================================
