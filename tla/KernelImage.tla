----------------------------- MODULE KernelImage -----------------------------
(***************************************************************************)
(* The kernel PE image as the stub sees it: the header fields that         *)
(* Image::parse of src/pe/kernel.rs keeps, the checks it makes, and the    *)
(* geometry that the mapping and the protection of sections share.         *)
(*                                                                         *)
(* All header fields are u16 or u32 and are widened to u64 before any      *)
(* arithmetic, so sums of two of them never overflow: the checked_add      *)
(* branches of mapping.rs (lines 34, 76, 113, 116) and of protection.rs    *)
(* (line 74) cannot be taken and are not modelled. Sums with a run-time    *)
(* address can overflow: AddrMax stands for u64::MAX.                      *)
(***************************************************************************)
EXTENDS Integers, Sequences

CONSTANTS
  PageSize,   \* bytes in a page: 0x1000 in the code
  AddrMax,    \* the largest address: u64::MAX in the code
  Kernels     \* the parsed kernel images the stub may meet

ASSUME PageSizeAssumption == PageSize \in Nat \ {0}
ASSUME AddrMaxAssumption  == AddrMax \in Nat

Addr == 0 .. AddrMax

\* code: one of IMAGE_SCN_CNT_CODE and IMAGE_SCN_MEM_EXECUTE is set.
SectionHeader ==
  [ virtual_address : Nat, virtual_size : Nat,
    pointer_to_raw_data : Nat, size_of_raw_data : Nat, code : BOOLEAN ]

\* data_len is the length of the file the image was parsed from.
Image ==
  [ data_len : Nat, entry_point_rva : Nat, base_address : Nat, size : Nat,
    nx_compat : BOOLEAN, sections : Seq(SectionHeader) ]

ASSUME KernelsAssumption == Kernels \subseteq Image

\* What a byte of the loaded image can be: a byte of the file, named by its
\* offset there, a zero, or whatever the memory held before.
Untouched == -2
Zero      == -1
Byte      == Nat \cup {Untouched, Zero}

-----------------------------------------------------------------------------
(* Geometry of a section s of an image k.                                  *)

\* The section's offset in the loaded image. The mapping refuses a negative
\* one before it is used.
DestOffset(k, s) == s.virtual_address - k.base_address

CopySize(s) ==
  IF s.size_of_raw_data <= s.virtual_size THEN s.size_of_raw_data
                                          ELSE s.virtual_size

PageCount(n) == (n + PageSize - 1) \div PageSize
RoundUp(n)   == PageCount(n) * PageSize

\* Plausible slips: only the start of the section is compared with the size;
\* a section that ends where the image does is refused.
InsideImageStartOnly(k, s) ==
  s.virtual_address >= k.base_address /\ DestOffset(k, s) <= k.size

InsideImageStrict(k, s) ==
  s.virtual_address >= k.base_address /\ DestOffset(k, s) + s.virtual_size < k.size

InsideImage(k, s) ==
  /\ s.virtual_address >= k.base_address
  /\ DestOffset(k, s) + s.virtual_size <= k.size

\* A plausible slip: the length is compared, the offset forgotten.
InsideFileNoOffset(k, s) == CopySize(s) <= k.data_len

InsideFile(k, s) ==
  CopySize(s) > 0 => s.pointer_to_raw_data + CopySize(s) <= k.data_len

\* The checks map_sections makes before it copies a section.
Mappable(k, s) == InsideImage(k, s) /\ InsideFile(k, s)
=============================================================================
