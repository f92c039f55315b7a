----------------------------- MODULE KernelHeader -----------------------------
(***************************************************************************)
(* Image::parse of src/pe/kernel.rs: which kernel files the stub takes,    *)
(* and what it keeps of their headers. Reading the headers out of the      *)
(* bytes is the object crate's.                                            *)
(***************************************************************************)
EXTENDS KernelImage

CONSTANT ExpectedMachine   \* EXPECTED_MACHINE of the build's architecture

\* The data directory that holds base relocations, counted from zero.
BaseRelocEntry == 5

MinImageVersion == 1

\* readable: the DOS header, the NT headers and the section table parse.
\* data_directories are the sizes of as many directories as the file has;
\* section_relocations the sections' pointers to relocations.
Header ==
  [ readable : BOOLEAN, data_len : Nat, machine : {ExpectedMachine, "other"},
    address_of_entry_point : Nat, image_base : Nat, size_of_image : Nat,
    major_image_version : Nat, dll_characteristics : Nat,
    data_directories : Seq(Nat), section_relocations : Seq(Nat),
    sections : Seq(SectionHeader) ]

\* A plausible slip: directories are counted from one.
RelocSizeFromOne(h) ==
  IF BaseRelocEntry <= Len(h.data_directories) THEN h.data_directories[BaseRelocEntry] ELSE 0

RelocSize(h) ==
  IF BaseRelocEntry < Len(h.data_directories) THEN h.data_directories[BaseRelocEntry + 1] ELSE 0

\* What passes the checks of parse.
Accepts(h) ==
  /\ h.readable
  /\ h.machine = ExpectedMachine
  /\ h.address_of_entry_point # 0
  /\ h.major_image_version >= MinImageVersion
  /\ RelocSize(h) = 0
  /\ \A i \in DOMAIN h.section_relocations : h.section_relocations[i] = 0

\* IMAGE_DLLCHARACTERISTICS_NX_COMPAT is bit 8.
NxCompat(h) == (h.dll_characteristics \div 256) % 2 = 1

Parsed(h) ==
  [ data_len |-> h.data_len, entry_point_rva |-> h.address_of_entry_point,
    base_address |-> h.image_base, size |-> h.size_of_image,
    nx_compat |-> NxCompat(h), sections |-> h.sections ]
=============================================================================
