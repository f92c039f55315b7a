-------------------------------- MODULE MCStub --------------------------------
(* UKIs with and without an initrd, a command line and a TPM build; kernels  *)
(* that are started, that parse refuses for one reason each, and one that    *)
(* the mapping refuses.                                                      *)
EXTENDS Stub

MCText(vsize) ==
  [ virtual_address |-> 0, virtual_size |-> vsize, pointer_to_raw_data |-> 1,
    size_of_raw_data |-> 1, code |-> TRUE ]

\* A header with six data directories of which the fifth, the signature, is
\* in use, one without any, and what makes parse refuse one.
MCHeader ==
  [ readable |-> TRUE, data_len |-> 2, machine |-> ExpectedMachine,
    address_of_entry_point |-> 1, image_base |-> 0, size_of_image |-> 2,
    major_image_version |-> 1, dll_characteristics |-> 256,
    data_directories |-> <<0, 0, 0, 0, 8, 0>>, section_relocations |-> <<0>>,
    sections |-> <<MCText(2)>> ]

MCShort      == [MCHeader EXCEPT !.data_directories = <<>>, !.dll_characteristics = 511]
MCTooLarge   == [MCHeader EXCEPT !.sections = <<MCText(3)>>]
MCUnreadable == [MCHeader EXCEPT !.readable = FALSE]
MCForeign    == [MCHeader EXCEPT !.machine = "other"]
MCNoEntry    == [MCHeader EXCEPT !.address_of_entry_point = 0]
MCOld        == [MCHeader EXCEPT !.major_image_version = 0]
MCBaseReloc  == [MCHeader EXCEPT !.data_directories = <<0, 0, 0, 0, 0, 8>>]
MCReloc      == [MCHeader EXCEPT !.section_relocations = <<4>>]

MCUki(features, header, initrd, line) ==
  [ features |-> features, sections |-> 3, header |-> header,
    initrd |-> initrd, cmdline |-> line ]

MCUkis ==
  { MCUki({"tpm"}, MCHeader, TRUE, <<97, 0>>),
    MCUki({"tpm", "muak"}, MCShort, FALSE, NoCmdline),
    MCUki({"tpm", "muak"}, MCShort, FALSE, <<97, 32>>),
    MCUki({"tpm"}, MCTooLarge, TRUE, <<97>>) }
  \cup { MCUki({}, h, TRUE, NoCmdline) :
           h \in {MCUnreadable, MCForeign, MCNoEntry, MCOld, MCBaseReloc, MCReloc} }

MCKernels == {Parsed(u.header) : u \in {v \in MCUkis : Accepts(v.header)}}

MCKeyOption == <<32, 107>>

MCInherited == <<115, 0, 0, 0>>

\* A start whose initrd stays behind, and one that brings none.
MCPair == {MCUki({}, MCHeader, TRUE, NoCmdline),
           MCUki({}, MCHeader, FALSE, NoCmdline)}
=============================================================================
