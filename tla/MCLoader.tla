------------------------------- MODULE MCLoader -------------------------------
(* Kernels of up to three sections in at most three two-byte pages: code     *)
(* and data, overlapping, refused at the first or at a later section, with   *)
(* an entry point beyond the image; command lines that are absent, blank,    *)
(* terminated, or too long for the six bytes load options may have.          *)
EXTENDS Loader

MCSection(va, vsize, ptr, raw, isCode) ==
  [ virtual_address |-> va, virtual_size |-> vsize, pointer_to_raw_data |-> ptr,
    size_of_raw_data |-> raw, code |-> isCode ]

MCImage(entry, size, nx, sections) ==
  [ data_len |-> 4, entry_point_rva |-> entry, base_address |-> 0,
    size |-> size, nx_compat |-> nx, sections |-> sections ]

Text  == MCSection(0, 2, 0, 2, TRUE)
Data  == MCSection(2, 2, 2, 1, FALSE)
Init2 == MCSection(4, 1, 3, 1, TRUE)
Over  == MCSection(1, 2, 3, 1, FALSE)
Bad   == MCSection(2, 2, 4, 1, FALSE)
Far   == MCSection(4, 3, 0, 0, TRUE)

MCKernels ==
  { MCImage(e, 5, nx, secs) :
      e \in {1, 4, 7}, nx \in BOOLEAN,
      secs \in { <<Text, Data>>, <<Text, Data, Init2>>, <<Data, Over, Text>>,
                 <<Text, Bad>>, <<Text, Far>> } }

MCCmdlines == {NoCmdline, <<>>, <<32, 0>>, <<97>>, <<97, 0>>, <<97, 98, 32>>, <<97, 98, 99>>}

\* One well-formed kernel, and one whose entry point lies beyond its image.
GoodKernel == {MCImage(1, 4, FALSE, <<Text, Data>>)}
FarEntry   == {MCImage(6, 4, FALSE, <<Text, Data>>)}

NoLine    == {NoCmdline}

\* The stub was started with an option of its own: "s".
MCInherited == <<115, 0, 0, 0>>
=============================================================================
