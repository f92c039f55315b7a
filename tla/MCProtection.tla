---------------------------- MODULE MCProtection ----------------------------
(* Two or three sections of zero to three bytes, aligned or not, apart or   *)
(* overlapping, in an image of up to three two-byte pages, anywhere in an   *)
(* address space of six pages: also at its end.                             *)
EXTENDS Protection

MCSection(va, vsize, isCode) ==
  [ virtual_address |-> va, virtual_size |-> vsize, pointer_to_raw_data |-> 0,
    size_of_raw_data |-> 0, code |-> isCode ]

MCImage(size, sections) ==
  [ data_len |-> 3, entry_point_rva |-> 1, base_address |-> 0,
    size |-> size, nx_compat |-> TRUE, sections |-> sections ]

SmallSections ==
  { MCSection(va, vs, c) :
      va \in {0, 2, 3, 4, 6}, vs \in 0 .. 3, c \in BOOLEAN }

Pairs == { MCImage(n, <<s, t>>) :
             n \in {5, 6}, s \in SmallSections, t \in SmallSections }

Triples ==
  { MCImage(6, <<MCSection(0, 2, a), MCSection(2, n, b), MCSection(4, 2, c)>>) :
      n \in 1 .. 3, a \in BOOLEAN, b \in BOOLEAN, c \in BOOLEAN }

MCKernels == Pairs \cup Triples

\* One page of code and one of data.
TwoPages == {MCImage(4, <<MCSection(0, 2, TRUE), MCSection(2, 2, FALSE)>>)}
=============================================================================
