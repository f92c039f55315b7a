------------------------------ MODULE MCMapping ------------------------------
(* Small kernel images for Mapping: every one-section layout around the     *)
(* image and file bounds, and pairs of sections that touch, overlap, nest   *)
(* or repeat. A page has two bytes and the image at most four.              *)
EXTENDS Mapping

MCSection(va, vsize, ptr, raw) ==
  [ virtual_address |-> va, virtual_size |-> vsize, pointer_to_raw_data |-> ptr,
    size_of_raw_data |-> raw, code |-> FALSE ]

MCImage(imageBase, size, sections) ==
  [ data_len |-> 3, entry_point_rva |-> 1, base_address |-> imageBase,
    size |-> size, nx_compat |-> FALSE, sections |-> sections ]

OneSection ==
  { MCImage(b, n, <<MCSection(va, vs, ptr, raw)>>) :
      b \in {0, 1}, n \in {3, 4}, va \in 0 .. 4, vs \in 0 .. 4,
      ptr \in 0 .. 3, raw \in 0 .. 3 }

SmallSections ==
  { MCSection(va, vs, ptr, raw) :
      va \in 0 .. 3, vs \in {0, 2, 3}, ptr \in {0, 1}, raw \in {0, 1, 3} }

TwoSections ==
  { MCImage(0, 4, <<s, t>>) : s \in SmallSections, t \in SmallSections }

\* The kernel of the tests of src/pe/kernel.rs, scaled down: its section
\* starts one file alignment above the image base, which is far larger.
FixtureKernels == {MCImage(4, 4, <<MCSection(2, 1, 0, 1)>>)}

MCKernels == OneSection \cup TwoSections \cup {MCImage(0, 0, <<>>)}
=============================================================================
