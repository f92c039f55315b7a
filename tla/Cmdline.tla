------------------------------- MODULE Cmdline -------------------------------
(***************************************************************************)
(* The command-line conversions of src/pe/loader/cmdline.rs: a sequence of *)
(* bytes, stripped of its trailing terminators, becomes the UCS-2 buffer   *)
(* that LoadedImage.LoadOptions points to.                                 *)
(***************************************************************************)
EXTENDS Integers, SequencesExt

CONSTANTS
  MaxOptionsSize,   \* the largest LoadOptionsSize: u32::MAX in the code
  NoCmdline,        \* None: there is no command line
  Inherited         \* the load options the firmware started the stub with

ASSUME MaxOptionsSizeAssumption == MaxOptionsSize \in Nat
ASSUME NoCmdlineAssumption      == NoCmdline \notin Seq(Nat)

\* The bytes u8::is_ascii_whitespace knows.
Whitespace == {9, 10, 12, 13, 32}

\* strip_trailing_terminators
Strip(data) ==
  SubSeq(data, 1, SelectLastInSeq(data, LAMBDA byte : byte # 0 /\ byte \notin Whitespace))

\* A plausible slip: the terminator overwrites the last character.
Ucs2NoRoom(cmd) ==
  [ i \in 1 .. 2 * Len(cmd) |->
      IF i % 2 = 1 /\ i < 2 * Len(cmd) - 1 THEN cmd[(i + 1) \div 2] ELSE 0 ]

\* The buffer of encode_ucs2 for a non-empty stripped command line: each byte
\* becomes a little-endian u16, and a zero u16 follows the last one.
Ucs2(cmd) ==
  [ i \in 1 .. 2 * (Len(cmd) + 1) |->
      IF i % 2 = 1 /\ i <= 2 * Len(cmd) THEN cmd[(i + 1) \div 2] ELSE 0 ]

\* encode_ucs2; a plausible slip keeps the terminators.
EncodedUnstripped(data) == Ucs2(data)

Encoded(data) == Ucs2(Strip(data))

\* encode_ucs2 gives a null pointer for such a command line.
IsBlank(data) == Strip(data) = <<>>

NothingToSet(line) == IF line = NoCmdline THEN TRUE ELSE IsBlank(line)

\* u32::try_from of the buffer's size; a plausible slip is a cast.
FitsAlways(data) == TRUE

FitsOptions(data) == Len(Encoded(data)) <= MaxOptionsSize

\* External: a kernel reads its load options as a NUL-terminated string of
\* u16 characters; Units(options) are the characters of the buffer.
Units(options) ==
  [ i \in 1 .. Len(options) \div 2 |-> options[2 * i - 1] + 256 * options[2 * i] ]

KernelReads(options) ==
  LET units == Units(options)
      ends  == {i \in 1 .. Len(units) : units[i] = 0}
  IN  SubSeq(units, 1, IF ends = {} THEN Len(units) ELSE Min(ends) - 1)

\* A NUL inside the command line ends it for the kernel.
HasInnerNul(data) == 0 \in Range(Strip(data))
=============================================================================
