-------------------------------- MODULE Policy --------------------------------
(***************************************************************************)
(* src/policy: which command line the kernel is booted with. A plain build *)
(* answers the UKI's own. A build with the muak feature, on a machine      *)
(* without TPM2, appends the LUKS key of the ESP file \luks to it.         *)
(***************************************************************************)
EXTENDS Cmdline

CONSTANTS
  Bases,   \* the command lines a UKI may carry, NoCmdline among them
  Keys     \* the contents the key file may have, the empty one among them

ASSUME BasesAssumption == Bases \subseteq Seq(0 .. 255) \cup {NoCmdline}
ASSUME KeysAssumption  == Keys \subseteq Seq(0 .. 255)

VARIABLES
  muak,       \* whether the stub was built with the muak feature
  base,       \* the argument: the UKI's .cmdline section
  present,    \* whether the machine has a TPM2
  luks,       \* what reading \luks gives
  phase,      \* where policy::cmdline stands
  available,  \* what tpm2::is_available answered
  answer      \* the command line it returns

vars == <<muak, base, present, luks, phase, available, answer>>

LuksFile == [kind : {"absent", "unreadable"}, data : {<<>>}]
            \cup [kind : {"readable"}, data : Keys]

-----------------------------------------------------------------------------
(* Base64 without padding: six bits a character, the first bit first, zero *)
(* bits completing the last character.                                     *)

Weight == <<128, 64, 32, 16, 8, 4, 2, 1>>   \* of the bits of a byte

Bit(data, i) ==    \* the i-th bit from 0, zero beyond the end
  IF i >= 8 * Len(data) THEN 0
  ELSE (data[(i \div 8) + 1] \div Weight[(i % 8) + 1]) % 2

Alphabet(v) ==
  CASE v \in 0 .. 25  -> 65 + v
    [] v \in 26 .. 51 -> 97 + (v - 26)
    [] v \in 52 .. 61 -> 48 + (v - 52)
    [] v = 62         -> 43
    [] v = 63         -> 47

EncodedLen(data) == (8 * Len(data) + 5) \div 6

Sextet(data, i) ==
  32 * Bit(data, 6 * i) + 16 * Bit(data, 6 * i + 1) + 8 * Bit(data, 6 * i + 2)
    + 4 * Bit(data, 6 * i + 3) + 2 * Bit(data, 6 * i + 4) + Bit(data, 6 * i + 5)

Base64(data) ==
  [ i \in 1 .. EncodedLen(data) |-> Alphabet(Sextet(data, i - 1)) ]

-----------------------------------------------------------------------------
(* policy::luks                                                            *)

LuksKeyPrefix == <<32, 108, 117, 107, 115, 46, 107, 101, 121, 61>>  \* " luks.key="

\* A plausible slip: the key is appended behind the terminators of the base.
CombinedUnstripped(line, key) ==
  (IF line = NoCmdline THEN <<>> ELSE line) \o LuksKeyPrefix \o Base64(key)

Combined(line, key) ==
  Strip(IF line = NoCmdline THEN <<>> ELSE line) \o LuksKeyPrefix \o Base64(key)

-----------------------------------------------------------------------------
Init ==
  /\ muak \in BOOLEAN
  /\ base \in Bases
  /\ present \in BOOLEAN
  /\ luks \in LuksFile
  /\ phase = "start"
  /\ available = FALSE
  /\ answer = NoCmdline

\* Without the feature: a copy of the base, for which there may be no memory.
CopyBase ==
  /\ phase = "start"
  /\ ~ muak
  /\ \/ phase' = "done" /\ answer' = base
     \/ base # NoCmdline /\ phase' = "failed" /\ UNCHANGED answer
  /\ UNCHANGED <<muak, base, present, luks, available>>

\* What is_available can answer: locating the TCG2 handles fails where there
\* are none, and may fail where there are some. A plausible slip takes an
\* empty list for a TPM2.
SearchResultsAnyList == BOOLEAN

SearchResults == {FALSE, present}

AskTpm ==
  /\ phase = "start"
  /\ muak
  /\ available' \in SearchResults
  /\ phase' = IF available' THEN "base" ELSE "key"
  /\ UNCHANGED <<muak, base, present, luks, answer>>

\* An absent file and an empty one are no errors; a plausible slip takes a
\* file that cannot be read for an absent one.
UnreadableIgnored == FALSE

Unreadable == luks.kind = "unreadable"

ReadKey ==
  /\ phase = "key"
  /\ \/ /\ Unreadable
        /\ phase' = "failed"
        /\ UNCHANGED answer
     \/ /\ luks.kind = "readable" /\ luks.data # <<>>
        /\ phase' = "done"
        /\ answer' = Combined(base, luks.data)
     \/ /\ ~ Unreadable /\ luks.data = <<>>
        /\ phase' = "base"
        /\ UNCHANGED answer
  /\ UNCHANGED <<muak, base, present, luks, available>>

ReturnBase ==
  /\ phase = "base"
  /\ phase' = "done"
  /\ answer' = base
  /\ UNCHANGED <<muak, base, present, luks, available>>

Next == CopyBase \/ AskTpm \/ ReadKey \/ ReturnBase

Spec == Init /\ [][Next]_vars

-----------------------------------------------------------------------------
(* Properties. They follow the answer through encode_ucs2 to the kernel.   *)

\* Every variable stays in its type; answers are sequences of bytes.
TypeOK ==
  /\ muak \in BOOLEAN
  /\ base \in Bases
  /\ present \in BOOLEAN
  /\ luks \in LuksFile
  /\ phase \in {"start", "key", "base", "done", "failed"}
  /\ available \in {FALSE, present}
  /\ answer # NoCmdline => answer \in Seq(0 .. 255)

\* start sets no load options for a line that is absent or blank, and the
\* kernel then reads those the stub was started with.
KernelLine ==
  KernelReads(IF NothingToSet(answer) THEN Inherited ELSE Encoded(answer))

\* Whether the UKI's own command line is one a kernel can read whole.
CleanBase == base = NoCmdline \/ ~ HasInnerNul(base)

BaseLine == IF base = NoCmdline THEN <<>> ELSE Strip(base)

NoKey == ~ muak \/ luks.data = <<>> \/ available

\* The kernel reads the UKI's command line first, untouched but for its
\* trailing terminators, and nothing behind it but a key; without a line and
\* without a key it reads what the stub was started with. A NUL inside the
\* line ends it for the kernel, which then reads what stands before that NUL
\* and no key, whether one was injected or not (luks.rs:16).
BaseReachesKernel ==
  phase = "done" =>
    IF BaseLine = <<>> /\ NoKey THEN KernelLine = KernelReads(Inherited)
    ELSE IF CleanBase
    THEN /\ IsPrefix(BaseLine, KernelLine)
         /\ NoKey => KernelLine = BaseLine
    ELSE /\ IsStrictPrefix(KernelLine, BaseLine)
         /\ 0 \notin Range(KernelLine) /\ BaseLine[Len(KernelLine) + 1] = 0

\* Base64 as its reader defines it: the value of each character, and the
\* bytes the bits spell, a last incomplete byte left out.
Value(char) == CHOOSE v \in 0 .. 63 : Alphabet(v) = char

Decoded(code) ==
  LET bit(i) == (Value(code[(i \div 6) + 1]) \div Weight[(i % 6) + 3]) % 2
  IN  [ n \in 1 .. (6 * Len(code)) \div 8 |->
          LET b(j) == bit(8 * (n - 1) + j) * Weight[j + 1]
          IN  b(0) + b(1) + b(2) + b(3) + b(4) + b(5) + b(6) + b(7) ]

\* An injected key arrives: behind the base and the option's name the kernel
\* reads one word, and that word decodes to exactly the contents of \luks.
KeyReachesKernel ==
  (phase = "done" /\ CleanBase /\ muak /\ ~ available /\ luks.data # <<>>) =>
    LET start == Len(BaseLine) + Len(LuksKeyPrefix)
        code  == SubSeq(KernelLine, start + 1, Len(KernelLine))
    IN  /\ IsPrefix(BaseLine \o LuksKeyPrefix, KernelLine)
        /\ Range(code) \cap (Whitespace \cup {0}) = {}
        /\ Decoded(code) = luks.data

\* "Returns an error if the LUKS key file exists but cannot be read"
\* (policy/mod.rs:34): a muak build always decides between a command line and
\* an error, and never boots as if there were no key where one could not be
\* read. Only a TPM2 that answers spares it the file, and no other file, an
\* empty one or none, stops a boot.
UnreadableKeyStopsBoot ==
  (muak /\ phase \in {"done", "failed"}) =>
    (phase = "failed" <=> luks.kind = "unreadable" /\ ~ available)
=============================================================================
