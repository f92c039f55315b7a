--------------------------------- MODULE Stub ---------------------------------
(***************************************************************************)
(* main of src/main.rs: the components of the stub one after another, with *)
(* every `?`, and the firmware around it. The firmware starts the stub of  *)
(* one UKI; when main returns an error it unloads that stub and may start  *)
(* another one, of the same UKI or of another, in the same boot. What lies *)
(* outside the stub's own image is still there then: PCR 11 and the        *)
(* handles that LoadFile2 was installed on.                                *)
(*                                                                         *)
(* The components are the modules of their names: the measurement step by  *)
(* step, start as the abstract Handover that Loader.tla implements,        *)
(* install and policy::cmdline by what they may give. vars::export and     *)
(* the two reads of security.rs give nothing back to main (Vars.tla).      *)
(***************************************************************************)
EXTENDS KernelHeader, Cmdline, Measure

CONSTANTS
  Ukis,          \* the UKIs the firmware may start
  NoUki,         \* none has been started yet
  NoKernel,      \* no kernel has been parsed yet
  KeyOption,     \* what a muak build may append to the command line
  MaxAttempts    \* bound: how often the firmware starts a stub

\* features: those the stub in the UKI was built with. sections are the ones
\* to measure, initrd and cmdline the optional ones main hands on.
Uki ==
  [ features : {{}, {"tpm"}, {"tpm", "muak"}}, sections : 0 .. MaxSections,
    header : Header, initrd : BOOLEAN, cmdline : Seq(0 .. 255) \cup {NoCmdline} ]

ASSUME UkisAssumption        == Ukis \subseteq Uki
ASSUME NoUkiAssumption       == NoUki \notin Ukis
ASSUME ParsedAssumption      ==
  \A u \in Ukis : Accepts(u.header) => Parsed(u.header) \in Kernels
ASSUME MaxAttemptsAssumption == MaxAttempts \in Nat
ASSUME KeyOptionAssumption   == KeyOption \in Seq(0 .. 255)

VARIABLES
  phase,        \* where main stands
  uki,          \* the UKI whose stub this is
  offered,      \* the starts whose handle carries LoadFile2
  provider,     \* the start whose handle the kernel took its initrd from, or 0
  kernel, cmdline, outcome, handed    \* Handover

H == INSTANCE Handover

startVars == <<kernel, cmdline, outcome, handed>>
vars      == <<attempt, phase, uki, offered, provider, startVars, measureVars>>

Phase == {"firmware", "setup", "open", "sections", "measure", "parse",
          "install", "policy", "start", "kernel"}

-----------------------------------------------------------------------------
Init ==
  /\ attempt = 0
  /\ phase = "firmware"
  /\ uki = NoUki
  /\ offered = {}
  /\ provider = 0
  /\ kernel = NoKernel
  /\ cmdline = NoCmdline
  /\ outcome = "preparing"
  /\ handed = H!NotHanded
  /\ MeasureInit

Proceed(to) == phase' = to

\* main returns an error, and the firmware unloads it.
GiveUp == phase' = "firmware"

\* External: the firmware starts the stub of some UKI.
Boot ==
  /\ phase = "firmware"
  /\ attempt < MaxAttempts
  /\ attempt' = attempt + 1
  /\ uki' \in Ukis
  /\ Proceed("setup")
  /\ provider' = 0
  /\ kernel' = NoKernel
  /\ cmdline' = NoCmdline
  /\ outcome' = "preparing"
  /\ handed' = H!NotHanded
  /\ Measures(0)
  /\ UNCHANGED offered

\* The image handle may be null.
SetupUefiCrate ==
  /\ phase = "setup"
  /\ Proceed("open") \/ GiveUp
  /\ UNCHANGED <<attempt, uki, offered, provider, startVars, measureVars>>

OpenLoadedImage ==
  /\ phase = "open"
  /\ Proceed("sections") \/ GiveUp
  /\ UNCHANGED <<attempt, uki, offered, provider, startVars, measureVars>>

\* The uki crate may refuse the image; a build without tpm has no loop.
ParseSections ==
  /\ phase = "sections"
  /\ \/ Proceed("measure") /\ Measures(IF "tpm" \in uki.features THEN uki.sections ELSE 0)
     \/ GiveUp /\ UNCHANGED measureVars
  /\ UNCHANGED <<attempt, uki, offered, provider, startVars>>

MeasureSections ==
  /\ phase = "measure"
  /\ \/ MeasureNext /\ Proceed("measure")
     \/ cursor = count /\ Proceed("parse") /\ UNCHANGED measureVars
  /\ UNCHANGED <<attempt, uki, offered, provider, startVars>>

ParseKernel ==
  /\ phase = "parse"
  /\ IF Accepts(uki.header)
     THEN Proceed("install") /\ kernel' = Parsed(uki.header)
     ELSE GiveUp /\ UNCHANGED kernel
  /\ UNCHANGED <<attempt, uki, offered, provider, cmdline, outcome, handed, measureVars>>

\* The `?` behind install; a plausible slip only warns.
OnInstallErrorWarn == Proceed("policy")

OnInstallError == GiveUp

\* install either publishes LoadFile2 on a new handle or fails; a handle it
\* leaves with its device path alone is one nobody finds (LoadFile2.tla).
InstallInitrd ==
  /\ phase = "install"
  /\ \/ ~ uki.initrd /\ Proceed("policy") /\ UNCHANGED offered
     \/ uki.initrd /\ Proceed("policy") /\ offered' = offered \cup {attempt}
     \/ uki.initrd /\ OnInstallError /\ UNCHANGED offered
  /\ UNCHANGED <<attempt, uki, provider, startVars, measureVars>>

\* What policy::cmdline may answer, the same line or, in a muak build, the
\* line with a key behind it; which of them, and when it fails, is Policy's.
Answers(line) ==
  LET base == IF line = NoCmdline THEN <<>> ELSE Strip(line)
  IN  {line} \cup IF "muak" \in uki.features THEN {base \o KeyOption} ELSE {}

DecideCmdline ==
  /\ phase = "policy"
  /\ \/ Proceed("start") /\ cmdline' \in Answers(uki.cmdline)
     \/ GiveUp /\ UNCHANGED cmdline
  /\ UNCHANGED <<attempt, uki, offered, provider, kernel, outcome, handed, measureVars>>

StartKernel ==
  /\ phase = "start"
  /\ \/ H!HandOver /\ Proceed("kernel")
     \/ H!Refuse /\ GiveUp
  /\ UNCHANGED <<attempt, uki, offered, provider, measureVars>>

\* External: the kernel looks for its initrd by the vendor media GUID, which
\* any handle that LoadFile2 was ever installed on carries.
LocateInitrd ==
  /\ phase = "kernel"
  /\ provider = 0
  /\ provider' \in offered
  /\ UNCHANGED <<attempt, phase, uki, offered, startVars, measureVars>>

\* External: the kernel returns, and so does main, with an error.
KernelReturns ==
  /\ phase = "kernel"
  /\ H!Return
  /\ GiveUp
  /\ UNCHANGED <<attempt, uki, offered, provider, measureVars>>

MainNext ==
  \/ SetupUefiCrate \/ OpenLoadedImage \/ ParseSections \/ MeasureSections
  \/ ParseKernel \/ InstallInitrd \/ DecideCmdline \/ StartKernel

Next == Boot \/ MainNext \/ LocateInitrd \/ KernelReturns

\* main is the only thread: what it can do it does. The firmware need not
\* start another stub, nor the kernel return.
Spec == Init /\ [][Next]_vars /\ WF_vars(MainNext)

-----------------------------------------------------------------------------
(* Properties.                                                             *)

\* Every variable stays in its type.
TypeOK ==
  /\ attempt \in 0 .. MaxAttempts
  /\ phase \in Phase
  /\ uki \in Ukis \cup {NoUki} /\ (uki = NoUki <=> attempt = 0)
  /\ offered \subseteq 1 .. attempt
  /\ provider \in offered \cup {0}
  /\ kernel \in Kernels \cup {NoKernel}
  /\ outcome \in {"preparing", "kernel", "refused", "returned"}
  /\ MeasureTypeOK

Effects == attempt \in offered \/ outcome # "preparing"

\* A measured boot tries to measure all of the UKI before any of it takes
\* effect: an initrd is only offered, and a kernel only started, once every
\* section went to the TPM or was reported as skipped (main.rs:88).
MeasuredBeforeUse ==
  uki # NoUki /\ "tpm" \in uki.features /\ Effects => Len(reports) = uki.sections

\* The stub applies no relocations and offers the initrd by a GUID that
\* kernels know from image version 1 on: no other kernel is started, and
\* for no other one is an initrd left behind (kernel.rs:70-91).
OnlySupportedKernelsRun ==
  uki # NoUki /\ Effects =>
    /\ uki.header.machine = ExpectedMachine /\ uki.header.major_image_version >= 1
    /\ \A i \in DOMAIN uki.header.data_directories :
         uki.header.data_directories[i] # 0 => i # 6
    /\ Range(uki.header.section_relocations) \subseteq {0}

\* A kernel that is entered belongs to this start of the stub, not to one that
\* failed before: image and load options are those of its own UKI, and an
\* initrd its UKI has is on offer.
KernelGetsItsOwnUki ==
  phase = "kernel" =>
    /\ \E line \in Answers(uki.cmdline) :
         handed = H!HandedOver(Parsed(uki.header), line)
    /\ uki.initrd => attempt \in offered

\* A kernel reads its UKI's command line, whole and up front, whatever the
\* policy appended to it, main handed on and start encoded; only a muak build
\* has it read more. (A NUL inside the line ends it: BaseReachesKernel.)
KernelReadsItsCmdline ==
  (phase = "kernel" /\ ~ NothingToSet(uki.cmdline) /\ ~ HasInnerNul(uki.cmdline)) =>
    LET line == Strip(uki.cmdline)
        read == KernelReads(handed.options)
    IN  IsPrefix(line, read) /\ ("muak" \notin uki.features => read = line)

\* Whatever the firmware answers, a start of the stub comes to an end: its
\* kernel runs, or the firmware has control again and can start another.
EveryStartEnds == phase \notin {"firmware", "kernel"} ~> phase \in {"firmware", "kernel"}

\* What main still has to do, at most: three calls for every section to
\* measure, and a step for each of its other phases.
CallsMade == CASE step = "open" -> 0 [] step = "name" -> 1 [] OTHER -> 2

Remaining ==
  CASE phase = "setup"    -> 3 * MaxSections + 8
    [] phase = "open"     -> 3 * MaxSections + 7
    [] phase = "sections" -> 3 * MaxSections + 6
    [] phase = "measure"  -> 3 * (count - cursor) + 5 - CallsMade
    [] phase = "parse"    -> 4
    [] phase = "install"  -> 3
    [] phase = "policy"   -> 2
    [] phase = "start"    -> 1
    [] OTHER              -> 0

\* Whatever fails, main works towards its end: every step leaves it less to
\* do, and no section costs more than three calls.
MainAdvances == [][MainNext => Remaining' \in 0 .. Remaining - 1]_vars

\* "Consumers will locate this handle" (loadfile2.rs:102), whose protocol
\* "remains valid for the boot services phase" (loadfile2.rs:130): the initrd
\* a kernel locates is served by the stub that started it, the only one still
\* in memory.
KernelFindsItsInitrd == provider \in {0, attempt}
=============================================================================
