------------------------------ MODULE StubProofs ------------------------------
(***************************************************************************)
(* main, for any UKIs, any number of starts in one boot and any answers of *)
(* the firmware: what is measured and checked before a kernel runs, and    *)
(* what it is given.                                                       *)
(***************************************************************************)
EXTENDS Stub, CmdlineProofs

\* The phases behind each of main's steps.
BehindDecision == {"start", "kernel"}
BehindInstall  == {"policy"} \cup BehindDecision
BehindParse    == {"install"} \cup BehindInstall
BehindMeasure  == {"parse"} \cup BehindParse

ToMeasure == IF "tpm" \in uki.features THEN uki.sections ELSE 0

\* The loop of the measurement, and what main has established by the time it
\* stands in each phase. Effects outlive the phases: a start that failed late
\* has had them too.
Loop ==
  /\ step # "open" => cursor < count
  /\ phase = "measure" => count = ToMeasure
  /\ phase \in BehindMeasure \/ Effects => count = ToMeasure /\ cursor = count

Established ==
  /\ phase # "firmware" => attempt > 0
  /\ Effects => attempt > 0 /\ phase \in BehindParse \cup {"firmware"}
  /\ phase \in BehindParse \/ Effects => Accepts(uki.header)
  /\ phase \in BehindParse => kernel = Parsed(uki.header)
  /\ phase \in BehindInstall => (uki.initrd => attempt \in offered)
  /\ phase \in BehindDecision => cmdline \in Answers(uki.cmdline)
  /\ phase = "kernel" => handed = H!HandedOver(kernel, cmdline)

StubInv == TypeOK /\ Loop /\ Established

-----------------------------------------------------------------------------
LEMMA StartedUkiType ==
  ASSUME TypeOK, attempt > 0
  PROVE  uki \in Uki /\ uki \in Ukis /\ ToMeasure \in 0 .. MaxSections
  <1>1. uki \in Uki /\ uki \in Ukis
    BY UkisAssumption DEF TypeOK
  <1> QED
    BY <1>1, MaxSectionsAssumption DEF Uki, ToMeasure

LEMMA InitEstablishesStubInv == Init => StubInv
  <1> SUFFICES ASSUME Init PROVE StubInv
    OBVIOUS
  <1>1. MeasureTypeOK
    BY MaxSectionsAssumption DEF Init, MeasureInit, MeasureTypeOK
  <1>2. TypeOK
    <2>1. phase \in Phase /\ attempt \in 0 .. MaxAttempts /\ offered \subseteq 1 .. attempt
      BY MaxAttemptsAssumption DEF Init, Phase
    <2> QED
      BY <1>1, <2>1 DEF Init, TypeOK
  <1> QED
    BY <1>2 DEF Init, MeasureInit, StubInv, Loop, Established, Effects,
       BehindMeasure, BehindParse, BehindInstall, BehindDecision

-----------------------------------------------------------------------------
LEMMA BootKeepsStubInv ==
  ASSUME StubInv, Boot
  PROVE  StubInv'
  <1>1. attempt \in Nat /\ attempt' = attempt + 1 /\ attempt' <= MaxAttempts
    BY MaxAttemptsAssumption DEF StubInv, TypeOK, Boot
  <1>2. attempt' \notin offered' /\ offered' \subseteq 1 .. attempt'
    BY <1>1 DEF StubInv, TypeOK, Boot
  <1>3. TypeOK'
    <2>1. MeasureTypeOK'
      BY MaxSectionsAssumption DEF StubInv, TypeOK, MeasureTypeOK, Boot, Measures
    <2> QED
      BY <1>1, <1>2, <2>1, NoUkiAssumption, MaxAttemptsAssumption
      DEF StubInv, TypeOK, Boot, Proceed, Phase
  <1>4. ~ Effects'
    BY <1>2 DEF Boot, Effects
  <1> QED
    BY <1>1, <1>3, <1>4
    DEF StubInv, Boot, Proceed, Measures, Loop, Established,
        BehindMeasure, BehindParse, BehindInstall, BehindDecision

\* The steps before the measurement have no effects, and neither has one
\* that only passes on.
LEMMA SetupKeepsStubInv ==
  ASSUME StubInv, SetupUefiCrate \/ OpenLoadedImage
  PROVE  StubInv'
  <1> USE DEF SetupUefiCrate, OpenLoadedImage, Proceed, GiveUp, startVars, measureVars, loopVars
  <1>1. TypeOK'
    BY DEF StubInv, TypeOK, MeasureTypeOK, Phase
  <1>2. Effects' <=> Effects
    BY DEF Effects
  <1> QED
    BY <1>1, <1>2 DEF StubInv, Loop, Established, ToMeasure,
       BehindMeasure, BehindParse, BehindInstall, BehindDecision

LEMMA ParseSectionsKeepsStubInv ==
  ASSUME StubInv, ParseSections
  PROVE  StubInv'
  <1> USE DEF ParseSections, Proceed, GiveUp, startVars
  <1>1. attempt > 0 /\ ~ Effects /\ phase = "sections"
    BY DEF StubInv, Established, BehindParse, BehindInstall, BehindDecision
  <1>2. ToMeasure \in 0 .. MaxSections
    BY <1>1, StartedUkiType DEF StubInv
  <1>3. CASE Measures(ToMeasure) /\ Proceed("measure")
    <2>1. TypeOK'
      BY <1>2, <1>3, MaxSectionsAssumption
      DEF Measures, StubInv, TypeOK, MeasureTypeOK, Phase
    <2>2. Effects' <=> Effects
      BY DEF Effects
    <2> QED
      BY <1>1, <1>3, <2>1, <2>2
      DEF Measures, StubInv, Loop, Established, ToMeasure,
          BehindMeasure, BehindParse, BehindInstall, BehindDecision
  <1>4. CASE GiveUp /\ UNCHANGED measureVars
    <2>1. TypeOK'
      BY <1>4 DEF measureVars, loopVars, StubInv, TypeOK, MeasureTypeOK, Phase
    <2>2. Effects' <=> Effects
      BY DEF Effects
    <2> QED
      BY <1>1, <1>4, <2>1, <2>2
      DEF measureVars, loopVars, StubInv, Loop, Established, ToMeasure,
          BehindMeasure, BehindParse, BehindInstall, BehindDecision
  <1> QED
    BY <1>3, <1>4 DEF ToMeasure

-----------------------------------------------------------------------------
\* One iteration's steps: events stay in their type, each section is
\* reported once, and the section at hand exists.
LEMMA MeasureKeepsType ==
  ASSUME MeasureTypeOK, MeasureNext, step # "open" => cursor < count, attempt \in Nat
  PROVE  /\ MeasureTypeOK'
         /\ count' = count
         /\ step' # "open" => cursor' < count'
         /\ cursor < count
  <1>1. cursor < count /\ count' = count
    BY DEF MeasureNext, OpenTcg, ExtendName, ExtendData, MeasureTypeOK
  <1>2. \A what \in {"name", "data"} : TheEvent(what) \in Event
    BY <1>1, MaxSectionsAssumption DEF TheEvent, Event, MeasureTypeOK
  <1>3. pcr' \in Seq(Event)
    BY <1>2 DEF MeasureNext, OpenTcg, ExtendName, ExtendData, Extended, Refused, MeasureTypeOK
  <1>4. \/ Report("measured") \/ Report("skipped")
        \/ step' \in {"name", "data"} /\ UNCHANGED <<cursor, reports>>
    BY DEF MeasureNext, OpenTcg, ExtendName, ExtendData, Skip
  <1>5. CASE \E what \in {"measured", "skipped"} : Report(what)
    <2>1. PICK what \in {"measured", "skipped"} : Report(what)
      BY <1>5
    <2>2. /\ reports' \in Seq({"measured", "skipped"})
          /\ Len(reports') = Len(reports) + 1
      BY <2>1, AppendProperties DEF Report, MeasureTypeOK
    <2> QED
      BY <1>1, <1>3, <2>1, <2>2, MaxSectionsAssumption DEF Report, MeasureTypeOK
  <1>6. CASE step' \in {"name", "data"} /\ UNCHANGED <<cursor, reports>>
    BY <1>1, <1>3, <1>6 DEF MeasureTypeOK
  <1> QED
    BY <1>4, <1>5, <1>6

LEMMA MeasureKeepsStubInv ==
  ASSUME StubInv, MeasureSections
  PROVE  StubInv'
  <1> USE DEF MeasureSections, Proceed, startVars
  <1>1. ~ Effects /\ phase = "measure" /\ attempt > 0 /\ attempt \in Nat
    BY DEF StubInv, TypeOK, Established, BehindParse, BehindInstall, BehindDecision
  <1>2. Effects' <=> Effects
    BY DEF Effects
  <1>3. CASE MeasureNext /\ Proceed("measure")
    <2>1. MeasureTypeOK' /\ count' = count /\ (step' # "open" => cursor' < count')
      BY <1>1, <1>3, MeasureKeepsType DEF StubInv, TypeOK, Loop
    <2>2. TypeOK'
      BY <1>3, <2>1 DEF StubInv, TypeOK, Phase
    <2> QED
      BY <1>1, <1>2, <1>3, <2>1, <2>2
      DEF StubInv, Loop, Established, ToMeasure,
          BehindMeasure, BehindParse, BehindInstall, BehindDecision
  <1>4. CASE cursor = count /\ Proceed("parse") /\ UNCHANGED measureVars
    <2>1. TypeOK'
      BY <1>4 DEF measureVars, loopVars, StubInv, TypeOK, MeasureTypeOK, Phase
    <2> QED
      BY <1>1, <1>2, <1>4, <2>1
      DEF measureVars, loopVars, StubInv, Loop, Established, ToMeasure,
          BehindMeasure, BehindParse, BehindInstall, BehindDecision
  <1> QED
    BY <1>3, <1>4

-----------------------------------------------------------------------------
(* The steps behind the measurement leave its variables alone. *)

LEMMA ParseKernelKeepsStubInv ==
  ASSUME StubInv, ParseKernel
  PROVE  StubInv'
  <1> USE DEF ParseKernel, Proceed, GiveUp, measureVars, loopVars
  <1>1. attempt > 0 /\ ~ Effects /\ phase = "parse"
    BY DEF StubInv, Established, BehindParse, BehindInstall, BehindDecision
  <1>2. Accepts(uki.header) => Parsed(uki.header) \in Kernels
    BY <1>1, StartedUkiType, ParsedAssumption DEF StubInv
  <1>3. TypeOK'
    BY <1>2 DEF StubInv, TypeOK, MeasureTypeOK, Phase
  <1>4. ~ Effects'
    BY <1>1 DEF Effects
  <1> QED
    BY <1>1, <1>3, <1>4 DEF StubInv, Loop, Established, ToMeasure,
       BehindMeasure, BehindParse, BehindInstall, BehindDecision

LEMMA InstallKeepsStubInv ==
  ASSUME StubInv, InstallInitrd
  PROVE  StubInv'
  <1> USE DEF InstallInitrd, OnInstallError, Proceed, GiveUp, startVars, measureVars, loopVars
  <1>1. attempt > 0 /\ attempt \in Nat /\ phase = "install"
    BY DEF StubInv, TypeOK, Established
  <1>2. offered' \in {offered, offered \cup {attempt}}
    OBVIOUS
  <1>3. TypeOK'
    <2>1. offered' \subseteq 1 .. attempt' /\ provider' \in offered' \cup {0}
      BY <1>1, <1>2 DEF StubInv, TypeOK
    <2>2. phase' \in Phase
      BY DEF StubInv, TypeOK, Phase
    <2>3. MeasureTypeOK'
      BY DEF StubInv, TypeOK, MeasureTypeOK
    <2> QED
      BY <2>1, <2>2, <2>3 DEF StubInv, TypeOK
  <1> QED
    BY <1>1, <1>3 DEF StubInv, Loop, Established, Effects, ToMeasure,
       BehindMeasure, BehindParse, BehindInstall, BehindDecision

LEMMA DecideKeepsStubInv ==
  ASSUME StubInv, DecideCmdline
  PROVE  StubInv'
  <1> USE DEF DecideCmdline, Proceed, GiveUp, measureVars, loopVars
  <1>1. phase = "policy" /\ uki' = uki
    OBVIOUS
  <1>2. TypeOK'
    BY DEF StubInv, TypeOK, MeasureTypeOK, Phase
  <1>3. Effects' <=> Effects
    BY DEF Effects
  <1>4. \A line : Answers(line)' = Answers(line)
    BY DEF Answers
  <1>5. phase' \in BehindDecision => cmdline' \in Answers(uki.cmdline)
    BY DEF BehindDecision
  <1> QED
    BY <1>1, <1>2, <1>3, <1>4, <1>5 DEF StubInv, Loop, Established, ToMeasure,
       BehindMeasure, BehindParse, BehindInstall, BehindDecision

\* What is handed over is what has been parsed and decided.
LEMMA StartKernelKeepsStubInv ==
  ASSUME StubInv, StartKernel
  PROVE  StubInv'
  <1> USE DEF StartKernel, Proceed, GiveUp, measureVars, loopVars
  <1>1. phase = "start" /\ attempt > 0 /\ UNCHANGED <<uki, kernel, cmdline>>
    BY DEF StubInv, Established, H!HandOver, H!Refuse
  <1>2. TypeOK'
    BY DEF StubInv, TypeOK, MeasureTypeOK, Phase, H!HandOver, H!Refuse
  <1>3. \A line : Answers(line)' = Answers(line)
    BY <1>1 DEF Answers
  <1>4. phase' = "kernel" => handed' = H!HandedOver(kernel', cmdline')
    BY <1>1 DEF H!HandOver
  <1> QED
    BY <1>1, <1>2, <1>3, <1>4 DEF StubInv, Loop, Established, Effects, ToMeasure,
       BehindMeasure, BehindParse, BehindInstall, BehindDecision

LEMMA KernelKeepsStubInv ==
  ASSUME StubInv, LocateInitrd \/ KernelReturns
  PROVE  StubInv'
  <1> USE DEF LocateInitrd, KernelReturns, GiveUp, startVars, measureVars, loopVars
  <1>1. /\ phase = "kernel" /\ phase' \in {"kernel", "firmware"} /\ attempt > 0
        /\ UNCHANGED <<uki, attempt, offered, kernel, cmdline, handed>>
    BY DEF StubInv, Established, H!Return
  <1>2. TypeOK'
    BY DEF StubInv, TypeOK, MeasureTypeOK, Phase, H!Return
  <1>3. \A line : Answers(line)' = Answers(line)
    BY <1>1 DEF Answers
  <1> QED
    BY <1>1, <1>2, <1>3 DEF StubInv, Loop, Established, ToMeasure,
       BehindMeasure, BehindParse, BehindInstall, BehindDecision

LEMMA StutterKeepsStubInv ==
  ASSUME StubInv, UNCHANGED vars
  PROVE  StubInv'
  <1> USE DEF vars, startVars, measureVars, loopVars
  <1>1. TypeOK'
    BY DEF StubInv, TypeOK, MeasureTypeOK
  <1>2. \A line : Answers(line)' = Answers(line)
    BY DEF Answers
  <1> QED
    BY <1>1, <1>2 DEF StubInv, Loop, Established, Effects, ToMeasure

-----------------------------------------------------------------------------
THEOREM StubInvariant == Spec => []StubInv
  <1>1. StubInv /\ [Next]_vars => StubInv'
    BY BootKeepsStubInv, SetupKeepsStubInv, ParseSectionsKeepsStubInv, MeasureKeepsStubInv,
       ParseKernelKeepsStubInv, InstallKeepsStubInv, DecideKeepsStubInv,
       StartKernelKeepsStubInv, KernelKeepsStubInv, StutterKeepsStubInv DEF Next, MainNext
  <1> QED
    BY <1>1, InitEstablishesStubInv, PTL DEF Spec

\* Every variable of the stub and its firmware stays in its type.
THEOREM StubTypeCorrect == Spec => []TypeOK
  BY StubInvariant, PTL DEF StubInv

\* A build with the tpm feature offers no initrd and starts no kernel before
\* every section went to the TPM or was reported (main.rs:88).
THEOREM StubMeasuresFirst == Spec => []MeasuredBeforeUse
  <1>1. StubInv => MeasuredBeforeUse
    <2> SUFFICES ASSUME StubInv, "tpm" \in uki.features, Effects
                 PROVE  Len(reports) = uki.sections
      BY DEF MeasuredBeforeUse
    <2> QED
      BY DEF StubInv, TypeOK, MeasureTypeOK, Loop, ToMeasure
  <1> QED
    BY <1>1, StubInvariant, PTL

\* No kernel that needs relocations, is older than the initrd's GUID or is
\* built for another machine is started or has its initrd offered.
THEOREM StubRunsSupportedKernels == Spec => []OnlySupportedKernelsRun
  <1>1. StubInv => OnlySupportedKernelsRun
    <2> SUFFICES ASSUME StubInv, Effects
                 PROVE  /\ uki.header.machine = ExpectedMachine
                        /\ uki.header.major_image_version >= 1
                        /\ \A i \in DOMAIN uki.header.data_directories :
                             uki.header.data_directories[i] # 0 => i # 6
                        /\ Range(uki.header.section_relocations) \subseteq {0}
      BY DEF OnlySupportedKernelsRun
    <2>1. Accepts(uki.header) /\ attempt > 0
      BY DEF StubInv, Established
    <2>2. uki.header \in Header
      BY <2>1, StartedUkiType DEF StubInv, Uki
    <2>3. /\ uki.header.data_directories \in Seq(Nat)
          /\ uki.header.section_relocations \in Seq(Nat)
      BY <2>2 DEF Header
    <2>4. ASSUME NEW i \in DOMAIN uki.header.data_directories,
                 uki.header.data_directories[i] # 0
          PROVE  i # 6
      BY <2>1, <2>3, <2>4 DEF Accepts, RelocSize, BaseRelocEntry
    <2>5. Range(uki.header.section_relocations) \subseteq {0}
      BY <2>1, <2>3 DEF Accepts, Range
    <2> QED
      BY <2>1, <2>4, <2>5 DEF Accepts, MinImageVersion
  <1> QED
    BY <1>1, StubInvariant, PTL

\* A kernel is entered with the image, the load options and the initrd of the
\* UKI whose stub started it, whatever earlier starts left behind.
THEOREM StubHandsOverItsUki == Spec => []KernelGetsItsOwnUki
  <1>1. StubInv => KernelGetsItsOwnUki
    BY DEF StubInv, Established, KernelGetsItsOwnUki,
           BehindParse, BehindInstall, BehindDecision
  <1> QED
    BY <1>1, StubInvariant, PTL

-----------------------------------------------------------------------------
(* From the UKI's .cmdline section to what the kernel reads. *)

LEMMA AnswerBeginsWithLine ==
  ASSUME NEW line \in Seq(Octets), NEW answer \in Answers(line)
  PROVE  /\ answer \in Seq(Octets) /\ Strip(answer) \in Seq(Octets)
         /\ IsPrefix(Strip(line), Strip(answer))
         /\ "muak" \notin uki.features => answer = line
  <1>1. line # NoCmdline
    BY OctetsAreNumbers, SeqMonotonic, NoCmdlineAssumption
  <1>2. answer = line \/ ("muak" \in uki.features /\ answer = Strip(line) \o KeyOption)
    BY <1>1 DEF Answers
  <1>3. KeyOption \in Seq(Octets) /\ Strip(line) \in Seq(Octets)
    BY KeyOptionAssumption, StripCuts DEF Octets
  <1>4. CASE answer = line
    <2>1. IsPrefix(Strip(line), Strip(line))
      BY <1>3 DEF IsPrefix
    <2> QED
      BY <1>3, <1>4, <2>1
  <1>5. CASE "muak" \in uki.features /\ answer = Strip(line) \o KeyOption
    <2>1. Strip(line) \o KeyOption \in Seq(Octets)
      BY <1>3, ConcatProperties
    <2> QED
      BY <1>3, <1>5, <2>1, StripKeepsStripped
  <1> QED
    BY <1>2, <1>4, <1>5

LEMMA OptionsAreTheLine ==
  ASSUME NEW line, Strip(line) # <<>>, line # NoCmdline
  PROVE  H!Options(line) = Ucs2(Strip(line))
  <1>1. Strip(line) = H!Strip(line)
    BY DEF Strip, H!Strip, SelectLastInSeq, H!SelectLastInSeq, Max, H!Max,
       Whitespace, H!Whitespace
  <1>2. Ucs2(Strip(line)) = H!Ucs2(Strip(line))
    BY DEF Ucs2, H!Ucs2
  <1>3. ~ H!NothingToSet(line)
    BY <1>1 DEF H!NothingToSet, H!IsBlank
  <1> QED
    BY <1>1, <1>2, <1>3 DEF H!Options

\* Whatever was appended to it, encoded and stripped on the way, a command
\* line without a NUL in it is what a kernel reads first, and in a build
\* without muak all that it reads.
THEOREM StubPassesCmdline == Spec => []KernelReadsItsCmdline
  <1>1. StubInv => KernelReadsItsCmdline
    <2> SUFFICES ASSUME StubInv, phase = "kernel", ~ NothingToSet(uki.cmdline),
                        ~ HasInnerNul(uki.cmdline)
                 PROVE  /\ IsPrefix(Strip(uki.cmdline), KernelReads(handed.options))
                        /\ "muak" \notin uki.features =>
                             KernelReads(handed.options) = Strip(uki.cmdline)
      BY DEF KernelReadsItsCmdline
    <2> DEFINE line == uki.cmdline
    <2>1. /\ attempt > 0 /\ cmdline \in Answers(line)
          /\ handed = H!HandedOver(kernel, cmdline)
      BY DEF StubInv, Established, BehindDecision
    <2>2. line # NoCmdline /\ Strip(line) # <<>> /\ 0 \notin Range(Strip(line))
      BY DEF NothingToSet, IsBlank, HasInnerNul
    <2>3. line \in Seq(Octets)
      BY <2>1, <2>2, StartedUkiType DEF StubInv, Uki, Octets
    <2> HIDE DEF line
    <2>4. /\ cmdline \in Seq(Octets) /\ Strip(cmdline) \in Seq(Octets)
          /\ IsPrefix(Strip(line), Strip(cmdline))
          /\ "muak" \notin uki.features => cmdline = line
      BY <2>1, <2>3, AnswerBeginsWithLine
    <2>5. Strip(line) \in Seq(Octets)
      BY <2>3, StripCuts
    <2>6. Strip(cmdline) # <<>> /\ cmdline # NoCmdline
      <3>1. Len(Strip(line)) <= Len(Strip(cmdline)) /\ Len(Strip(line)) > 0
        BY <2>2, <2>4, <2>5 DEF IsPrefix
      <3>2. cmdline # NoCmdline
        BY <2>4, OctetsAreNumbers, SeqMonotonic, NoCmdlineAssumption
      <3> QED
        BY <3>1, <3>2
    <2>7. handed.options = Ucs2(Strip(cmdline))
      BY <2>1, <2>6, OptionsAreTheLine DEF H!HandedOver
    <2>8. IsPrefix(Strip(line), KernelReads(handed.options))
      BY <2>2, <2>4, <2>5, <2>7, ReadsCleanFront
    <2>9. "muak" \notin uki.features => KernelReads(handed.options) = Strip(line)
      BY <2>2, <2>4, <2>5, <2>7, ReadsCleanLine
    <2> QED
      BY <2>8, <2>9 DEF line
  <1> QED
    BY <1>1, StubInvariant, PTL

-----------------------------------------------------------------------------
(* Progress: how much main still has to do. *)

\* The steps that pass on to one of the later phases, or give up.
LEMMA LaterPhases ==
  ASSUME StubInv
  PROVE  /\ phase = "setup" => Remaining = 3 * MaxSections + 8
         /\ phase = "open" => Remaining = 3 * MaxSections + 7
         /\ phase = "sections" => Remaining = 3 * MaxSections + 6
         /\ phase = "measure" => Remaining = 3 * (count - cursor) + 5 - CallsMade
         /\ phase = "parse" => Remaining = 4
         /\ phase = "install" => Remaining = 3
         /\ phase = "policy" => Remaining = 2
         /\ phase = "start" => Remaining = 1
         /\ phase \in {"firmware", "kernel"} => Remaining = 0
         /\ CallsMade \in 0 .. 2
  BY DEF StubInv, TypeOK, MeasureTypeOK, Remaining, CallsMade

\* Of the section at hand a call less is left, or none.
LEMMA MeasureAdvances ==
  ASSUME StubInv, MeasureNext, phase = "measure"
  PROVE  /\ count' = count /\ count \in Nat /\ cursor \in Nat /\ cursor < count
         /\ \/ cursor' = cursor + 1 /\ CallsMade' = 0
            \/ cursor' = cursor /\ CallsMade' = CallsMade + 1 /\ CallsMade < 2
  <1>1. /\ count' = count /\ cursor < count
    BY MeasureKeepsType DEF StubInv, TypeOK, Loop
  <1>2. count \in Nat /\ cursor \in Nat
    BY MaxSectionsAssumption DEF StubInv, TypeOK, MeasureTypeOK
  <1>3. ASSUME NEW what, Report(what)
        PROVE  cursor' = cursor + 1 /\ CallsMade' = 0
    BY <1>3 DEF Report, CallsMade
  <1>4. CASE OpenTcg
    BY <1>1, <1>2, <1>3, <1>4 DEF OpenTcg, Skip, CallsMade
  <1>5. CASE ExtendName
    BY <1>1, <1>2, <1>3, <1>5 DEF ExtendName, Skip, CallsMade
  <1>6. CASE ExtendData
    BY <1>1, <1>2, <1>3, <1>6 DEF ExtendData, Skip, CallsMade
  <1> QED
    BY <1>1, <1>2, <1>4, <1>5, <1>6 DEF MeasureNext

\* main runs at most three calls for every section and a step for each of its
\* other phases, whatever fails.
THEOREM StubAdvances == Spec => MainAdvances
  <1>1. StubInv /\ StubInv' /\ [Next]_vars =>
          [MainNext => Remaining' \in 0 .. Remaining - 1]_vars
    <2> SUFFICES ASSUME StubInv, StubInv', MainNext
                 PROVE  Remaining' \in 0 .. Remaining - 1
      OBVIOUS
    <2> USE DEF Proceed, GiveUp
    <2>1. MaxSections \in Nat /\ CallsMade \in 0 .. 2 /\ CallsMade' \in 0 .. 2
      BY LaterPhases, MaxSectionsAssumption DEF StubInv, TypeOK, MeasureTypeOK, CallsMade
    <2>2. /\ phase' = "open" => Remaining' = 3 * MaxSections + 7
          /\ phase' = "sections" => Remaining' = 3 * MaxSections + 6
          /\ phase' = "measure" => Remaining' = 3 * (count' - cursor') + 5 - CallsMade'
          /\ phase' = "parse" => Remaining' = 4
          /\ phase' = "install" => Remaining' = 3
          /\ phase' = "policy" => Remaining' = 2
          /\ phase' = "start" => Remaining' = 1
          /\ phase' \in {"firmware", "kernel"} => Remaining' = 0
      BY DEF Remaining
    <2>3. CASE SetupUefiCrate \/ OpenLoadedImage
      BY <2>1, <2>2, <2>3, LaterPhases DEF SetupUefiCrate, OpenLoadedImage
    <2>4. CASE ParseSections
      <3>1. Remaining = 3 * MaxSections + 6
        BY <2>4, LaterPhases DEF ParseSections
      <3>2. CASE Measures(ToMeasure) /\ Proceed("measure")
        <4>1. count' \in 0 .. MaxSections /\ cursor' = 0 /\ CallsMade' = 0
          <5>1. ToMeasure \in 0 .. MaxSections
            BY <2>4, StartedUkiType DEF StubInv, Established, ParseSections
          <5>2. count' = ToMeasure /\ cursor' = 0 /\ step' = "open"
            BY <3>2 DEF Measures
          <5> QED
            BY <5>1, <5>2 DEF CallsMade
        <4>2. Remaining' = 3 * (count' - cursor') + 5 - CallsMade'
          BY <2>2, <3>2
        <4>3. count' \in Nat /\ count' <= MaxSections
          BY <2>1, <4>1
        <4>4. Remaining' = 3 * count' + 5
          BY <4>1, <4>2, <4>3
        <4>5. \A n, m \in Nat : n <= m => 3 * n + 5 \in 0 .. (3 * m + 6) - 1
          OBVIOUS
        <4>6. 3 * count' + 5 \in 0 .. (3 * MaxSections + 6) - 1
          BY <2>1, <4>3, <4>5, Zenon
        <4> QED
          BY <3>1, <4>4, <4>6, Zenon
      <3>3. CASE GiveUp
        BY <2>1, <2>2, <3>1, <3>3
      <3> QED
        BY <2>4, <3>2, <3>3 DEF ParseSections, ToMeasure
    <2>5. CASE MeasureSections
      <3>1. phase = "measure" /\ Remaining = 3 * (count - cursor) + 5 - CallsMade
        BY <2>5, LaterPhases DEF MeasureSections
      <3>2. CASE MeasureNext /\ Proceed("measure")
        <4>1. /\ count' = count /\ count \in Nat /\ cursor \in Nat /\ cursor < count
              /\ \/ cursor' = cursor + 1 /\ CallsMade' = 0
                 \/ cursor' = cursor /\ CallsMade' = CallsMade + 1 /\ CallsMade < 2
          BY <3>1, <3>2, MeasureAdvances
        <4>2. Remaining' = 3 * (count' - cursor') + 5 - CallsMade'
          BY <2>2, <3>2
        <4> QED
          BY <2>1, <3>1, <4>1, <4>2
      <3>3. CASE cursor = count /\ Proceed("parse")
        <4>1. CallsMade = 0 /\ count \in Nat
          BY <3>1, <3>3, MaxSectionsAssumption
          DEF StubInv, TypeOK, MeasureTypeOK, Loop, CallsMade
        <4> QED
          BY <2>2, <3>1, <3>3, <4>1
      <3> QED
        BY <2>5, <3>2, <3>3 DEF MeasureSections
    <2>6. CASE ParseKernel
      BY <2>2, <2>6, LaterPhases DEF ParseKernel
    <2>7. CASE InstallInitrd
      BY <2>2, <2>7, LaterPhases DEF InstallInitrd, OnInstallError
    <2>8. CASE DecideCmdline
      BY <2>2, <2>8, LaterPhases DEF DecideCmdline
    <2>9. CASE StartKernel
      BY <2>2, <2>9, LaterPhases DEF StartKernel
    <2> QED
      BY <2>3, <2>4, <2>5, <2>6, <2>7, <2>8, <2>9 DEF MainNext
  <1> QED
    BY <1>1, StubInvariant, PTL DEF Spec, MainAdvances

-----------------------------------------------------------------------------
(* The log. A start begins without events of its own; of the section at    *)
(* hand there is at most the name, and then it is the last event.          *)

Recorded ==
  \A k \in 1 .. Len(pcr) :
    \/ pcr[k].attempt < attempt
    \/ pcr[k].attempt = attempt /\ pcr[k].section <= cursor
    \/ pcr[k] = TheEvent("name") /\ step = "data"

NamePending == step = "data" => pcr # <<>> /\ pcr[Len(pcr)] = TheEvent("name")

BeforeMeasure == {"setup", "open", "sections"}

Fresh ==
  phase \in BeforeMeasure =>
    cursor = 0 /\ step = "open" /\ \A k \in 1 .. Len(pcr) : pcr[k].attempt < attempt

MeasuredIsThere ==
  \A i \in 1 .. cursor : reports[i] = "measured" =>
    \E k \in 1 .. Len(pcr) :
      pcr[k] = [attempt |-> attempt, section |-> i, part |-> "data"]

LogInv ==
  Recorded /\ NamePending /\ Fresh
  /\ InOrder(pcr) /\ DataFollowsName(pcr) /\ MeasuredIsThere

LEMMA EventFields ==
  ASSUME MeasureTypeOK, NEW k \in 1 .. Len(pcr)
  PROVE  /\ pcr[k] \in Event /\ pcr[k].attempt \in Nat /\ pcr[k].section \in Nat
         /\ pcr[k].part \in {"name", "data"}
  <1>1. pcr[k] \in Event
    BY DEF MeasureTypeOK
  <1> QED
    BY <1>1, MaxSectionsAssumption DEF Event

LEMMA AppendedLog ==
  ASSUME MeasureTypeOK, NEW e \in Event, NEW log, log = Append(pcr, e)
  PROVE  /\ Len(log) = Len(pcr) + 1 /\ Len(pcr) \in Nat
         /\ \A k \in 1 .. Len(pcr) : log[k] = pcr[k]
         /\ log[Len(pcr) + 1] = e
  BY DEF MeasureTypeOK

LEMMA AppendKeepsOrder ==
  ASSUME MeasureTypeOK, InOrder(pcr), DataFollowsName(pcr), NEW e \in Event,
         \A k \in 1 .. Len(pcr) : Earlier(pcr[k], e),
         e.part = "data" => pcr # <<>> /\ pcr[Len(pcr)] = [e EXCEPT !.part = "name"]
  PROVE  InOrder(Append(pcr, e)) /\ DataFollowsName(Append(pcr, e))
  <1> DEFINE log == Append(pcr, e)
  <1>1. /\ Len(log) = Len(pcr) + 1 /\ Len(pcr) \in Nat
        /\ \A k \in 1 .. Len(pcr) : log[k] = pcr[k]
        /\ log[Len(pcr) + 1] = e
    BY AppendedLog
  <1>2. pcr # <<>> => Len(pcr) > 0
    BY DEF MeasureTypeOK
  <1> HIDE DEF log
  <1>3. InOrder(log)
    <2> SUFFICES ASSUME NEW j \in 1 .. Len(log), NEW k \in 1 .. Len(log), j < k
                 PROVE  Earlier(log[j], log[k])
      BY DEF InOrder
    <2>1. j \in 1 .. Len(pcr) /\ log[j] = pcr[j]
      BY <1>1
    <2>2. CASE k = Len(pcr) + 1
      BY <1>1, <2>1, <2>2, Zenon
    <2>3. CASE k \in 1 .. Len(pcr)
      BY <1>1, <2>1, <2>3 DEF InOrder
    <2> QED
      BY <1>1, <2>2, <2>3
  <1>4. DataFollowsName(log)
    <2> SUFFICES ASSUME NEW k \in 1 .. Len(log), log[k].part = "data"
                 PROVE  k > 1 /\ log[k - 1] = [log[k] EXCEPT !.part = "name"]
      BY DEF DataFollowsName
    <2>1. CASE k = Len(pcr) + 1
      <3>1. log[k] = e /\ e.part = "data"
        BY <1>1, <2>1, Zenon
      <3>2. k > 1 /\ k - 1 = Len(pcr) /\ k - 1 \in 1 .. Len(pcr)
        BY <1>1, <1>2, <2>1, <3>1
      <3>3. log[k - 1] = pcr[Len(pcr)]
        BY <1>1, <3>2
      <3> QED
        BY <3>1, <3>2, <3>3
    <2>2. CASE k \in 1 .. Len(pcr)
      <3>1. log[k] = pcr[k] /\ k > 1 /\ pcr[k - 1] = [pcr[k] EXCEPT !.part = "name"]
        BY <1>1, <2>2 DEF DataFollowsName
      <3>2. log[k - 1] = pcr[k - 1]
        BY <1>1, <2>2, <3>1
      <3> QED
        BY <3>1, <3>2
    <2> QED
      BY <1>1, <2>1, <2>2
  <1> QED
    BY <1>3, <1>4 DEF log

\* What has been recorded comes before the events of the section at hand.
LEMMA RecordedIsEarlier ==
  ASSUME MeasureTypeOK, Recorded, attempt \in Nat, cursor < count,
         NEW what \in {"name", "data"}, what = "name" => step # "data"
  PROVE  /\ TheEvent(what) \in Event
         /\ \A k \in 1 .. Len(pcr) : Earlier(pcr[k], TheEvent(what))
  <1>1. TheEvent(what) \in Event
    BY MaxSectionsAssumption DEF TheEvent, Event, MeasureTypeOK
  <1>2. ASSUME NEW k \in 1 .. Len(pcr) PROVE Earlier(pcr[k], TheEvent(what))
    <2>1. pcr[k].attempt \in Nat /\ pcr[k].section \in Nat /\ cursor \in Nat
      BY EventFields, MaxSectionsAssumption DEF MeasureTypeOK
    <2> QED
      BY <2>1 DEF Recorded, Earlier, TheEvent
  <1> QED
    BY <1>1, <1>2

\* What a step of the loop does to the log and to the reports.
LEMMA LoopStep ==
  ASSUME MeasureNext
  PROVE  /\ \/ pcr' = pcr
            \/ step = "name" /\ pcr' = Append(pcr, TheEvent("name"))
            \/ step = "data" /\ pcr' = Append(pcr, TheEvent("data"))
         /\ \/ step' = "name" /\ step = "open" /\ pcr' = pcr /\ UNCHANGED <<cursor, reports>>
            \/ /\ step' = "data" /\ step = "name" /\ UNCHANGED <<cursor, reports>>
               /\ pcr' = Append(pcr, TheEvent("name"))
            \/ Report("skipped")
            \/ Report("measured") /\ step = "data" /\ pcr' = Append(pcr, TheEvent("data"))
  BY DEF MeasureNext, OpenTcg, ExtendName, ExtendData, Extended, Refused, Skip

LEMMA LoopKeepsOrder ==
  ASSUME MeasureTypeOK, LogInv, MeasureNext, attempt \in Nat, cursor < count
  PROVE  InOrder(pcr)' /\ DataFollowsName(pcr)'
  <1>1. CASE pcr' = pcr
    BY <1>1 DEF LogInv, InOrder, DataFollowsName
  <1>2. CASE step = "name" /\ pcr' = Append(pcr, TheEvent("name"))
    <2>1. /\ TheEvent("name") \in Event /\ TheEvent("name").part = "name"
          /\ \A k \in 1 .. Len(pcr) : Earlier(pcr[k], TheEvent("name"))
      BY <1>2, RecordedIsEarlier DEF LogInv, TheEvent
    <2>2. InOrder(Append(pcr, TheEvent("name"))) /\ DataFollowsName(Append(pcr, TheEvent("name")))
      BY <2>1, AppendKeepsOrder DEF LogInv
    <2> QED
      BY <1>2, <2>2, Zenon DEF InOrder, DataFollowsName
  <1>3. CASE step = "data" /\ pcr' = Append(pcr, TheEvent("data"))
    <2>1. /\ TheEvent("data") \in Event
          /\ \A k \in 1 .. Len(pcr) : Earlier(pcr[k], TheEvent("data"))
      BY <1>3, RecordedIsEarlier DEF LogInv
    <2>2. pcr # <<>> /\ pcr[Len(pcr)] = [TheEvent("data") EXCEPT !.part = "name"]
      BY <1>3 DEF LogInv, NamePending, TheEvent
    <2>3. InOrder(Append(pcr, TheEvent("data"))) /\ DataFollowsName(Append(pcr, TheEvent("data")))
      BY <2>1, <2>2, AppendKeepsOrder DEF LogInv
    <2> QED
      BY <1>3, <2>3, Zenon DEF InOrder, DataFollowsName
  <1> QED
    BY <1>1, <1>2, <1>3, LoopStep

\* An event that is new in the log is one of the section at hand.
LEMMA NewEvents ==
  ASSUME MeasureTypeOK, MeasureNext, attempt \in Nat, cursor < count,
         NEW k \in 1 .. Len(pcr')
  PROVE  \/ k \in 1 .. Len(pcr) /\ pcr'[k] = pcr[k]
         \/ step = "name" /\ pcr'[k] = TheEvent("name")
         \/ step = "data" /\ pcr'[k] = TheEvent("data")
  <1>1. \A what \in {"name", "data"} : TheEvent(what) \in Event
    BY MaxSectionsAssumption DEF TheEvent, Event, MeasureTypeOK
  <1>2. ASSUME NEW what \in {"name", "data"}, pcr' = Append(pcr, TheEvent(what))
        PROVE  \/ k \in 1 .. Len(pcr) /\ pcr'[k] = pcr[k]
               \/ pcr'[k] = TheEvent(what)
    <2>1. /\ Len(pcr') = Len(pcr) + 1 /\ Len(pcr) \in Nat
          /\ \A i \in 1 .. Len(pcr) : pcr'[i] = pcr[i]
          /\ pcr'[Len(pcr) + 1] = TheEvent(what)
      BY <1>1, <1>2, AppendedLog
    <2> QED
      BY <2>1
  <1> QED
    BY <1>2, LoopStep

LEMMA LoopKeepsRecord ==
  ASSUME MeasureTypeOK, LogInv, MeasureNext, attempt \in Nat, cursor < count,
         attempt' = attempt
  PROVE  Recorded' /\ NamePending'
  <1>1. cursor \in Nat
    BY MaxSectionsAssumption DEF MeasureTypeOK
  <1>2. /\ \/ cursor' = cursor /\ step' \in {"name", "data"}
           \/ cursor' = cursor + 1
        /\ step = "data" => cursor' = cursor + 1
        /\ cursor' = cursor => step' = "data" \/ step = "open"
    BY LoopStep, <1>1 DEF Report
  <1>3. Recorded'
    <2> SUFFICES ASSUME NEW k \in 1 .. Len(pcr')
                 PROVE  \/ pcr'[k].attempt < attempt'
                        \/ pcr'[k].attempt = attempt' /\ pcr'[k].section <= cursor'
                        \/ pcr'[k] = TheEvent("name")' /\ step' = "data"
      BY DEF Recorded
    <2>1. CASE k \in 1 .. Len(pcr) /\ pcr'[k] = pcr[k]
      <3>1. pcr[k].attempt \in Nat /\ pcr[k].section \in Nat
        BY <2>1, EventFields
      <3>2. \/ pcr[k].attempt < attempt
            \/ pcr[k].attempt = attempt /\ pcr[k].section <= cursor
            \/ pcr[k] = TheEvent("name") /\ step = "data"
        BY <2>1 DEF LogInv, Recorded
      <3> QED
        BY <1>1, <1>2, <2>1, <3>1, <3>2 DEF TheEvent
    <2>2. CASE step = "name" /\ pcr'[k] = TheEvent("name")
      BY <1>1, <1>2, <2>2 DEF TheEvent
    <2>3. CASE step = "data" /\ pcr'[k] = TheEvent("data")
      BY <1>1, <1>2, <2>3 DEF TheEvent
    <2> QED
      BY <2>1, <2>2, <2>3, NewEvents
  <1>4. NamePending'
    <2> SUFFICES ASSUME step' = "data"
                 PROVE  pcr' # <<>> /\ pcr'[Len(pcr')] = TheEvent("name")'
      BY DEF NamePending
    <2>1. cursor' = cursor /\ pcr' = Append(pcr, TheEvent("name"))
      BY LoopStep DEF Report
    <2>2. TheEvent("name") \in Event
      BY MaxSectionsAssumption DEF TheEvent, Event, MeasureTypeOK
    <2>3. /\ Len(pcr') = Len(pcr) + 1 /\ Len(pcr) \in Nat
          /\ pcr'[Len(pcr) + 1] = TheEvent("name")
      BY <2>1, <2>2, AppendedLog
    <2>4. TheEvent("name")' = TheEvent("name")
      BY <2>1 DEF TheEvent
    <2> QED
      BY <2>3, <2>4
  <1> QED
    BY <1>3, <1>4

LEMMA LoopKeepsMeasured ==
  ASSUME MeasureTypeOK, LogInv, MeasureNext, attempt \in Nat, cursor < count,
         attempt' = attempt
  PROVE  MeasuredIsThere'
  <1> SUFFICES ASSUME NEW i \in 1 .. cursor', reports'[i] = "measured"
               PROVE  \E k \in 1 .. Len(pcr') :
                        pcr'[k] = [attempt |-> attempt', section |-> i, part |-> "data"]
    BY DEF MeasuredIsThere
  <1>1. cursor \in Nat /\ Len(pcr) \in Nat /\ Len(reports) = cursor
        /\ reports \in Seq({"measured", "skipped"})
    BY MaxSectionsAssumption DEF MeasureTypeOK
  <1>2. \A what \in {"name", "data"} : TheEvent(what) \in Event
    BY MaxSectionsAssumption DEF TheEvent, Event, MeasureTypeOK
  <1>3. \/ pcr' = pcr
        \/ \E e \in Event : pcr' = Append(pcr, e)
    BY <1>2, LoopStep
  <1>4. /\ Len(pcr') >= Len(pcr) /\ Len(pcr') \in Nat
        /\ \A k \in 1 .. Len(pcr) : pcr'[k] = pcr[k]
    BY <1>1, <1>3, AppendedLog
  <1>5. CASE i \in 1 .. cursor /\ reports[i] = "measured"
    <2>1. PICK k \in 1 .. Len(pcr) :
            pcr[k] = [attempt |-> attempt, section |-> i, part |-> "data"]
      BY <1>5 DEF LogInv, MeasuredIsThere
    <2>2. k \in 1 .. Len(pcr') /\ pcr'[k] = pcr[k]
      BY <1>1, <1>4, <2>1
    <2> QED
      BY <2>1, <2>2
  <1>6. CASE i = cursor + 1 /\ step = "data" /\ pcr' = Append(pcr, TheEvent("data"))
    <2>1. Len(pcr') = Len(pcr) + 1 /\ pcr'[Len(pcr) + 1] = TheEvent("data")
      BY <1>2, <1>6, AppendedLog
    <2> QED
      BY <1>1, <1>6, <2>1 DEF TheEvent
  <1>7. CASE UNCHANGED <<cursor, reports>>
    BY <1>5, <1>7
  <1>8. ASSUME NEW what \in {"measured", "skipped"}, Report(what)
        PROVE  \/ i \in 1 .. cursor /\ reports[i] = "measured"
               \/ i = cursor + 1 /\ what = "measured"
    <2>1. /\ cursor' = cursor + 1 /\ reports'[cursor + 1] = what
          /\ \A j \in 1 .. cursor : reports'[j] = reports[j]
      BY <1>1, <1>8, AppendProperties DEF Report
    <2> QED
      BY <1>1, <2>1
  <1> QED
    BY <1>5, <1>6, <1>7, <1>8, LoopStep

\* The other steps leave the log alone. A new start comes after all of it.
LEMMA LogUnchanged ==
  ASSUME LogInv, UNCHANGED <<attempt, measureVars>>,
         phase' \in BeforeMeasure => phase \in BeforeMeasure
  PROVE  LogInv'
  <1> USE DEF measureVars, loopVars
  <1>1. Recorded' /\ NamePending' /\ MeasuredIsThere'
    BY DEF LogInv, Recorded, NamePending, MeasuredIsThere, TheEvent
  <1>2. InOrder(pcr)' /\ DataFollowsName(pcr)'
    BY DEF LogInv, InOrder, DataFollowsName
  <1>3. Fresh'
    BY DEF LogInv, Fresh
  <1> QED
    BY <1>1, <1>2, <1>3 DEF LogInv

\* A loop that starts over while all events are of earlier starts.
LEMMA LoopStarts ==
  ASSUME InOrder(pcr), DataFollowsName(pcr), NEW n, Measures(n),
         \A k \in 1 .. Len(pcr) : pcr[k].attempt < attempt'
  PROVE  LogInv'
  <1>1. pcr' = pcr /\ cursor' = 0 /\ step' = "open"
    BY DEF Measures
  <1>2. InOrder(pcr)' /\ DataFollowsName(pcr)'
    BY <1>1 DEF InOrder, DataFollowsName
  <1>3. Recorded' /\ NamePending' /\ Fresh' /\ MeasuredIsThere'
    BY <1>1 DEF Recorded, NamePending, Fresh, MeasuredIsThere
  <1> QED
    BY <1>2, <1>3 DEF LogInv

LEMMA InitEstablishesLogInv == Init => LogInv
  <1> SUFFICES ASSUME Init PROVE LogInv
    OBVIOUS
  <1>1. pcr = <<>> /\ cursor = 0 /\ step = "open" /\ phase = "firmware"
    BY DEF Init, MeasureInit
  <1>2. 1 .. Len(pcr) = {} /\ 1 .. cursor = {}
    BY <1>1
  <1> QED
    BY <1>1, <1>2 DEF LogInv, Recorded, NamePending, Fresh, BeforeMeasure,
       InOrder, DataFollowsName, MeasuredIsThere

LEMMA BootKeepsLogInv ==
  ASSUME StubInv, LogInv, Boot
  PROVE  LogInv'
  <1>1. attempt \in Nat /\ attempt' = attempt + 1 /\ Measures(0) /\ cursor \in Nat
    BY MaxAttemptsAssumption, MaxSectionsAssumption
    DEF StubInv, TypeOK, MeasureTypeOK, Boot
  <1>2. ASSUME NEW k \in 1 .. Len(pcr) PROVE pcr[k].attempt < attempt'
    <2>1. pcr[k].attempt \in Nat
      BY EventFields DEF StubInv, TypeOK
    <2>2. pcr[k].attempt <= attempt
      BY <1>1, <2>1 DEF LogInv, Recorded, TheEvent
    <2> QED
      BY <1>1, <2>1, <2>2
  <1> QED
    BY <1>1, <1>2, LoopStarts DEF LogInv

LEMMA MeasureKeepsLogInv ==
  ASSUME StubInv, LogInv, MeasureSections
  PROVE  LogInv'
  <1>1. attempt \in Nat /\ attempt' = attempt /\ MeasureTypeOK
    BY MaxAttemptsAssumption DEF StubInv, TypeOK, MeasureSections
  <1>2. phase' \notin BeforeMeasure
    BY DEF MeasureSections, Proceed, BeforeMeasure
  <1>3. CASE MeasureNext
    <2>1. cursor < count
      BY <1>3, MeasureKeepsType, <1>1 DEF StubInv, Loop
    <2>2. InOrder(pcr)' /\ DataFollowsName(pcr)'
      BY <1>1, <1>3, <2>1, LoopKeepsOrder
    <2>3. Recorded' /\ NamePending'
      BY <1>1, <1>3, <2>1, LoopKeepsRecord
    <2>4. MeasuredIsThere'
      BY <1>1, <1>3, <2>1, LoopKeepsMeasured
    <2> QED
      BY <1>2, <2>2, <2>3, <2>4 DEF LogInv, Fresh
  <1>4. CASE UNCHANGED measureVars
    BY <1>1, <1>2, <1>4, LogUnchanged
  <1> QED
    BY <1>3, <1>4 DEF MeasureSections

THEOREM LogInvariant == Spec => [](StubInv /\ LogInv)
  <1>1. StubInv /\ LogInv /\ [Next]_vars => LogInv'
    <2> SUFFICES ASSUME StubInv, LogInv, [Next]_vars PROVE LogInv'
      OBVIOUS
    <2>1. CASE SetupUefiCrate \/ OpenLoadedImage
      BY <2>1, LogUnchanged DEF SetupUefiCrate, OpenLoadedImage, BeforeMeasure
    <2>2. CASE ParseSections
      <3>1. /\ phase = "sections" /\ attempt' = attempt
            /\ phase' \in {"measure", "firmware"}
            /\ UNCHANGED measureVars \/ \E n : Measures(n)
        BY <2>2 DEF ParseSections, Proceed, GiveUp
      <3>2. InOrder(pcr) /\ DataFollowsName(pcr)
            /\ \A k \in 1 .. Len(pcr) : pcr[k].attempt < attempt'
        BY <3>1 DEF LogInv, Fresh, BeforeMeasure
      <3>3. UNCHANGED measureVars => LogInv'
        BY <3>1, LogUnchanged DEF BeforeMeasure
      <3> QED
        BY <3>1, <3>2, <3>3, LoopStarts
    <2>3. CASE ParseKernel \/ InstallInitrd \/ DecideCmdline \/ StartKernel
      <3>1. UNCHANGED <<attempt, measureVars>> /\ phase' \notin BeforeMeasure
        BY <2>3 DEF ParseKernel, InstallInitrd, OnInstallError, DecideCmdline, StartKernel,
           Proceed, GiveUp, BeforeMeasure
      <3> QED
        BY <3>1, LogUnchanged
    <2>4. CASE LocateInitrd \/ KernelReturns
      <3>1. UNCHANGED <<attempt, measureVars>> /\ phase' \notin BeforeMeasure
        BY <2>4 DEF LocateInitrd, KernelReturns, GiveUp, BeforeMeasure
      <3> QED
        BY <3>1, LogUnchanged
    <2>5. CASE UNCHANGED vars
      <3>1. UNCHANGED <<attempt, measureVars>> /\ phase' = phase
        BY <2>5 DEF vars
      <3> QED
        BY <3>1, LogUnchanged
    <2> QED
      BY <2>1, <2>2, <2>3, <2>4, <2>5, BootKeepsLogInv, MeasureKeepsLogInv
      DEF Next, MainNext
  <1> QED
    BY <1>1, StubInvariant, InitEstablishesLogInv, PTL DEF Spec

\* Whatever TPM calls failed and however many starts a boot took, the events
\* of PCR 11 are those of the UKIs in their order, none of them twice
\* (main.rs:88, tpm2.rs:29).
THEOREM StubLogReplays == Spec => []PcrReplays
  <1>1. LogInv => PcrReplays
    BY DEF LogInv, PcrReplays, MeasuredIsThere
  <1> QED
    BY <1>1, LogInvariant, PTL
=============================================================================
