------------------------------ MODULE Protection ------------------------------
(***************************************************************************)
(* apply of src/pe/loader/protection.rs: every code section of the mapped  *)
(* kernel is made read-only, then executable, through the firmware's       *)
(* EFI_MEMORY_ATTRIBUTE_PROTOCOL. Each call may fail; a failure is only    *)
(* warned about, and a failure of the second call undoes the first.        *)
(*                                                                         *)
(* The protocol is external: it works on whole pages, refuses an unaligned *)
(* address and an empty range, may refuse any other, and a refused call    *)
(* changes nothing.                                                        *)
(***************************************************************************)
EXTENDS KernelImage

CONSTANT DefaultNX   \* whether the firmware hands out non-executable pages

ASSUME DefaultNXAssumption == DefaultNX \in BOOLEAN

VARIABLES
  kernel,    \* the mapped image
  base,      \* where it is mapped
  cursor,    \* the number of sections the loop is done with
  step,      \* the call made last for section cursor + 1
  ro,        \* the read-only pages
  xp,        \* the non-executable pages
  reported,  \* the sections logged as RO+X
  warned,    \* the sections a warning names
  stuck      \* those of them whose rollback failed

protectVars == <<kernel, base, cursor, step, ro, xp, reported, warned, stuck>>

Step  == {"none", "read_only", "not_executable"}
Pages == 0 .. AddrMax \div PageSize

-----------------------------------------------------------------------------
(* The call made for a section: its start and the pages of its range.      *)

\* saturating_sub: 0 for a section below ImageBase.
SaturatingOffset(s) ==
  IF s.virtual_address < kernel.base_address THEN 0 ELSE DestOffset(kernel, s)

CodeBase(s)   == base + SaturatingOffset(s)
Overflows(s)  == CodeBase(s) > AddrMax

\* A plausible slip: a page too many for a size that is a multiple of a page.
PagesOfRoundedTooFar(s) ==
  CodeBase(s) \div PageSize
    .. (CodeBase(s) \div PageSize) + (s.virtual_size \div PageSize)

\* A plausible slip: the length rounded down to whole pages.
PagesOfTruncated(s) ==
  CodeBase(s) \div PageSize
    .. (CodeBase(s) \div PageSize) + (s.virtual_size \div PageSize) - 1

PagesOf(s) ==
  CodeBase(s) \div PageSize
    .. (CodeBase(s) \div PageSize) + PageCount(s.virtual_size) - 1

FirmwareAccepts(s) == CodeBase(s) % PageSize = 0 /\ s.virtual_size > 0

\* The section the loop is at, and whether one is left.
Current == kernel.sections[cursor + 1]
AtSection == cursor < Len(kernel.sections)

Section(i) == kernel.sections[i]
CodeSections == {i \in 1 .. Len(kernel.sections) : Section(i).code}

PagesOfAll(S) == UNION {PagesOf(Section(i)) : i \in S}

\* The pages allocate_pages returned.
ImagePages ==
  base \div PageSize .. (base \div PageSize) + PageCount(kernel.size) - 1

-----------------------------------------------------------------------------
InitialXP == IF DefaultNX THEN Pages ELSE {}

\* A kernel that map_sections accepted, at a base it may have got.
IsMapped(k, b) ==
  /\ \A i \in 1 .. Len(k.sections) : Mappable(k, k.sections[i])
  /\ b % PageSize = 0
  /\ b > 0
  /\ b + RoundUp(k.size) <= AddrMax + 1

AttributesInit ==
  /\ cursor = 0
  /\ step = "none"
  /\ ro = {}
  /\ xp = InitialXP
  /\ reported = {}
  /\ warned = {}
  /\ stuck = {}

ProtectInit ==
  /\ kernel \in Kernels
  /\ base \in Addr
  /\ IsMapped(kernel, base)
  /\ AttributesInit

Warn == warned' = warned \cup {cursor + 1}

\* Not code, or code whose address overflows, which is warned about.
SkipSection ==
  /\ step = "none"
  /\ AtSection
  /\ IF Current.code THEN Overflows(Current) /\ Warn ELSE UNCHANGED warned
  /\ cursor' = cursor + 1
  /\ UNCHANGED <<kernel, base, step, ro, xp, reported, stuck>>

SetReadOnly ==
  /\ step = "none"
  /\ AtSection
  /\ Current.code
  /\ ~ Overflows(Current)
  /\ \/ /\ FirmwareAccepts(Current)
        /\ ro' = ro \cup PagesOf(Current)
        /\ step' = "read_only"
        /\ UNCHANGED <<cursor, warned>>
     \/ /\ Warn                     \* refused: warn and continue
        /\ cursor' = cursor + 1
        /\ UNCHANGED <<ro, step>>
  /\ UNCHANGED <<kernel, base, xp, reported, stuck>>

\* Nothing is logged as RO+X after a refusal; a plausible slip logs it anyhow.
ReportAlways == reported' = reported \cup {cursor + 1}

DoNotReport == UNCHANGED reported

ClearNoExecute ==
  /\ step = "read_only"
  /\ \/ /\ FirmwareAccepts(Current)
        /\ xp' = xp \ PagesOf(Current)
        /\ reported' = reported \cup {cursor + 1}
        /\ cursor' = cursor + 1
        /\ step' = "none"
        /\ UNCHANGED warned
     \/ /\ step' = "not_executable"
        /\ Warn
        /\ DoNotReport
        /\ UNCHANGED <<xp, cursor>>
  /\ UNCHANGED <<kernel, base, ro, stuck>>

\* The rollback clears RO; a plausible slip clears XP with it.
UndoBoth == ro' = ro \ PagesOf(Current) /\ xp' = xp \ PagesOf(Current)

Undo == ro' = ro \ PagesOf(Current) /\ UNCHANGED xp

\* The loop goes on; a plausible slip tries the section again.
TryAgain == UNCHANGED cursor

Continue == cursor' = cursor + 1

RollBack ==
  /\ step = "not_executable"
  /\ \/ /\ FirmwareAccepts(Current)
        /\ Undo
        /\ UNCHANGED stuck
     \/ /\ stuck' = stuck \cup {cursor + 1}
        /\ UNCHANGED <<ro, xp>>
  /\ Continue
  /\ step' = "none"
  /\ UNCHANGED <<kernel, base, reported, warned>>

ProtectNext == SkipSection \/ SetReadOnly \/ ClearNoExecute \/ RollBack

ProtectSpec == ProtectInit /\ [][ProtectNext]_protectVars

-----------------------------------------------------------------------------
(* Properties.                                                             *)

\* Every variable stays in its type, and the logs only name code sections
\* the loop is at or done with.
ProtectTypeOK ==
  /\ kernel \in Image
  /\ base \in Addr
  /\ cursor \in 0 .. Len(kernel.sections)
  /\ step \in Step
  /\ step # "none" => cursor + 1 \in CodeSections
  /\ ro \in SUBSET Int
  /\ xp \in SUBSET Int
  /\ reported \subseteq CodeSections \cap 1 .. cursor
  /\ warned \subseteq CodeSections \cap 1 .. cursor + 1
  /\ stuck \subseteq warned \cap 1 .. cursor

\* A later section that shares the page was rolled back, which took RO from
\* the page for both; the warning about the later section tells.
UndoneBehind(i, page) ==
  \E j \in (warned \ stuck) \cap i + 1 .. cursor : page \in PagesOf(Section(j))

\* On firmware that hands out non-executable pages, W^X holds at every
\* moment, between two calls included, whether or not code sections share
\* pages: RO is set before XP is cleared and XP is never clear on a page
\* whose RO is rolled back, save for one that an earlier section was
\* reported for and a later, warned about, section was rolled back on.
WriteXorExecute ==
  DefaultNX =>
    \A page \in ImagePages \ (ro \cup xp) :
      \E i \in reported : page \in PagesOf(Section(i)) /\ UndoneBehind(i, page)

\* "EFI_MEMORY_ATTRIBUTE_PROTOCOL available, applying W^X" (mod.rs:40): once
\* every code section has been protected, no page of the kernel is both
\* writable and executable.
ProtectedKernelIsWX ==
  (cursor = Len(kernel.sections) /\ reported = CodeSections) =>
    ImagePages \subseteq ro \cup xp

\* "-> RO+X" (protection.rs:115): every page of a section logged as protected
\* stays executable, and read-only unless a later section that shares the
\* page was rolled back, which is warned about.
ReportedSectionsAreProtected ==
  \A i \in reported : \A page \in PagesOf(Section(i)) :
    page \notin xp /\ (page \in ro \/ UndoneBehind(i, page))

\* The section that holds RO without being reported yet.
InHand == IF step = "none" THEN {} ELSE {cursor + 1}

\* A section that could not be protected leaves nothing behind, unless a
\* warning said that its rollback failed too: whatever attribute a page has
\* lost or gained, a reported or stuck section, or the one in hand, is why,
\* and only a reported one is why it is executable.
FailedSectionsAreRolledBack ==
  /\ ro \subseteq PagesOfAll(reported \cup stuck \cup InHand)
  /\ InitialXP \ xp \subseteq PagesOfAll(reported)

\* "section_base points within our allocated pages" (protection.rs:84, :98): the
\* attributes of a page outside the kernel's allocation never change,
\* although lengths are rounded up to whole pages.
ChangesStayInsideImage ==
  /\ ro \subseteq ImagePages
  /\ InitialXP \ xp \subseteq ImagePages

\* Sections that start on page boundaries and do not overlap.
PageAligned ==
  /\ \A i \in 1 .. Len(kernel.sections) : CodeBase(Section(i)) % PageSize = 0
  /\ \A i, j \in 1 .. Len(kernel.sections) :
       i # j => CodeBase(Section(i)) + Section(i).virtual_size <= CodeBase(Section(j))
                \/ CodeBase(Section(j)) + Section(j).virtual_size <= CodeBase(Section(i))

\* In such a layout the kernel's data stays writable: no page of a data
\* section becomes read-only, whatever the rounding of its neighbours.
DataStaysWritable ==
  PageAligned =>
    \A i \in (1 .. Len(kernel.sections)) \ CodeSections :
      PagesOf(Section(i)) \cap ro = {}
=============================================================================
