# Verification of the Muak boot stub

TLA+ models of the UEFI boot stub in `src/`, model-checked with TLC, with
theorems proved by TLAPS. The stub is a PE binary inside a Unified Kernel Image:
it exports firmware variables, measures the UKI's sections into PCR 11, offers the
initrd through LoadFile2, decides the kernel's command line, maps the kernel into
memory, protects its code and jumps to it. Paths below are relative to `src/`.

## Inventory

| Component | Source | State it keeps | Operations |
|---|---|---|---|
| entry | `src/main.rs` | none of its own; owns the exclusive `LoadedImage` | `setup_uefi_crate`, `main` |
| variables | `src/vars/` | firmware variables | `export`, `export_variable`, `partition_guid` |
| security state | `src/security.rs` | none (reads two variables for the log) | `is_setup_mode`, `is_secure_boot_enabled` |
| measurement | `src/tpm2.rs`, loop in `main.rs:88` | PCR 11 and the event log, in the TPM | `is_available`, `measure_section` |
| kernel image | `src/pe/kernel.rs` | the parsed header, immutable | `Image::parse` |
| initrd service | `src/loadfile2.rs` | `FILE_PTR`, `FILE_LEN`, a handle with two protocols | `install`, `load_file2_callback` |
| policy | `src/policy/` | none; reads the ESP file `\luks` | `cmdline`, `try_inject`, `read_key` |
| mapping | `src/pe/loader/mapping.rs` | the kernel's pages | `map_sections` |
| protection | `src/pe/loader/protection.rs`, `protocol.rs` | memory attributes of those pages | `locate`, `apply` |
| command line | `src/pe/loader/cmdline.rs` | a pool buffer | `encode_ucs2`, `strip_trailing_terminators` |
| loader | `src/pe/loader/mod.rs` | `LoadedImage` of the stub's handle | `start` |

`main` calls the components one after another and stops at the first error that is
propagated with `?`. Variables and measurement never stop it: their errors are only
logged. The initrd service is the one component that is called back: firmware or
kernel may call it between any two steps of the stub once it is published. The
loader composes mapping, protection and the command line, and ends by entering the
kernel, which finds what they left in memory, in `LoadedImage` and in LoadFile2. If
`main` returns an error, the firmware unloads the stub's image and may start the same
or another stub in the same boot; pages, pool buffers, handles, variables and PCR
contents remain.

What makes this hard is not threads (there is one) but long sequences of calls into
a firmware that may refuse any of them, callbacks, partial results, unsafe writes
guarded by arithmetic on untrusted header fields, and state that outlives the step
that wrote it. The hazards are listed line by line in `PROJECT.json`; the properties
follow them.

What makes each component correct:

- entry: all of a UKI is measured before any of it takes effect; only a kernel the
  parser accepts is started; what a kernel finds belongs to its own UKI, whatever
  starts have failed before; every start comes to an end;
- mapping: every unsafe copy and fill stays inside the allocation and inside the
  file, and memory is in the end exactly what the section table says;
- protection: every page of a section is RO+X once that is reported, or as it was, or
  a failed rollback is on record, also where sections share pages; attributes change
  only where they should; W^X holds between any two calls;
- command line and policy: what policy answers is what the kernel reads; a key
  arrives intact, behind the unchanged base; a key that cannot be read stops the boot,
  and nothing else about the key file does;
- loader: what the kernel finds is complete; nobody holds `LoadedImage` when it is
  entered; a failure never leaves half a kernel described; a kernel that asked for
  protection does not fault at its entry unwarned; it always decides;
- initrd service: what can be called is ready; it is installed whole or reported as
  failed, with nobody having called it; the two-call contract is kept; who
  asks by the contract is served;
- measurement: the PCR can be replayed, across all starts of a boot; one failure
  costs one section only;
- variables: what another loader has set survives; ours are set.

## Modules

| Module | Models | Correspondence |
|---|---|---|
| `KernelImage` | fields of `Image`, section geometry and the mapping's checks | one operator per computation of `map_sections` |
| `KernelHeader` | `Image::parse` | `Accepts` is the conjunction of its checks, `Parsed` what it keeps |
| `Mapping` | `map_sections` | `AllocatePages`, then `MapSection` / `RefuseSection` per iteration, then `FinishMapping`; `mem` maps each address to the file offset of the byte it holds, `Zero` or `Untouched` |
| `Protection` | `apply` | one action per attribute call: `SetReadOnly`, `ClearNoExecute`, `RollBack`; `SkipSection` for `continue`; `ro` and `xp` are page sets, `reported`, `warned` and `stuck` the sections that the line "RO+X", any warning, and "Failed to roll back" name |
| `Cmdline` | `strip_trailing_terminators`, `encode_ucs2` | operators on byte sequences; `Inherited`, the load options the firmware started the stub with |
| `Handover` | abstract: the kernel is handed over whole in one step, or refused; never with load options too large for their size field (`Tellable`) | no code: what `start` promises |
| `Loader` | `start` | one action per statement with an effect; `Map` and `Protect` run the steps of `Mapping` and `Protection` (named instances over shared variables); `unavailable` is the warning of a missing protocol |
| `FileService` | abstract: one file offered, received whole or not at all | no code: what LoadFile2 promises |
| `LoadFile2` | `install` and `load_file2_callback` | one action per store or boot service of `install`; a call of the callback is one step (it calls nothing back); consumers and unloading are the environment |
| `Policy` | both builds of `policy::cmdline`, `luks.rs` | `CopyBase` (plain build), `AskTpm`, `ReadKey`, `ReturnBase` (muak build) |
| `Measure` | `measure_section` and `main`'s loop | `OpenTcg`, `ExtendName`, `ExtendData`; no specification of its own, `Stub` takes its steps |
| `Vars` | `vars::export` | `Probe` and `Set` per variable, `GoOn` from the firmware's to the disk's |
| `Stub` | `setup_uefi_crate`, `main` and the firmware around them | one action per step of `main` that can return early; `GiveUp` is every `?`; `Boot`, `LocateInitrd` and `KernelReturns` are the firmware and the kernel |
| `MC*` | the small instances | kernels, command lines, files and paths for TLC |
| `*Proofs` | the theorems | see below |

How they compose: `Loader` runs the steps of `Mapping` and `Protection` (named
instances over shared variables) and implements `Handover`; `LoadFile2` implements
`FileService`; `Stub` runs the steps of `Measure`, guards with `KernelHeader`, takes
`start` as the step of `Handover` that `Loader` is shown to implement, and `install`
and `policy::cmdline` by what they may give, which `LoadFile2` and `Policy` detail.
`vars::export` gives nothing back to `main`, so `Vars` stands alone. What `Stub`
takes for granted of a component is a theorem about that component:

| `Stub` takes | for | justified by |
|---|---|---|
| `H!HandOver`, `H!Refuse` | `start` | `LoaderRefinesHandover` |
| `Answers(line)` | `policy::cmdline` | `PolicyAnswersAsMainExpects` |
| publishing, or giving up with nothing offered | `install` | `InstallPublishesOrFails` |
| the steps of `Measure` | the measurement | they are `Measure`'s own |

Some modules also define plausible wrong versions of a helper, marked as slips. No
specification uses them; each property is shown to catch one (`mutants` in
`PROJECT.json`).

Abstractions: addresses are small numbers and a page has two bytes; `AddrMax`
stands for `u64::MAX`, so that sums which reach the end of the address space occur.
Header fields are u16/u32 widened to u64 before any sum, so the `checked_add`
branches on two of them cannot be taken and are not modelled. Allocation is
nondeterministic in its place and its success, and a page is never at address zero.
Firmware services are external and modelled by what their specification allows:
attribute calls work on whole pages, refuse an unaligned base or an empty range,
may refuse any other, and a refused call changes nothing; `HashLogExtendEvent` may
fail before or after extending the PCR; setting a variable without access
attributes deletes it. Logged texts are left out. A policy's or an initrd's bytes
are numbers, since what the kernel reads of them is the property.

## Runs

| Run | Result | Shows |
|---|---|---|
| `mapping` | holds | all one-section layouts of a 3- or 4-byte image around its bounds, with two values of ImageBase, and all pairs from 72 sections: writes and reads stay in bounds, memory is what the table says, the last section winning |
| `mapping_rva` | violated | a kernel with ImageBase above its RVAs, as in the parser's own tests, is refused |
| `protection` | holds | two sections of 0 to 3 bytes, aligned or not, and aligned triples, in up to three pages, at any base, each call free to fail |
| `wx_default` | violated | code sections alone are protected: with executable allocations, data stays W+X |
| `loader` | holds | five section tables, two of them refused half-way, with entry points inside and beyond the image, with and without NX_COMPAT, and seven command lines; refines `Handover`, liveness included; the page attributes at the entry are those the log tells; a kernel with NX_COMPAT that enters inside its code faults there only after a warning; a kernel that could be started is not turned away; every step leaves less to do |
| `loader_entry` | violated | the entry point is never compared with the image's size |
| `loadfile2` | holds | install against two consumers, initrds of 0, 1 and 2 bytes, all failures, unloading at any moment after install; an install that fails behind either installation has published nothing and met nobody; refines `FileService`; a located file is eventually served, and by the second call |
| `policy` | holds | all command lines up to three bytes over four classes of bytes, seven key files; base and key reach the kernel, the inherited options where there is neither; an unreadable key file stops the boot and no other does |
| `stub` | holds | up to two starts in one boot of any of ten UKIs: with and without TPM and muak, initrd and command line; kernels that are started, that `parse` refuses for each of its reasons, and that the mapping refuses; three sections, every TPM call failing before or after the extension; every start ends, each step bringing it nearer; a kernel reads its UKI's command line whole and first, also where a key is appended behind a trailing blank |
| `stub_restart` | violated | nothing uninstalls LoadFile2 when `main` fails: the kernel of a later start may locate the initrd of a stub that is no longer in memory |
| `vars` | holds | all paths of two nodes, all initial variables, failing services |
| `vars_export` | violated | with empty attributes nothing is stored |

The violated runs are disagreements between the code and what a comment, a log line
or a test of it says; `findings` in `PROJECT.json` quotes both. More oddities are part
of the models and no property denies them, since nothing in the repository promises
otherwise: a blank command line is not set, so the kernel reads the load options of
the stub (`Handover!Options`, `Policy!KernelLine`); bytes that no section covers, the
headers among them, are not written (`LastSectionWins` says so); a kernel without
NX_COMPAT is neither protected nor warned about, so that firmware whose pages are
non-executable makes it fault at its entry (`CompatibleEntryFaultsOnlyAfterWarning`
speaks only of kernels that declare it, with an entry point in their code); where code
sections share a page, the rollback of the later one takes RO from the earlier, which
stays reported, and only the warning about the later one tells (`UndoneBehind`); a section whose second event fails is reported as
skipped although its name is in the PCR (`PcrReplays` allows a name alone);
`is_available` takes an error for the absence of a TPM2 (`AskTpm`); a start that fails
after the measurement leaves its events in PCR 11, and the next start extends it again
(`PcrReplays` says in which order); and what a failed start allocated is not freed.

Why the bounds are enough: the mapping and the protection treat sections one at a
time, and two sections interact only through the bytes or pages they share, so two
sections with every relative position (apart, touching, overlapping, nested, equal)
meet every case, and the proofs remove the bound. Two-byte pages give aligned and
unaligned starts and sizes below, at and above a page. Command lines of three bytes
hold an inner and a trailing terminator around a letter; key files cover each length
modulo three and every class of the Base64 alphabet. Two consumers suffice because
consumers share only what `install` writes. Three sections give the loop of the
measurement a first, a middle and a last failure. Two starts (`MaxAttempts`) are
enough for everything a failed start can leave to a later one, because what it
leaves, events and handles, is never read by the stub and only added to; the
theorems about `Stub` hold for any number of starts. `AddrMax`, `MaxOptionsSize` and
`MaxSections` are the other bounds; the first two are limits of the code itself,
made small. `MaxOptionsSize` is six bytes in `loader`, where some of the command lines
do not fit and must be refused, eight in `stub`, where the longest line with a key just
fits, and out of reach in `policy`, which is about contents.

Deadlock is not checked: every component comes to an end, after which nothing is
left to do.

Fairness: the stub is the only thread, so its own next step is weakly fair
(`MainNext` in `Stub!Spec`, `Loader!Spec`, `install` and the calls of a consumer that
has begun in `LoadFile2!FairSpec`). A firmware call returns, with
success or an error; it is never assumed to succeed. A kernel need not return, a
consumer need not look for the initrd, the stub need not be unloaded, and the
firmware need not start another.

## Proofs

All theorems hold for every value of the constants under the named assumptions
(`PageSizeAssumption`, `AddrMaxAssumption`, `KernelsAssumption`, ... in the modules
that declare the constants); TLC evaluates these on every instance.

- `MappingProofs`: `MapTypeCorrect`, `MapsSectionTable`, `MapWritesInside`,
  `MapReadsInside`, `MapDecidesByTheTable`. `LastSectionWins` is not inductive: that the bytes the latest
  section placed are in bounds needs that every section below `mapped` passed its
  checks. The invariant adds this and the position of the allocation. Writes and
  reads in bounds then follow from it, because every changed byte is covered by a
  mapped section. `MapDecidesByTheTable` says that, given pages, the checks alone
  decide: what `mapping_rva` finds of one kernel is so of every kernel with an RVA
  below ImageBase.
- `ProtectionProofs`: `ProtectTypeCorrect`, `ProtectReportIsTrue`,
  `ProtectRollsBack`, `ProtectWriteXorExecute`, `ProtectStaysInside`,
  `ProtectLeavesData`. The properties are about pages, so that they
  hold also where code sections share some: a changed attribute needs a section that
  explains it, and a reported page that has lost RO a later section whose rollback the
  log shows. The strengthening says which pages the current section holds between its
  calls, and that every section the loop is done with is reported or warned about or
  no code. For the last two, lemmas about rounding show that a section inside the
  image has its pages inside the rounded image and, in page-aligned tables, apart
  from other sections' pages; the two properties together are then inductive.
  `ReportIsTrue`, `FailureLeavesNoTrace` and `NeverWritableAndExecutable` state what
  follows from the invariant alone, for use where `apply` is a part of something.
- `LoaderProofs`: `LoaderTypeCorrect`, `LoaderLetsGo`, `LoaderDescribesWhole`,
  `LoaderWarnsOfCompatibleEntryFault`, `LoaderWritesBeforeProtection`, and
  `LoaderRefinesHandover`. `start` only takes the mapping's steps, so
  `MappingProofs` is instantiated and its invariant reused. What is added: the phase
  determines how far mapping and protection are (`Order`), the pages exist (`Room`),
  and `LoadedImage` changes hands once, to a complete kernel (`Description`). The
  refinement is a step simulation: at the jump, memory is the abstract `Contents`
  because `LastSectionWins` holds with every section mapped (`MemoryIsContents`);
  every other step is a stutter, a refusal or a return. `LoaderRefinesHandover` is
  `Handover` without its fairness.
  `LoaderRunsMapping` says that a behaviour of `start` is a behaviour of `Mapping`, so
  nothing `start` does disturbs it (`LoaderPlacesSections`). The protection's specification
  is not implemented in this way, since its kernel and base are fixed from the
  beginning and those of `start` are not: here the invariant is reused from the
  moment the kernel is mapped (`MappedIsProtectable`, `AttributesInv`), which gives
  `LoaderProtectsAsLogged` and, since a section that is neither reported nor warned
  about is no code, `LoaderWarnsOfCompatibleEntryFault`. `LoaderGivesUpForAReason` goes through the ways `start` can
  fail: a refused section failed one of the three checks, and an entry address past
  the end of the address space is past the end of the image, because the pages exist.
- Progress. Liveness cannot be proved here, but its core can: `LoaderAdvances` and
  `StubAdvances` say that every step of the stub lowers a natural number
  (`Remaining`), so that no loop is endless and no call is repeated whatever the
  firmware answers. What TLC adds, on its instances, is that such a step is enabled
  until the end and is therefore taken (`ImplementsHandover`, `EveryStartEnds`).
- `CmdlineProofs`: the lemmas about the conversions of a command line that the proofs
  about the policy and about the whole stub share. Stripping removes only
  terminators (`StripCuts`), and never reaches into a stripped line that something
  was put behind (`StripKeepsStripped`); the kernel reads an encoded line to its first NUL
  (`ReadsToFirstNul`), hence a line without one in whole (`ReadsCleanLine`,
  `ReadsCleanFront`). None needs induction, because the conversions are functions of
  the index; `Min` and `Max` are found by well-foundedness.
- `PolicyProofs`: `PolicyTypeCorrect`, `PolicyStopsForUnreadableKey`,
  `PolicyBaseReachesKernel`, `PolicyKeyReachesKernel`, `PolicyAnswersAsMainExpects`,
  and `KeyDecodes`. The invariant (`Decided`) says by which branch the answer was
  reached; each bit of a Base64 character is a bit of the data and back, so that
  decoding an encoded key gives the key.
- `VarsProofs`: `VarsTypeCorrect`, `VarsSurvive`, `VarsStoresNothing`. That nothing is replaced is
  inductive with what the probe has established: a variable that is about to be set
  was found missing, or its probe failed (`SetsOnlyMissing`). `VarsStoresNothing` shows
  that what `vars_export` finds is so for any firmware.
- `StubProofs`: `StubTypeCorrect`, `StubMeasuresFirst`, `StubRunsSupportedKernels`,
  `StubHandsOverItsUki`, `StubPassesCmdline`, `StubAdvances`,
  `StubLogReplays`, for any UKIs and any number of starts. The properties speak of effects that outlive the phase that
  caused them, so the invariant adds what holds in each phase (`Established`) and that the
  loop has ended by then (`Loop`). `StubLogReplays`
  needs a second invariant on top (`LogInv`): a start begins without events of its own
  (`Fresh`), all that is recorded comes before the section at hand but its name
  (`Recorded`), and before the data is measured that name is the last event
  (`NamePending`). `StubPassesCmdline` follows the line from the UKI to the kernel: the
  invariant says which answer was handed over and `CmdlineProofs` what is read of it.
- `LoadFile2Proofs`: `LoadFile2TypeCorrect`, `NoHalfWrittenStatics`,
  `CallsKeepContract`, `InstallPublishesOrFails`, `LoadFile2TwoCalls`,
  `LoadFile2Refines`. The order of the stores is captured by an invariant that ties
  `installer` to what has been stored; the contract and the step simulation to
  `FileService` follow from it, for any number of consumers and any files; that nobody has called
  before the protocol is published is an invariant of its own, behind
  `InstallPublishesOrFails`. That the
  second call is the last one needs what a consumer has learnt from its first: the
  file's length, which never changes (`SizedKnowsLength`).

Only model-checked: liveness (`LocatedIsServed`, `EveryStartEnds`, and the fairness
of `ImplementsHandover`), since these provers reach neither fairness nor `ENABLED`; what
of it is a matter of single steps is proved (Progress, `LoadFile2TwoCalls`). And the
runs that end in a violation.

## Not modelled

`security.rs` (two reads that feed a log line), `log.rs`, the section parser of the
`uki` crate and the header parser of the `object` crate (not in this repository),
`section_name` (log lines only), the PE builder of the tests, and the build files.
Logged wording and the formats of exported variables are left out. That `main` gives
`LoadedImage` back on its early returns is the drop of a local variable and no step of
`Stub`; where the code releases it by hand, around the kernel's entry, `Loader` follows it. What a failed
start leaks is covered only in that any later allocation may fail.

## Plan

1. Done: all the components above, the composition `Stub` with restarts, the two
   abstract specifications and their refinements, a theorem for every safety
   property of the passing runs, and one for each thing `Stub` takes of a component.
2. Left: the disagreements `mapping_rva` and `stub_restart`, to be stated as holding
   properties once the code settles them.
