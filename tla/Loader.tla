-------------------------------- MODULE Loader --------------------------------
(***************************************************************************)
(* start of src/pe/loader/mod.rs: map the kernel, protect its code if it   *)
(* asks for it and the firmware can, describe it in the stub's own         *)
(* LoadedImage, set its load options, let go of LoadedImage and jump.      *)
(* The mapping and the protection are the modules of those names, step by  *)
(* step; this module is their order, and what start does around them.      *)
(***************************************************************************)
EXTENDS KernelImage, Cmdline

CONSTANTS
  DefaultNX,   \* whether the firmware hands out non-executable pages
  Cmdlines     \* the command lines policy::cmdline may have answered

ASSUME DefaultNXAssumption == DefaultNX \in BOOLEAN

VARIABLES
  status, kernel, base, mem, mapped,          \* Mapping
  cursor, step, ro, xp, reported, warned, stuck,  \* Protection
  phase,        \* where start stands
  unavailable,  \* whether the log says that there is no protection protocol
  cmdline,      \* its argument
  loadedImage,  \* the firmware's LoadedImage protocol of the stub's handle
  exclusive     \* whether the stub still has it open exclusively

M == INSTANCE Mapping
P == INSTANCE Protection

mappingVars   == <<status, kernel, base, mem, mapped>>
attributeVars == <<cursor, step, ro, xp, reported, warned, stuck>>
vars == <<mappingVars, attributeVars, unavailable,
          phase, cmdline, loadedImage, exclusive>>

Phase == {"map", "locate", "protect", "set_image", "options", "enter",
          "kernel", "returned", "failed"}

\* base 0 stands for the stub's own image, which is never at address 0 but
\* whose place does not matter.
StubImage == [base |-> 0, size |-> 0, options |-> Inherited]

-----------------------------------------------------------------------------
Init ==
  /\ M!MapInit
  /\ P!AttributesInit
  /\ phase = "map"
  /\ unavailable = FALSE
  /\ cmdline \in Cmdlines
  /\ loadedImage = StubImage
  /\ exclusive = TRUE

\* Dropping loaded_image closes the protocol; a plausible slip forgets it.
Forget == UNCHANGED exclusive

Drop == exclusive' = FALSE

\* Every `?` of start returns to the caller and drops the loaded_image it owns.
Fail == phase' = "failed" /\ Drop

Proceed(to) == phase' = to /\ UNCHANGED exclusive

\* A plausible slip: an error of map_sections is only logged.
AfterMappingIgnoresFailure(s) == Proceed(IF s = "mapping" THEN "map" ELSE "locate")

AfterMapping(s) ==
  CASE s = "mapping" -> Proceed("map")
    [] s = "mapped"  -> Proceed("locate")
    [] s = "failed"  -> Fail

Map ==
  /\ phase = "map"
  /\ M!MapNext
  /\ AfterMapping(status')
  /\ UNCHANGED <<attributeVars, unavailable, cmdline, loadedImage>>

\* The protocol is only looked for when the kernel declares NX_COMPAT, and
\* only then is its absence warned about.
Locate ==
  /\ phase = "locate"
  /\ \/ kernel.nx_compat /\ phase' = "protect" /\ UNCHANGED unavailable
     \/ phase' = "set_image" /\ unavailable' = kernel.nx_compat
  /\ UNCHANGED <<mappingVars, attributeVars, cmdline, loadedImage, exclusive>>

\* A plausible slip: a section is protected while others are still to be copied.
ProtectsEarly == phase \in {"map", "protect"}

Protects == phase = "protect"

Protect ==
  /\ Protects
  /\ \/ P!ProtectNext /\ UNCHANGED phase
     \/ /\ cursor = Len(kernel.sections)
        /\ phase' = "set_image"
        /\ UNCHANGED attributeVars
  /\ UNCHANGED <<mappingVars, unavailable, cmdline, loadedImage, exclusive>>

SetImage ==
  /\ phase = "set_image"
  /\ loadedImage' = [loadedImage EXCEPT !.base = base, !.size = kernel.size]
  /\ phase' = "options"
  /\ UNCHANGED <<mappingVars, attributeVars, unavailable, cmdline, exclusive>>

\* A blank command line encodes to a null pointer and is not set. Otherwise
\* the buffer may be too large for a u32 size, or there is no pool for it.
SetLoadOptions ==
  /\ phase = "options"
  /\ IF NothingToSet(cmdline)
     THEN Proceed("enter") /\ UNCHANGED loadedImage
     ELSE \/ /\ FitsOptions(cmdline)
             /\ loadedImage' = [loadedImage EXCEPT !.options = Encoded(cmdline)]
             /\ Proceed("enter")
          \/ Fail /\ UNCHANGED loadedImage
  /\ UNCHANGED <<mappingVars, attributeVars, unavailable, cmdline>>

EntryAddress == base + kernel.entry_point_rva

Enter ==
  /\ phase = "enter"
  /\ IF EntryAddress > AddrMax THEN Fail ELSE phase' = "kernel" /\ Drop
  /\ UNCHANGED <<mappingVars, attributeVars, unavailable, cmdline, loadedImage>>

\* External: a kernel that takes over never comes back; one that gives up
\* does, and start reports its status as an error.
KernelReturns ==
  /\ phase = "kernel"
  /\ phase' = "returned"
  /\ UNCHANGED <<mappingVars, attributeVars, unavailable, cmdline, loadedImage, exclusive>>

StartNext == Map \/ Locate \/ Protect \/ SetImage \/ SetLoadOptions \/ Enter

Next == StartNext \/ KernelReturns

\* The stub is the only thread, so what it can do it does; the kernel is not
\* obliged to return.
Spec == Init /\ [][Next]_vars /\ WF_vars(StartNext)

-----------------------------------------------------------------------------
(* Properties.                                                             *)

\* Every variable of start stays in its type, and its phase agrees with
\* where the mapping and the protection are.
TypeOK ==
  /\ M!MapTypeOK
  /\ phase \in Phase
  /\ cmdline \in Cmdlines
  /\ loadedImage.base \in {StubImage.base, base}
  /\ exclusive \in BOOLEAN
  /\ unavailable => kernel.nx_compat /\ phase \notin {"map", "locate", "protect"}
  /\ phase = "map" => status \in {"allocating", "mapping"} /\ cursor = 0
  /\ phase \notin {"map", "failed"} => status = "mapped"
  /\ phase \notin {"map", "failed", "protect"} => step = "none"

\* An exclusive open shuts everyone else out of LoadedImage: the stub no longer
\* holds it when the kernel is entered, nor after start has given up on any of
\* its paths (drop(loaded_image), mod.rs:70).
NobodyHoldsLoadedImage ==
  phase \in {"kernel", "returned", "failed"} => ~ exclusive

\* LoadedImage never describes half a kernel: it is the stub's own, or it is
\* that of a kernel all of whose sections are in memory, whichever of the
\* calls after set_image failed.
LoadedImageIsWhole ==
  \/ loadedImage = StubImage
  \/ /\ loadedImage.base = base
     /\ loadedImage.size = kernel.size
     /\ mapped = Len(kernel.sections)

\* The stub does not fault on its own protection: it writes to no byte of a
\* page that is read-only.
NoWriteToReadOnlyPage ==
  [][\A a \in Addr : mem'[a] # mem[a] => a \div PageSize \notin ro]_vars

\* The code sections whose bytes contain the entry point.
AroundEntry ==
  {i \in P!CodeSections :
     EntryAddress \in P!CodeBase(kernel.sections[i])
       .. P!CodeBase(kernel.sections[i]) + kernel.sections[i].virtual_size - 1}

\* A kernel that declares NX_COMPAT and has its entry point in its code never
\* faults at its first instruction unless the log said so: if the page of the
\* entry point is not executable, a warning said that there is no protocol,
\* or named every code section around it. (A kernel without NX_COMPAT is
\* neither protected nor warned about, mod.rs:38-45, and of one that enters
\* outside its code nothing is promised.)
CompatibleEntryFaultsOnlyAfterWarning ==
  (phase = "kernel" /\ kernel.nx_compat /\ EntryAddress \div PageSize \in xp) =>
    unavailable \/ AroundEntry \subseteq warned

\* The page tables at the kernel's entry are what the kernel asked for and
\* the log tells: those the firmware handed out if it does not declare
\* NX_COMPAT, or if the log said there is no protocol; else W^X where pages
\* came non-executable, every section logged as RO+X is, and no other section
\* left a trace unless a warning said that its rollback failed, each with the
\* exceptions that the log shows where code sections share pages.
AttributesMatchTheLog ==
  phase \in {"kernel", "returned"} =>
    /\ ~ kernel.nx_compat \/ unavailable => ro = {} /\ xp = P!InitialXP
    /\ P!WriteXorExecute
    /\ P!ReportedSectionsAreProtected
    /\ P!FailedSectionsAreRolledBack

\* start never turns away a kernel it could have started: its sections lie
\* inside SizeOfImage and inside the file and its entry point inside the
\* image, the firmware had pages, and there is no command line to set.
GivesUpForAReason ==
  phase = "failed" =>
    \/ base = 0
    \/ ~ NothingToSet(cmdline)
    \/ kernel.entry_point_rva >= kernel.size
    \/ \E i \in 1 .. Len(kernel.sections) :
         LET s == kernel.sections[i]
         IN  \/ s.virtual_address < kernel.base_address
             \/ s.virtual_address - kernel.base_address + s.virtual_size > kernel.size
             \/ /\ s.virtual_size > 0 /\ s.size_of_raw_data > 0
                /\ s.pointer_to_raw_data + CopySize(s) > kernel.data_len

\* What start still has to do, at most: a step for every section to map and
\* three for every one to protect, and those between and behind the loops.
CallsMade == CASE step = "none" -> 0 [] step = "read_only" -> 1 [] OTHER -> 2

Remaining ==
  LET sections == Len(kernel.sections)
  IN  CASE phase = "map" /\ status = "allocating" -> 4 * sections + 7
        [] phase = "map" /\ status # "allocating" -> 4 * sections + 6 - mapped
        [] phase = "locate"    -> 3 * sections + 5
        [] phase = "protect"   -> 3 * (sections - cursor) + 4 - CallsMade
        [] phase = "set_image" -> 3
        [] phase = "options"   -> 2
        [] phase = "enter"     -> 1
        [] OTHER               -> 0

\* Whatever the firmware answers, start works towards its decision: every step
\* leaves it less to do, and no call is made twice for a section.
StartAdvances == [][StartNext => Remaining' \in 0 .. Remaining - 1]_vars

\* What the kernel finds when it is entered is what the abstract handover
\* promises: its whole image by the section table, its entry point, its size
\* and its load options; and start always decides.
Handed ==
  INSTANCE Handover WITH
    outcome <- CASE phase = "kernel"   -> "kernel"
                 [] phase = "returned" -> "returned"
                 [] phase = "failed"   -> "refused"
                 [] OTHER              -> "preparing",
    handed  <- IF phase \in {"kernel", "returned"}
               THEN [ contents |-> [offset \in 0 .. loadedImage.size - 1 |->
                                      mem[loadedImage.base + offset]],
                      size     |-> loadedImage.size,
                      entry    |-> EntryAddress - loadedImage.base,
                      options  |-> loadedImage.options ]
               ELSE [contents |-> <<>>, size |-> 0, entry |-> 0, options |-> <<>>]

ImplementsHandover == Handed!Spec

\* "entry_addr is within the mapped kernel image" (mod.rs:73).
EntryWithinImage ==
  phase = "kernel" => EntryAddress \in base .. base + kernel.size - 1
=============================================================================
