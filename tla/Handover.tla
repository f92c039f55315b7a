------------------------------- MODULE Handover -------------------------------
(***************************************************************************)
(* What the loader promises, without saying how: in one step it either     *)
(* hands the kernel over, complete, or refuses; a kernel that returns is   *)
(* reported to the firmware. Loader.tla implements it.                     *)
(***************************************************************************)
EXTENDS KernelImage, Cmdline

VARIABLES
  kernel, cmdline,   \* what is to be started
  outcome,           \* what has happened
  handed             \* what the kernel finds when it is entered

handoverVars == <<kernel, cmdline, outcome, handed>>

NotHanded == [contents |-> <<>>, size |-> 0, entry |-> 0, options |-> <<>>]

\* The loaded image by offset: at each the byte of the last section that
\* covers it, zero beyond the section's raw data.
Contents(k) ==
  [ offset \in 0 .. k.size - 1 |->
      LET over == {i \in 1 .. Len(k.sections) :
                     offset \in DestOffset(k, k.sections[i]) ..
                       DestOffset(k, k.sections[i]) + k.sections[i].virtual_size - 1}
          s    == k.sections[Max(over)]
          into == offset - DestOffset(k, s)
      IN  IF over = {} THEN Untouched
          ELSE IF into < s.size_of_raw_data THEN s.pointer_to_raw_data + into
          ELSE Zero ]

\* With nothing to set the stub's own load options stay.
Options(line) ==
  IF NothingToSet(line) THEN Inherited ELSE Ucs2(Strip(line))

\* The size of load options that are set is told in MaxOptionsSize at most.
Tellable(line) == NothingToSet(line) \/ Len(Options(line)) <= MaxOptionsSize

HandedOver(k, line) ==
  [ contents |-> Contents(k), size |-> k.size,
    entry |-> k.entry_point_rva, options |-> Options(line) ]

Init ==
  /\ kernel \in Kernels
  /\ outcome = "preparing"
  /\ handed = NotHanded

HandOver ==
  /\ outcome = "preparing"
  /\ \A i \in 1 .. Len(kernel.sections) : Mappable(kernel, kernel.sections[i])
  /\ Tellable(cmdline)
  /\ outcome' = "kernel"
  /\ handed' = HandedOver(kernel, cmdline)
  /\ UNCHANGED <<kernel, cmdline>>

Refuse ==
  /\ outcome = "preparing"
  /\ outcome' = "refused"
  /\ UNCHANGED <<kernel, cmdline, handed>>

Return ==
  /\ outcome = "kernel"
  /\ outcome' = "returned"
  /\ UNCHANGED <<kernel, cmdline, handed>>

Next == HandOver \/ Refuse \/ Return

\* It decides: the firmware never waits for ever. Whether the kernel returns
\* is the kernel's business.
Spec == Init /\ [][Next]_handoverVars /\ WF_handoverVars(HandOver \/ Refuse)
=============================================================================
