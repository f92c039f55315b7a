--------------------------------- MODULE Vars ---------------------------------
(***************************************************************************)
(* src/vars: the Boot Loader Interface variables exported before the       *)
(* kernel is started, each unless it is already set. Values are tokens:    *)
(* what the firmware and the boot disk say of themselves.                  *)
(*                                                                         *)
(* The variable services are external. A variable set without any access   *)
(* attribute is not stored: an existing one is deleted, and for a missing  *)
(* one the call fails.                                                     *)
(***************************************************************************)
EXTENDS Integers, SequencesExt

CONSTANTS
  Paths,    \* device paths of boot devices, as sequences of nodes
  Guids,    \* partition GUIDs
  Absent,   \* no such variable, or no such value
  Other,    \* a value some other boot loader has set
  MayFail   \* whether the variable services may fail for reasons of their own

\* A node of a device path: a GPT partition by its GUID, an MBR partition, or
\* a node that is no hard drive at all.
Node == [kind : {"gpt"}, guid : Guids] \cup [kind : {"mbr", "other"}, guid : {Absent}]

ASSUME PathsAssumption   == Paths \subseteq Seq(Node)
ASSUME MayFailAssumption == MayFail \in BOOLEAN

VARIABLES
  device,    \* the device path of the loaded image; Absent without a device
  nvram,     \* the firmware's variables
  initial,   \* what they were when the stub was started
  stage,     \* which part of export is running
  todo,      \* the exports it has left, in order
  probed,    \* whether variable_exists was asked about the first of them
  misled     \* the variables for which it failed

vars == <<device, nvram, initial, stage, todo, probed, misled>>

Names == {"LoaderFirmwareInfo", "LoaderFirmwareType", "LoaderDevicePartUUID"}

Firmware == "firmware"   \* what the firmware says of itself

\* partition_guid: the first hard-drive node with a GUID signature.
PartitionGuid(p) ==
  LET i == SelectInSeq(p, LAMBDA node : node.kind = "gpt")
  IN  IF i = 0 THEN Absent ELSE p[i].guid

FirmwareExports == << [name |-> "LoaderFirmwareInfo", value |-> Firmware],
                      [name |-> "LoaderFirmwareType", value |-> Firmware] >>

\* A plausible slip: a path without a GPT partition is not left out.
DiskExportsUnchecked ==
  IF device = Absent THEN <<>>
  ELSE << [name |-> "LoaderDevicePartUUID", value |-> PartitionGuid(device)] >>

\* No device, a device path that cannot be opened and a path without a GPT
\* partition all leave the variable out.
DiskExports ==
  IF device = Absent THEN <<>>
  ELSE IF PartitionGuid(device) = Absent THEN <<>>
  ELSE << [name |-> "LoaderDevicePartUUID", value |-> PartitionGuid(device)] >>

\* VariableAttributes::empty()
Attributes == {}

-----------------------------------------------------------------------------
Init ==
  /\ device \in Paths \cup {Absent}
  /\ initial \in [Names -> {Absent, Other}]
  /\ nvram = initial
  /\ stage = "firmware"
  /\ todo = FirmwareExports
  /\ probed = FALSE
  /\ misled = {}

\* What variable_exists answers; a plausible slip inverts it.
ExistsInverted == nvram[Head(todo).name] = Absent

Exists == nvram[Head(todo).name] # Absent

\* Ok(true) keeps the value; Ok(false) and an error both go on to set it.
Probe ==
  /\ todo # <<>>
  /\ ~ probed
  /\ \/ /\ Exists
        /\ todo' = Tail(todo)
        /\ UNCHANGED <<probed, misled>>
     \/ /\ ~ Exists
        /\ probed' = TRUE
        /\ UNCHANGED <<todo, misled>>
     \/ /\ MayFail
        /\ probed' = TRUE
        /\ misled' = misled \cup {Head(todo).name}
        /\ UNCHANGED todo
  /\ UNCHANGED <<device, nvram, initial, stage>>

\* External: the firmware may refuse; without an access attribute it deletes.
Set ==
  /\ probed
  /\ \/ nvram' = [nvram EXCEPT ![Head(todo).name] =
                    IF Attributes = {} THEN Absent ELSE Head(todo).value]
     \/ MayFail /\ UNCHANGED nvram
  /\ todo' = Tail(todo)
  /\ probed' = FALSE
  /\ UNCHANGED <<device, initial, stage, misled>>

\* After the firmware's variables the disk's: opening the device path may fail.
GoOn ==
  /\ todo = <<>>
  /\ \/ stage = "firmware" /\ stage' = "disk" /\ todo' \in {DiskExports, <<>>}
     \/ stage = "disk" /\ stage' = "done" /\ UNCHANGED todo
  /\ UNCHANGED <<device, nvram, initial, probed, misled>>

Next == Probe \/ Set \/ GoOn

Spec == Init /\ [][Next]_vars

-----------------------------------------------------------------------------
(* Properties.                                                             *)

\* Every variable stays in its type.
TypeOK ==
  /\ device \in Paths \cup {Absent}
  /\ nvram \in [Names -> Guids \cup {Absent, Other, Firmware}]
  /\ stage \in {"firmware", "disk", "done"}
  /\ todo \in Seq([name : Names, value : Guids \cup {Firmware}])
  /\ probed \in BOOLEAN /\ (probed => todo # <<>>)
  /\ misled \subseteq Names

\* "already set, keeping existing value" (vars/mod.rs:26): what another boot
\* loader has set is never replaced by the stub's own, whatever fails; it is
\* only lost where the firmware could not say whether it was there.
ExistingValuesSurvive ==
  \A name \in Names : initial[name] # Absent =>
    \/ nvram[name] = initial[name]
    \/ name \in misled /\ nvram[name] = Absent

\* "Exports all Boot Loader Interface variables for the current boot"
\* (vars/mod.rs:17): afterwards at least the firmware's two are set,
\* where the variable services work.
FirmwareIsExported ==
  stage = "done" =>
    \A name \in {"LoaderFirmwareInfo", "LoaderFirmwareType"} : nvram[name] # Absent
=============================================================================
