------------------------------ MODULE LoadFile2 ------------------------------
(***************************************************************************)
(* src/loadfile2.rs: the initrd is published on a new handle by install,   *)
(* and load_file2_callback serves it to whoever calls the protocol.        *)
(*                                                                         *)
(* UEFI runs one thread, but firmware events (and the notification of a    *)
(* protocol's installation) can call back into the stub between any two    *)
(* steps of install: so install is one action per store or boot service,   *)
(* and a callback, which calls nothing, is one action. Once main returns   *)
(* an error the firmware unloads the stub; nothing takes the protocol      *)
(* back. A call into the unloaded stub has no defined effect and is not an *)
(* action.                                                                 *)
(***************************************************************************)
EXTENDS Integers, Sequences

CONSTANTS
  Consumers,   \* whoever calls the protocol: the kernel, firmware drivers
  Files,       \* the initrds the UKI may carry, as sequences of bytes
  NoFile,      \* a null FILE_PTR, a consumer without data
  NoSize       \* a null buffer_size

ASSUME FilesAssumption  == Files \subseteq Seq(Nat)
ASSUME NoFileIsNoSeq    == NoFile \notin Seq(Nat)
ASSUME NoSizeIsNoNumber == NoSize \notin Nat

VARIABLES
  file,        \* the data install was given
  installer,   \* where install stands
  ptr,         \* FILE_PTR: the file it points to
  len,         \* FILE_LEN
  path,        \* whether the handle carries the DevicePath protocol
  published,   \* whether it carries the LoadFile2 protocol
  resident,    \* whether the stub is still in memory
  consumer     \* each consumer's progress and its last call

vars == <<file, installer, ptr, len, path, published, resident, consumer>>

installVars == <<file, installer, ptr, len, path, published>>

Installer == {"start", "ptr_stored", "stored", "path_built", "path_installed",
              "installed", "failed"}

StatusCode == {"none", "SUCCESS", "UNSUPPORTED", "NOT_FOUND",
               "INVALID_PARAMETER", "BUFFER_TOO_SMALL"}

\* Bound: no consumer brings a buffer larger than twice the file and a byte.
Sizes == 0 .. 2 * Len(file) + 1

At == {"idle", "located", "sized", "served", "refused"}

\* Where a consumer stands; what it passed in its last call (brought is the
\* *buffer_size it set); what came back.
CallRecord ==
  [ at : At, boot_policy : BOOLEAN, buffer : BOOLEAN, brought : Nat \cup {NoSize},
    status : StatusCode, size : Nat \cup {NoSize}, data : {NoFile, file} ]

Idle == [ at |-> "idle", boot_policy |-> FALSE, buffer |-> FALSE, brought |-> 0,
          status |-> "none", size |-> 0, data |-> NoFile ]

-----------------------------------------------------------------------------
(* load_file2_callback: what it answers, what it leaves in *buffer_size    *)
(* and what it copies into the buffer.                                     *)

\* Whether the buffer will not do; plausible slips take any buffer to be large
\* enough, or only a larger one.
TooSmallUnchecked(size, buffer) == ~ buffer

TooSmallWantsMore(size, buffer) == ~ buffer \/ size <= len

TooSmall(size, buffer) == ~ buffer \/ size < len

Status(boot_policy, size, buffer) ==
  IF boot_policy THEN "UNSUPPORTED"
  ELSE IF ptr = NoFile \/ len = 0 THEN "NOT_FOUND"
  ELSE IF size = NoSize THEN "INVALID_PARAMETER"
  ELSE IF TooSmall(size, buffer) THEN "BUFFER_TOO_SMALL"
  ELSE "SUCCESS"

SizeAfter(status, size) ==
  IF status \in {"BUFFER_TOO_SMALL", "SUCCESS"} THEN len ELSE size

\* A plausible slip: the copy is one byte short.
CopiedShort(status) == IF status = "SUCCESS" THEN SubSeq(ptr, 1, len - 1) ELSE NoFile

Copied(status) == IF status = "SUCCESS" THEN SubSeq(ptr, 1, len) ELSE NoFile

\* What a call leaves with a consumer, which then stands at the given place.
Answer(at, boot_policy, size, buffer) ==
  LET status == Status(boot_policy, size, buffer)
  IN  [ at |-> at, boot_policy |-> boot_policy, buffer |-> buffer,
        brought |-> size, status |-> status,
        size |-> SizeAfter(status, size), data |-> Copied(status) ]

Callable == published /\ resident

-----------------------------------------------------------------------------
Init ==
  /\ file \in Files
  /\ installer = "start"
  /\ ptr = NoFile
  /\ len = 0
  /\ path = FALSE
  /\ published = FALSE
  /\ resident = TRUE
  /\ consumer = [c \in Consumers |-> Idle]

StorePointer ==
  /\ installer = "start"
  /\ ptr' = file
  /\ installer' = "ptr_stored"
  /\ UNCHANGED <<file, len, path, published, resident, consumer>>

StoreLength ==
  /\ installer = "ptr_stored"
  /\ len' = Len(file)
  /\ installer' = "stored"
  /\ UNCHANGED <<file, ptr, path, published, resident, consumer>>

\* The pool for the device path may be exhausted.
BuildDevicePath ==
  /\ installer = "stored"
  /\ installer' \in {"path_built", "failed"}
  /\ UNCHANGED <<file, ptr, len, path, published, resident, consumer>>

\* The new handle gets DevicePath; a plausible slip gives it LoadFile2 first.
LoadFile2First == published' = TRUE /\ UNCHANGED path

DevicePathFirst == path' = TRUE /\ UNCHANGED published

InstallDevicePath ==
  /\ installer = "path_built"
  /\ \/ installer' = "path_installed" /\ DevicePathFirst
     \/ installer' = "failed" /\ UNCHANGED <<path, published>>
  /\ UNCHANGED <<file, ptr, len, resident, consumer>>

\* LoadFile2 comes last; a plausible slip publishes it on a handle of its own.
ReadyToPublishEarly == installer \in {"ptr_stored", "path_installed"}

ReadyToPublish == installer = "path_installed"

\* A failure leaves the handle behind with its DevicePath only.
InstallLoadFile2 ==
  /\ ReadyToPublish
  /\ \/ installer' = "installed" /\ published' = TRUE
     \/ installer' = "failed" /\ UNCHANGED published
  /\ UNCHANGED <<file, ptr, len, path, resident, consumer>>

\* main returns its error, now or after any of its later steps failed: the
\* firmware unloads the stub.
Unload ==
  /\ installer \in {"installed", "failed"}
  /\ resident
  /\ resident' = FALSE
  /\ UNCHANGED <<installVars, consumer>>

\* External: consumers look for a handle with both protocols (the doc of
\* install says so), ask for the size and come back with a buffer for it.
Locate(c) ==
  /\ consumer[c].at = "idle"
  /\ path /\ published
  /\ consumer' = [consumer EXCEPT ![c].at = "located"]
  /\ UNCHANGED <<installVars, resident>>

Query(c) ==
  /\ consumer[c].at = "located"
  /\ Callable
  /\ LET next == IF Status(FALSE, 0, FALSE) = "BUFFER_TOO_SMALL" THEN "sized" ELSE "refused"
     IN  consumer' = [consumer EXCEPT ![c] = Answer(next, FALSE, 0, FALSE)]
  /\ UNCHANGED <<installVars, resident>>

Fetch(c) ==
  /\ consumer[c].at = "sized"
  /\ Callable
  /\ LET size   == consumer[c].size
         status == Status(FALSE, size, TRUE)
         next   == CASE status = "SUCCESS"          -> "served"
                     [] status = "BUFFER_TOO_SMALL" -> "sized"
                     [] OTHER                       -> "refused"
     IN  consumer' = [consumer EXCEPT ![c] = Answer(next, FALSE, size, TRUE)]
  /\ UNCHANGED <<installVars, resident>>

\* Any other call a consumer may make.
Probe(c) ==
  /\ consumer[c].at = "located"
  /\ Callable
  /\ \E boot_policy, buffer \in BOOLEAN, size \in Sizes \cup {NoSize} :
       consumer' = [consumer EXCEPT ![c] = Answer("located", boot_policy, size, buffer)]
  /\ UNCHANGED <<installVars, resident>>

InstallNext == StorePointer \/ StoreLength \/ BuildDevicePath
               \/ InstallDevicePath \/ InstallLoadFile2

Load(c) == Query(c) \/ Fetch(c)

Next ==
  \/ InstallNext
  \/ Unload
  \/ \E c \in Consumers : Locate(c) \/ Load(c) \/ Probe(c)

Spec == Init /\ [][Next]_vars

\* A consumer that has located the protocol goes on with it, and so does
\* install. Neither the locating nor the unloading need ever happen.
FairSpec ==
  Spec /\ WF_vars(InstallNext) /\ \A c \in Consumers : WF_vars(Load(c))

-----------------------------------------------------------------------------
(* Properties.                                                             *)

\* Every variable stays in its type.
TypeOK ==
  /\ file \in Files
  /\ installer \in Installer
  /\ ptr \in {NoFile, file}
  /\ len \in {0, Len(file)}
  /\ path \in BOOLEAN
  /\ published \in BOOLEAN
  /\ resident \in BOOLEAN
  /\ consumer \in [Consumers -> CallRecord]

\* Whenever a callback can arrive, both statics describe the whole file and
\* the handle can be found by its device path: the order of install's stores
\* and installations leaves no window.
PublishedIsReady == published => ptr = file /\ len = Len(file) /\ path

\* What main decides by: when install returns Ok the initrd is on offer, and
\* when it fails, behind whichever of its two installations, nobody has ever
\* called back into the stub that main then gives up, nor can anybody
\* (loadfile2.rs:126, :132).
InstallIsAllOrNothing ==
  /\ installer = "installed" => published
  /\ installer = "failed" =>
       ~ published /\ \A c \in Consumers : consumer[c] = Idle

\* The LoadFile2 contract as the callback's comment puts it: data is only
\* copied into a buffer that can hold it, then it is the whole file; a buffer
\* that is too small is answered with the size that will do; and no other
\* answer touches what the caller passed.
KeepsContract(call) ==
  /\ call.status = "SUCCESS" =>
       /\ call.buffer /\ ~ call.boot_policy
       /\ call.brought # NoSize /\ call.brought >= Len(file)
       /\ call.data = file
  /\ call.status = "BUFFER_TOO_SMALL" =>
       /\ call.size = Len(file)
       /\ ~ call.buffer \/ call.brought < Len(file)
       /\ call.data = NoFile
  /\ call.status \notin {"SUCCESS", "BUFFER_TOO_SMALL"} =>
       call.size = call.brought /\ call.data = NoFile

ReplyContract == \A c \in Consumers : KeepsContract(consumer[c])

\* A consumer that found the protocol of a non-empty file gets the file,
\* with the size it was told, unless the stub is unloaded before that.
LocatedIsServed ==
  \A c \in Consumers :
    (consumer[c].at = "located" /\ file # <<>>)
      ~> (consumer[c].at = "served" \/ ~ resident)

\* The two-call protocol takes two calls: a consumer that asks for the size of
\* a non-empty file is told, and the buffer it then brings is never too small,
\* nor is it asked again for one.
TwoCallsSuffice ==
  [][\A c \in Consumers :
       /\ Query(c) /\ file # <<>> => consumer'[c].at = "sized" /\ consumer'[c].size = Len(file)
       /\ Fetch(c) => consumer'[c].at = "served"]_vars

\* Abstractly, one file is offered, and whoever receives data receives it.
Service ==
  INSTANCE FileService WITH
    offered  <- IF published THEN file ELSE NoFile,
    received <- [c \in Consumers |-> consumer[c].data]

ImplementsFileService == Service!ServiceSpec
=============================================================================
