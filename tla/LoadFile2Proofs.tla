---------------------------- MODULE LoadFile2Proofs ----------------------------
(***************************************************************************)
(* The initrd service, for any number of consumers and any files: no       *)
(* callback ever finds the statics half written, and every answer keeps    *)
(* the LoadFile2 contract.                                                 *)
(***************************************************************************)
EXTENDS LoadFile2, SequenceTheorems, TLAPS

\* What each step of install has behind it. Publication is the last step:
\* that is why PublishedIsReady holds, and why it is not inductive by itself.
InstallOrder ==
  /\ installer # "start" => ptr = file
  /\ installer \notin {"start", "ptr_stored"} => len = Len(file)
  /\ installer \in {"path_installed", "installed"} => path
  /\ published <=> installer = "installed"

LoadFile2Inv == TypeOK /\ InstallOrder /\ ReplyContract

-----------------------------------------------------------------------------
LEMMA FileIsSequence ==
  ASSUME TypeOK
  PROVE  /\ file \in Seq(Nat) /\ Len(file) \in Nat
         /\ SubSeq(file, 1, Len(file)) = file
         /\ file # NoFile
  <1>1. file \in Seq(Nat)
    BY FilesAssumption DEF TypeOK
  <1>2. SubSeq(file, 1, Len(file)) = file
    BY <1>1, SubSeqFull
  <1> QED
    BY <1>1, <1>2, NoFileIsNoSeq

LEMMA OrderMakesReady == InstallOrder => PublishedIsReady
  BY DEF InstallOrder, PublishedIsReady

LEMMA InitEstablishesInv == Init => LoadFile2Inv
  <1> SUFFICES ASSUME Init PROVE LoadFile2Inv
    OBVIOUS
  <1>1. Idle \in CallRecord
    BY DEF Idle, StatusCode, CallRecord, At
  <1>2. TypeOK
    BY <1>1 DEF Init, TypeOK, Installer
  <1>3. InstallOrder
    BY DEF Init, InstallOrder
  <1>4. ReplyContract
    <2>1. \A c \in Consumers : consumer[c] = Idle
      BY DEF Init
    <2>2. /\ Idle.status = "none" /\ Idle.size = Idle.brought /\ Idle.data = NoFile
      BY DEF Idle
    <2> QED
      BY <2>1, <2>2 DEF ReplyContract, KeepsContract
  <1> QED
    BY <1>2, <1>3, <1>4 DEF LoadFile2Inv

\* The steps of install and the unloading leave every consumer alone.
LEMMA InstallKeepsInv ==
  ASSUME LoadFile2Inv, InstallNext \/ Unload \/ UNCHANGED vars
  PROVE  LoadFile2Inv'
  <1>1. consumer' = consumer /\ file' = file
    BY DEF InstallNext, StorePointer, StoreLength, BuildDevicePath,
       InstallDevicePath, DevicePathFirst, InstallLoadFile2, ReadyToPublish, Unload, installVars, vars
  <1>2. ReplyContract'
    BY <1>1 DEF LoadFile2Inv, ReplyContract, KeepsContract
  <1>3. TypeOK' /\ InstallOrder'
    <2>1. CASE StorePointer
      BY <2>1 DEF StorePointer, LoadFile2Inv, TypeOK, InstallOrder, Installer, CallRecord
    <2>2. CASE StoreLength
      <3>1. TypeOK'
        BY <2>2, FileIsSequence DEF StoreLength, LoadFile2Inv, TypeOK, Installer, CallRecord
      <3>2. InstallOrder'
        BY <2>2 DEF StoreLength, LoadFile2Inv, InstallOrder
      <3> QED
        BY <3>1, <3>2
    <2>3. CASE BuildDevicePath
      <3>1. TypeOK'
        BY <2>3 DEF BuildDevicePath, LoadFile2Inv, TypeOK, Installer, CallRecord
      <3>2. InstallOrder'
        BY <2>3 DEF BuildDevicePath, LoadFile2Inv, InstallOrder
      <3> QED
        BY <3>1, <3>2
    <2>4. CASE InstallDevicePath
      <3>1. TypeOK'
        BY <2>4 DEF InstallDevicePath, DevicePathFirst, LoadFile2Inv, TypeOK, Installer, CallRecord
      <3>2. InstallOrder'
        BY <2>4 DEF InstallDevicePath, DevicePathFirst, LoadFile2Inv, InstallOrder
      <3> QED
        BY <3>1, <3>2
    <2>5. CASE InstallLoadFile2
      <3>1. TypeOK'
        BY <2>5 DEF InstallLoadFile2, ReadyToPublish, LoadFile2Inv, TypeOK, Installer, CallRecord
      <3>2. InstallOrder'
        BY <2>5 DEF InstallLoadFile2, ReadyToPublish, LoadFile2Inv, InstallOrder
      <3> QED
        BY <3>1, <3>2
    <2>6. CASE Unload
      BY <2>6 DEF Unload, installVars, LoadFile2Inv, TypeOK, InstallOrder, Installer, CallRecord
    <2>7. CASE UNCHANGED vars
      BY <2>7 DEF vars, LoadFile2Inv, TypeOK, InstallOrder, Installer, CallRecord
    <2> QED
      BY <2>1, <2>2, <2>3, <2>4, <2>5, <2>6, <2>7 DEF InstallNext
  <1> QED
    BY <1>2, <1>3 DEF LoadFile2Inv

\* The contract of a single call, whatever its arguments.
LEMMA AnswerKeepsContract ==
  ASSUME LoadFile2Inv, published, NEW at \in At,
         NEW boot_policy \in BOOLEAN, NEW buffer \in BOOLEAN,
         NEW size \in Nat \cup {NoSize}
  PROVE  /\ Answer(at, boot_policy, size, buffer) \in CallRecord
         /\ KeepsContract(Answer(at, boot_policy, size, buffer))
  <1> DEFINE status == Status(boot_policy, size, buffer)
             call == Answer(at, boot_policy, size, buffer)
  <1>1. ptr = file /\ len = Len(file) /\ Len(file) \in Nat
    BY FileIsSequence DEF LoadFile2Inv, InstallOrder
  <1>2. Copied("SUCCESS") = file
    BY <1>1, FileIsSequence DEF LoadFile2Inv, Copied
  <1>3. /\ call.boot_policy = boot_policy /\ call.buffer = buffer
        /\ call.brought = size /\ call.status = status
        /\ call.size = SizeAfter(status, size) /\ call.data = Copied(status)
    BY DEF Answer
  <1>4. status \in StatusCode
    BY DEF Status, StatusCode
  <1>5. /\ SizeAfter(status, size) \in Nat \cup {NoSize}
        /\ Copied(status) \in {NoFile, file}
    BY <1>1, <1>2 DEF SizeAfter, Copied
  <1>6. call \in CallRecord
    BY <1>4, <1>5 DEF Answer, CallRecord
  <1>7. status = "SUCCESS" =>
          buffer /\ ~ boot_policy /\ size # NoSize /\ size >= Len(file)
    BY <1>1 DEF Status, TooSmall
  <1>8. status = "BUFFER_TOO_SMALL" => ~ buffer \/ size < Len(file)
    BY <1>1 DEF Status, TooSmall
  <1>9. /\ status \in {"SUCCESS", "BUFFER_TOO_SMALL"} => SizeAfter(status, size) = Len(file)
        /\ status \notin {"SUCCESS", "BUFFER_TOO_SMALL"} => SizeAfter(status, size) = size
        /\ status = "SUCCESS" => Copied(status) = file
        /\ status # "SUCCESS" => Copied(status) = NoFile
    BY <1>1, <1>2 DEF SizeAfter, Copied
  <1> HIDE DEF call, status
  <1>10. KeepsContract(call)
    BY <1>3, <1>7, <1>8, <1>9 DEF KeepsContract
  <1> QED
    BY <1>6, <1>10 DEF call

\* Every call of a consumer is such an answer.
LEMMA CallsAreAnswers ==
  ASSUME LoadFile2Inv, NEW c \in Consumers, Load(c) \/ Probe(c)
  PROVE  /\ published
         /\ UNCHANGED <<installVars, resident>>
         /\ \E at \in At, boot_policy, buffer \in BOOLEAN, size \in Nat \cup {NoSize} :
              consumer' = [consumer EXCEPT ![c] = Answer(at, boot_policy, size, buffer)]
  <1>1. CASE Query(c)
    BY <1>1 DEF Query, Callable, At
  <1>2. CASE Fetch(c)
    <2>1. consumer[c].size \in Nat \cup {NoSize}
      BY DEF LoadFile2Inv, TypeOK, CallRecord
    <2>2. PICK at \in {"sized", "served", "refused"} :
            consumer' = [consumer EXCEPT ![c] = Answer(at, FALSE, consumer[c].size, TRUE)]
      BY <1>2 DEF Fetch, Callable
    <2> QED
      BY <1>2, <2>1, <2>2 DEF Fetch, Callable, At
  <1>3. CASE Probe(c)
    <2>1. Sizes \subseteq Nat
      BY FileIsSequence DEF LoadFile2Inv, Sizes
    <2>2. PICK boot_policy \in BOOLEAN, buffer \in BOOLEAN, size \in Sizes \cup {NoSize} :
            /\ published
            /\ consumer' = [consumer EXCEPT ![c] = Answer("located", boot_policy, size, buffer)]
      BY <1>3 DEF Probe, Callable
    <2> QED
      BY <1>3, <2>1, <2>2 DEF Probe, At
  <1> QED
    BY <1>1, <1>2, <1>3 DEF Load

\* So every call keeps the invariant.
LEMMA CallKeepsInv ==
  ASSUME LoadFile2Inv, NEW c \in Consumers, Load(c) \/ Probe(c)
  PROVE  LoadFile2Inv'
  <1>1. /\ published
        /\ UNCHANGED <<file, installer, ptr, len, path, published, resident>>
    BY CallsAreAnswers DEF installVars
  <1>2. PICK at \in At, boot_policy \in BOOLEAN, buffer \in BOOLEAN, size \in Nat \cup {NoSize} :
          consumer' = [consumer EXCEPT ![c] = Answer(at, boot_policy, size, buffer)]
    BY CallsAreAnswers
  <1> DEFINE call == Answer(at, boot_policy, size, buffer)
  <1>3. call \in CallRecord /\ KeepsContract(call)
    BY <1>1, AnswerKeepsContract
  <1>4. CallRecord' = CallRecord /\ \A r : KeepsContract(r)' = KeepsContract(r)
    BY <1>1 DEF CallRecord, KeepsContract
  <1> HIDE DEF call
  <1>5. TypeOK' /\ InstallOrder'
    BY <1>1, <1>2, <1>3, <1>4 DEF call, LoadFile2Inv, TypeOK, InstallOrder
  <1>6. ReplyContract'
    <2> SUFFICES ASSUME NEW d \in Consumers PROVE KeepsContract(consumer[d])'
      BY DEF ReplyContract
    <2>1. KeepsContract(consumer'[d])
      BY <1>2, <1>3 DEF call, LoadFile2Inv, TypeOK, ReplyContract
    <2> QED
      BY <1>1, <2>1 DEF KeepsContract
  <1> QED
    BY <1>5, <1>6 DEF LoadFile2Inv

\* Locating the protocol changes what a consumer does next, not its last call.
LEMMA LocateKeepsInv ==
  ASSUME LoadFile2Inv, NEW c \in Consumers, Locate(c)
  PROVE  LoadFile2Inv'
  <1>1. /\ UNCHANGED <<file, installer, ptr, len, path, published, resident>>
        /\ consumer' = [consumer EXCEPT ![c].at = "located"]
    BY DEF Locate, installVars
  <1>2. TypeOK' /\ InstallOrder'
    BY <1>1 DEF LoadFile2Inv, TypeOK, InstallOrder, CallRecord, At
  <1>3. \A d \in Consumers :
          /\ consumer'[d].status = consumer[d].status
          /\ consumer'[d].buffer = consumer[d].buffer
          /\ consumer'[d].boot_policy = consumer[d].boot_policy
          /\ consumer'[d].brought = consumer[d].brought
          /\ consumer'[d].size = consumer[d].size
          /\ consumer'[d].data = consumer[d].data
    BY <1>1 DEF LoadFile2Inv, TypeOK, CallRecord
  <1>4. ReplyContract'
    BY <1>1, <1>3 DEF LoadFile2Inv, ReplyContract, KeepsContract
  <1> QED
    BY <1>2, <1>4 DEF LoadFile2Inv

LEMMA StepKeepsInv == LoadFile2Inv /\ [Next]_vars => LoadFile2Inv'
  <1> SUFFICES ASSUME LoadFile2Inv, [Next]_vars PROVE LoadFile2Inv'
    OBVIOUS
  <1>1. CASE InstallNext \/ Unload \/ UNCHANGED vars
    BY <1>1, InstallKeepsInv
  <1>2. CASE \E c \in Consumers : Locate(c) \/ Load(c) \/ Probe(c)
    BY <1>2, LocateKeepsInv, CallKeepsInv
  <1> QED
    BY <1>1, <1>2 DEF Next

LEMMA LoadFile2Invariant == Spec => []LoadFile2Inv
  BY InitEstablishesInv, StepKeepsInv, PTL DEF Spec

-----------------------------------------------------------------------------
\* Type correctness of the initrd service.
THEOREM LoadFile2TypeCorrect == Spec => []TypeOK
  <1>1. LoadFile2Inv => TypeOK
    BY DEF LoadFile2Inv
  <1> QED
    BY <1>1, LoadFile2Invariant, PTL

\* A callback, at whatever point of install it arrives, finds the whole file.
THEOREM NoHalfWrittenStatics == Spec => []PublishedIsReady
  <1>1. LoadFile2Inv => PublishedIsReady
    BY OrderMakesReady DEF LoadFile2Inv
  <1> QED
    BY <1>1, LoadFile2Invariant, PTL

\* What main relies on: when install returns Ok the initrd is published, when it
\* fails nobody will ever call back into a stub that main then gives up.
THEOREM InstallPublishesOrFails == Spec => []InstallIsAllOrNothing
  <1> DEFINE Untouched == ~ published => \A c \in Consumers : consumer[c] = Idle
  <1>1. Init => Untouched
    BY DEF Init
  <1>2. LoadFile2Inv /\ Untouched /\ [Next]_vars => Untouched'
    <2> SUFFICES ASSUME LoadFile2Inv, Untouched, [Next]_vars, ~ published'
                 PROVE  \A c \in Consumers : consumer'[c] = Idle
      BY DEF Idle
    <2>1. ASSUME NEW c \in Consumers, Locate(c) \/ Load(c) \/ Probe(c)
          PROVE  FALSE
      <3>1. published
        BY <2>1, CallsAreAnswers DEF Locate
      <3>2. published' = published
        BY <2>1, CallsAreAnswers DEF Locate, installVars
      <3> QED
        BY <3>1, <3>2
    <2>2. consumer' = consumer /\ ~ published
      BY <2>1 DEF Next, InstallNext, StorePointer, StoreLength, BuildDevicePath,
         InstallDevicePath, DevicePathFirst, InstallLoadFile2, ReadyToPublish, Unload, installVars, vars,
         LoadFile2Inv, InstallOrder
    <2> QED
      BY <2>2
  <1>3. LoadFile2Inv /\ Untouched => InstallIsAllOrNothing
    BY DEF LoadFile2Inv, InstallOrder, InstallIsAllOrNothing
  <1> QED
    BY <1>1, <1>2, <1>3, LoadFile2Invariant, PTL DEF Spec

\* Every call of every consumer, whatever its arguments, is answered by the
\* LoadFile2 contract.
THEOREM CallsKeepContract == Spec => []ReplyContract
  <1>1. LoadFile2Inv => ReplyContract
    BY DEF LoadFile2Inv
  <1> QED
    BY <1>1, LoadFile2Invariant, PTL

-----------------------------------------------------------------------------
(* The two-call protocol.                                                  *)

\* A consumer about to fetch has been told the length of a file that is there:
\* what the size it keeps between its two calls is worth.
SizedKnowsLength ==
  \A c \in Consumers :
    consumer[c].at = "sized" => consumer[c].size = Len(file) /\ file # <<>>

\* What the callback answers once it can arrive, to the two calls of a loader.
LEMMA AnswersOnceReady ==
  ASSUME LoadFile2Inv, published
  PROVE  /\ Status(FALSE, 0, FALSE)
              = IF file = <<>> THEN "NOT_FOUND" ELSE "BUFFER_TOO_SMALL"
         /\ file # <<>> => Status(FALSE, Len(file), TRUE) = "SUCCESS"
  <1>1. /\ ptr = file /\ len = Len(file) /\ Len(file) \in Nat /\ ptr # NoFile
        /\ file \in Seq(Nat)
    BY FileIsSequence DEF LoadFile2Inv, InstallOrder
  <1>2. file = <<>> <=> Len(file) = 0
    BY <1>1, EmptySeq
  <1> QED
    BY <1>1, <1>2, NoSizeIsNoNumber DEF Status, TooSmall

LEMMA QueryTellsTheLength ==
  ASSUME LoadFile2Inv, NEW c \in Consumers, Query(c)
  PROVE  /\ file # <<>> => consumer'[c].at = "sized"
         /\ consumer'[c].at = "sized" => consumer'[c].size = Len(file) /\ file # <<>>
  <1> DEFINE status == Status(FALSE, 0, FALSE)
             next   == IF status = "BUFFER_TOO_SMALL" THEN "sized" ELSE "refused"
  <1>1. /\ published
        /\ consumer' = [consumer EXCEPT ![c] = Answer(next, FALSE, 0, FALSE)]
    BY DEF Query, Callable
  <1>2. consumer'[c] = Answer(next, FALSE, 0, FALSE)
    BY <1>1 DEF LoadFile2Inv, TypeOK
  <1>3. consumer'[c].at = next /\ consumer'[c].size = SizeAfter(status, 0)
    BY <1>2 DEF Answer
  <1>4. status = IF file = <<>> THEN "NOT_FOUND" ELSE "BUFFER_TOO_SMALL"
    BY <1>1, AnswersOnceReady
  <1>5. len = Len(file)
    BY <1>1 DEF LoadFile2Inv, InstallOrder
  <1> HIDE DEF status
  <1> QED
    BY <1>3, <1>4, <1>5 DEF SizeAfter

LEMMA FetchIsServed ==
  ASSUME LoadFile2Inv, SizedKnowsLength, NEW c \in Consumers, Fetch(c)
  PROVE  consumer'[c].at = "served"
  <1>1. published /\ consumer[c].size = Len(file) /\ file # <<>>
    BY DEF Fetch, Callable, SizedKnowsLength
  <1>2. Status(FALSE, consumer[c].size, TRUE) = "SUCCESS"
    BY <1>1, AnswersOnceReady
  <1>3. consumer' = [consumer EXCEPT
                       ![c] = Answer("served", FALSE, consumer[c].size, TRUE)]
    BY <1>2 DEF Fetch
  <1> QED
    BY <1>3 DEF Answer, LoadFile2Inv, TypeOK

LEMMA StepKeepsSized ==
  ASSUME LoadFile2Inv, SizedKnowsLength, [Next]_vars
  PROVE  SizedKnowsLength'
  <1>1. CASE InstallNext \/ Unload \/ UNCHANGED vars
    BY <1>1 DEF InstallNext, StorePointer, StoreLength, BuildDevicePath, InstallDevicePath,
       InstallLoadFile2, ReadyToPublish, Unload, installVars, vars, SizedKnowsLength
  <1>2. ASSUME NEW c \in Consumers, Locate(c) \/ Load(c) \/ Probe(c)
        PROVE  SizedKnowsLength'
    <2> SUFFICES ASSUME NEW d \in Consumers, consumer'[d].at = "sized"
                 PROVE  consumer'[d].size = Len(file') /\ file' # <<>>
      BY DEF SizedKnowsLength
    <2>1. file' = file
      BY <1>2 DEF Locate, Load, Query, Fetch, Probe, installVars
    <2>2. d # c => consumer'[d] = consumer[d]
      BY <1>2 DEF Locate, Load, Query, Fetch, Probe, LoadFile2Inv, TypeOK
    <2>3. CASE d = c
      <3>1. CASE Locate(c)
        BY <2>3, <3>1 DEF Locate, LoadFile2Inv, TypeOK, CallRecord
      <3>2. CASE Query(c)
        BY <2>1, <2>3, <3>2, QueryTellsTheLength
      <3>3. CASE Fetch(c)
        BY <2>3, <3>3, FetchIsServed
      <3>4. CASE Probe(c)
        BY <2>3, <3>4 DEF Probe, Answer, LoadFile2Inv, TypeOK
      <3> QED
        BY <1>2, <3>1, <3>2, <3>3, <3>4 DEF Load
    <2> QED
      BY <2>1, <2>2, <2>3 DEF SizedKnowsLength
  <1> QED
    BY <1>1, <1>2 DEF Next

\* Whoever asks for the size of a non-empty file is told it, and the buffer it
\* then brings is served at once: two calls, never a third.
THEOREM LoadFile2TwoCalls == Spec => TwoCallsSuffice
  <1> DEFINE TwoCalls ==
               \A c \in Consumers :
                 /\ Query(c) /\ file # <<>> =>
                      consumer'[c].at = "sized" /\ consumer'[c].size = Len(file)
                 /\ Fetch(c) => consumer'[c].at = "served"
  <1>1. Init => SizedKnowsLength
    BY DEF Init, Idle, SizedKnowsLength
  <1>2. LoadFile2Inv /\ SizedKnowsLength /\ [Next]_vars => SizedKnowsLength'
    BY StepKeepsSized
  <1>3. LoadFile2Inv /\ SizedKnowsLength /\ [Next]_vars => [TwoCalls]_vars
    BY QueryTellsTheLength, FetchIsServed
  <1> QED
    BY <1>1, <1>2, <1>3, LoadFile2Invariant, PTL DEF Spec, TwoCallsSuffice

-----------------------------------------------------------------------------
(* The refinement: every behaviour offers one file and serves only it.     *)

LEMMA InitRefines == Init => Service!ServiceInit
  BY DEF Init, Service!ServiceInit, Idle

\* Publishing is the abstract offer; the other steps of install are not seen.
LEMMA InstallRefines ==
  ASSUME LoadFile2Inv, InstallNext \/ Unload \/ UNCHANGED vars
  PROVE  Service!Offer \/ UNCHANGED Service!serviceVars
  <1>1. consumer' = consumer /\ file' = file
    BY DEF InstallNext, StorePointer, StoreLength, BuildDevicePath,
       InstallDevicePath, DevicePathFirst, InstallLoadFile2, ReadyToPublish, Unload, installVars, vars
  <1>2. CASE published' = published
    BY <1>1, <1>2 DEF Service!serviceVars
  <1>3. CASE published' # published
    <2>1. InstallLoadFile2 /\ published' = TRUE /\ published = FALSE
      BY <1>3 DEF InstallNext, StorePointer, StoreLength, BuildDevicePath,
         InstallDevicePath, DevicePathFirst, InstallLoadFile2, ReadyToPublish, Unload, installVars, vars,
         LoadFile2Inv, TypeOK, InstallOrder
    <2> QED
      BY <1>1, <2>1 DEF Service!Offer, LoadFile2Inv, TypeOK
  <1> QED
    BY <1>2, <1>3

\* A call is the abstract receipt of the offered file, or of nothing.
LEMMA CallRefines ==
  ASSUME LoadFile2Inv, NEW c \in Consumers, Load(c) \/ Probe(c)
  PROVE  Service!Receive(c)
  <1>1. published /\ UNCHANGED <<file, published>>
    BY CallsAreAnswers DEF installVars
  <1>2. PICK at \in At, boot_policy \in BOOLEAN, buffer \in BOOLEAN, size \in Nat \cup {NoSize} :
          consumer' = [consumer EXCEPT ![c] = Answer(at, boot_policy, size, buffer)]
    BY CallsAreAnswers
  <1> DEFINE data == Answer(at, boot_policy, size, buffer).data
  <1>3. data \in ({file} \ {<<>>}) \cup {NoFile}
    <2>1. data = Copied(Status(boot_policy, size, buffer))
      BY DEF Answer
    <2>2. ptr = file /\ len = Len(file) /\ SubSeq(file, 1, Len(file)) = file
      BY <1>1, FileIsSequence DEF LoadFile2Inv, InstallOrder
    <2>3. file = <<>> => Status(boot_policy, size, buffer) # "SUCCESS"
      BY <2>2 DEF Status
    <2> QED
      BY <2>1, <2>2, <2>3 DEF Copied
  <1>4. [d \in Consumers |-> consumer'[d].data]
          = [[d \in Consumers |-> consumer[d].data] EXCEPT ![c] = data]
    BY <1>2 DEF LoadFile2Inv, TypeOK, CallRecord
  <1>5. file # NoFile
    BY FileIsSequence DEF LoadFile2Inv
  <1> HIDE DEF data
  <1> QED
    BY <1>1, <1>3, <1>4, <1>5 DEF Service!Receive

LEMMA StepRefines ==
  ASSUME LoadFile2Inv, [Next]_vars
  PROVE  [Service!ServiceNext]_(Service!serviceVars)
  <1>1. CASE InstallNext \/ Unload \/ UNCHANGED vars
    BY <1>1, InstallRefines DEF Service!ServiceNext
  <1>2. CASE \E c \in Consumers : Load(c) \/ Probe(c)
    BY <1>2, CallRefines DEF Service!ServiceNext
  <1>3. CASE \E c \in Consumers : Locate(c)
    <2>1. PICK c \in Consumers : Locate(c)
      BY <1>3
    <2>2. /\ UNCHANGED <<file, published>>
          /\ consumer' = [consumer EXCEPT ![c].at = "located"]
      BY <2>1 DEF Locate, installVars
    <2>3. \A d \in Consumers : consumer'[d].data = consumer[d].data
      BY <2>2 DEF LoadFile2Inv, TypeOK, CallRecord
    <2> QED
      BY <2>2, <2>3 DEF Service!serviceVars
  <1> QED
    BY <1>1, <1>2, <1>3 DEF Next

\* The callback, its statics and the two-step installation together are a
\* service that offers one file and delivers exactly it.
THEOREM LoadFile2Refines == Spec => ImplementsFileService
  <1>1. LoadFile2Inv /\ [Next]_vars => [Service!ServiceNext]_(Service!serviceVars)
    BY StepRefines
  <1> QED
    BY <1>1, InitRefines, LoadFile2Invariant, PTL
    DEF Spec, ImplementsFileService, Service!ServiceSpec
=============================================================================
