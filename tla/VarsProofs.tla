------------------------------ MODULE VarsProofs ------------------------------
(***************************************************************************)
(* The exported variables, for any device path and any answers of the      *)
(* variable services: what was set before is never replaced.               *)
(***************************************************************************)
EXTENDS Vars, SequenceTheorems, WellFoundedInduction, TLAPS

\* Why nothing is replaced: a variable is only about to be set when the
\* firmware has said, or seemed to say, that there is none.
SetsOnlyMissing ==
  probed => LET name == Head(todo).name
            IN  nvram[name] = Absent \/ name \in misled

VarsInv == TypeOK /\ initial \in [Names -> {Absent, Other}]
           /\ ExistingValuesSurvive /\ SetsOnlyMissing

Export == [name : Names, value : Guids \cup {Firmware}]

-----------------------------------------------------------------------------
LEMMA LeastIndex ==
  ASSUME NEW I \in SUBSET Nat, I # {}
  PROVE  Min(I) \in I
  <1> DEFINE Less == {pair \in Nat \X Nat : pair[1] < pair[2]}
  <1>1. IsWellFoundedOn(Less, Nat)
    BY NatLessThanWellFounded DEF OpToRel
  <1>2. PICK least \in I : \A i \in I : <<i, least>> \notin Less
    BY <1>1, WFMin
  <1>3. ASSUME NEW i \in I PROVE least =< i
    <2>1. i \in Nat /\ least \in Nat /\ ~ (i < least)
      BY <1>2
    <2> QED
      BY <2>1
  <1> QED
    BY <1>3 DEF Min

\* The disk's variable is a partition's GUID, or is left out.
LEMMA PartitionGuidType ==
  ASSUME NEW p \in Paths
  PROVE  PartitionGuid(p) \in Guids \cup {Absent}
  <1> DEFINE gpt == {i \in 1 .. Len(p) : p[i].kind = "gpt"}
  <1>1. p \in Seq(Node)
    BY PathsAssumption
  <1>2. CASE gpt = {}
    BY <1>2 DEF PartitionGuid, SelectInSeq
  <1>3. CASE gpt # {}
    <2>1. gpt \in SUBSET Nat
      BY <1>1
    <2> HIDE DEF gpt
    <2>2. Min(gpt) \in gpt
      BY <1>3, <2>1, LeastIndex
    <2> USE DEF gpt
    <2>3. p[Min(gpt)] \in Node
      BY <1>1, <2>2
    <2>4. p[Min(gpt)].guid \in Guids
      BY <2>2, <2>3 DEF Node
    <2>5. PartitionGuid(p) = p[Min(gpt)].guid
      BY <1>1, <1>3, <2>1, <2>2 DEF PartitionGuid, SelectInSeq
    <2> QED
      BY <2>4, <2>5
  <1> QED
    BY <1>2, <1>3

LEMMA ExportsType ==
  ASSUME device \in Paths \cup {Absent}
  PROVE  FirmwareExports \in Seq(Export) /\ DiskExports \in Seq(Export)
  <1>1. FirmwareExports \in Seq(Export)
    BY DEF FirmwareExports, Export, Names
  <1>2. DiskExports \in Seq(Export)
    <2>1. CASE device = Absent \/ PartitionGuid(device) = Absent
      BY <2>1 DEF DiskExports
    <2>2. CASE device # Absent /\ PartitionGuid(device) # Absent
      <3>1. PartitionGuid(device) \in Guids
        BY <2>2, PartitionGuidType
      <3>2. [name |-> "LoaderDevicePartUUID", value |-> PartitionGuid(device)] \in Export
        BY <3>1 DEF Export, Names
      <3> QED
        BY <2>2, <3>2 DEF DiskExports
    <2> QED
      BY <2>1, <2>2
  <1> QED
    BY <1>1, <1>2

LEMMA HeadOfExports ==
  ASSUME TypeOK, todo # <<>>
  PROVE  Head(todo) \in Export /\ Tail(todo) \in Seq(Export) /\ Head(todo).name \in Names
  <1>1. todo \in Seq(Export)
    BY DEF TypeOK, Export
  <1>2. Head(todo) \in Export /\ Tail(todo) \in Seq(Export)
    BY <1>1, HeadTailProperties
  <1> QED
    BY <1>2 DEF Export

LEMMA InitEstablishesVarsInv == Init => VarsInv
  <1> SUFFICES ASSUME Init PROVE VarsInv
    OBVIOUS
  <1>1. TypeOK
    BY ExportsType DEF Init, TypeOK, Export
  <1> QED
    BY <1>1 DEF Init, VarsInv, ExistingValuesSurvive, SetsOnlyMissing

-----------------------------------------------------------------------------
LEMMA ProbeKeepsVarsInv ==
  ASSUME VarsInv, Probe
  PROVE  VarsInv'
  <1> DEFINE name == Head(todo).name
  <1>1. Head(todo) \in Export /\ Tail(todo) \in Seq(Export) /\ name \in Names
    BY HeadOfExports DEF VarsInv, Probe
  <1>2. TypeOK'
    <2>1. todo' \in Seq(Export)
      <3>1. todo \in Seq(Export) /\ todo' \in {todo, Tail(todo)}
        BY DEF VarsInv, TypeOK, Probe, Export
      <3> QED
        BY <1>1, <3>1
    <2>2. probed' => todo' # <<>>
      BY DEF Probe
    <2>3. misled' \subseteq Names /\ probed' \in BOOLEAN
      BY <1>1 DEF VarsInv, TypeOK, Probe
    <2> QED
      BY <2>1, <2>2, <2>3 DEF VarsInv, TypeOK, Probe, Export
  <1>3. ExistingValuesSurvive'
    BY DEF VarsInv, ExistingValuesSurvive, Probe
  <1>4. SetsOnlyMissing'
    BY DEF VarsInv, SetsOnlyMissing, Probe, Exists
  <1> QED
    BY <1>2, <1>3, <1>4 DEF VarsInv, Probe

LEMMA SetKeepsVarsInv ==
  ASSUME VarsInv, Set
  PROVE  VarsInv'
  <1> DEFINE name == Head(todo).name
  <1>1. name \in Names /\ Tail(todo) \in Seq(Export)
    BY HeadOfExports DEF VarsInv, TypeOK, Set
  <1>2. nvram' \in {nvram, [nvram EXCEPT ![name] = Absent]} /\ misled' = misled
    BY DEF Set, Attributes
  <1>3. TypeOK'
    <2>1. nvram' \in [Names -> Guids \cup {Absent, Other, Firmware}]
      BY <1>2 DEF VarsInv, TypeOK
    <2> QED
      BY <1>1, <2>1 DEF VarsInv, TypeOK, Set, Export
  <1>4. ExistingValuesSurvive'
    <2> SUFFICES ASSUME NEW n \in Names, initial[n] # Absent
                 PROVE  nvram'[n] = initial[n] \/ (n \in misled /\ nvram'[n] = Absent)
      BY DEF ExistingValuesSurvive, Set
    <2>1. nvram[n] = initial[n] \/ (n \in misled /\ nvram[n] = Absent)
      BY DEF VarsInv, ExistingValuesSurvive
    <2>2. n = name => n \in misled \/ nvram[n] = Absent
      BY DEF VarsInv, SetsOnlyMissing, Set
    <2> QED
      BY <1>2, <2>1, <2>2 DEF VarsInv, TypeOK
  <1> QED
    BY <1>3, <1>4 DEF VarsInv, SetsOnlyMissing, Set

LEMMA GoOnKeepsVarsInv ==
  ASSUME VarsInv, GoOn
  PROVE  VarsInv'
  <1>1. todo' \in Seq(Export) /\ ~ probed
    BY ExportsType DEF VarsInv, TypeOK, GoOn, Export
  <1> QED
    BY <1>1 DEF VarsInv, TypeOK, ExistingValuesSurvive, SetsOnlyMissing, GoOn, Export

THEOREM VarsInvariant == Spec => []VarsInv
  <1>1. VarsInv /\ [Next]_vars => VarsInv'
    <2> SUFFICES ASSUME VarsInv, [Next]_vars PROVE VarsInv'
      OBVIOUS
    <2>1. CASE UNCHANGED vars
      BY <2>1 DEF VarsInv, TypeOK, ExistingValuesSurvive, SetsOnlyMissing, vars
    <2> QED
      BY <2>1, ProbeKeepsVarsInv, SetKeepsVarsInv, GoOnKeepsVarsInv DEF Next
  <1> QED
    BY <1>1, InitEstablishesVarsInv, PTL DEF Spec

\* Every variable of export stays in its type, whatever the firmware answers.
THEOREM VarsTypeCorrect == Spec => []TypeOK
  BY VarsInvariant, PTL DEF VarsInv

\* What another boot loader has set is never replaced by the stub's own
\* (vars/mod.rs:24), and is lost only where the firmware could not say
\* whether it was there.
THEOREM VarsSurvive == Spec => []ExistingValuesSurvive
  BY VarsInvariant, PTL DEF VarsInv

\* Nothing is ever exported, by any firmware: without access attributes a
\* variable is what it was before the stub, or is gone (vars/mod.rs:31).
THEOREM VarsStoresNothing ==
  Spec => [](\A name \in Names : nvram[name] \in {initial[name], Absent})
  <1> DEFINE Nothing == \A name \in Names : nvram[name] \in {initial[name], Absent}
  <1>1. Init => Nothing
    BY DEF Init
  <1>2. VarsInv /\ Nothing /\ [Next]_vars => Nothing'
    <2> SUFFICES ASSUME VarsInv, Nothing, [Next]_vars PROVE Nothing'
      OBVIOUS
    <2>1. CASE Set
      <3>1. /\ nvram' \in {nvram, [nvram EXCEPT ![Head(todo).name] = Absent]}
            /\ initial' = initial
        BY <2>1 DEF Set, Attributes
      <3> QED
        BY <3>1 DEF VarsInv, TypeOK
    <2>2. CASE Probe \/ GoOn \/ UNCHANGED vars
      BY <2>2 DEF Probe, GoOn, vars
    <2> QED
      BY <2>1, <2>2 DEF Next
  <1> QED
    BY <1>1, <1>2, VarsInvariant, PTL DEF Spec
=============================================================================
