--------------------------- MODULE ProtectionProofs ---------------------------
(***************************************************************************)
(* W^X of the kernel's code and the exactness of the log, for every page   *)
(* size, kernel, layout of its sections and sequence of firmware answers.  *)
(* Which pages a section has only matters to where attributes change and   *)
(* to the entry point, the lemmas and theorems at the end.                 *)
(***************************************************************************)
EXTENDS Protection, TLAPS

\* What the loop knows of the section it is at: its address is aligned, and
\* as far as the calls have come it is read-only and warned about.
StepAgrees ==
  /\ step # "none" => CodeBase(Section(cursor + 1)) % PageSize = 0
  /\ step = "read_only" => PagesOf(Section(cursor + 1)) \subseteq ro
  /\ step = "not_executable" => cursor + 1 \in warned

\* Every code section the loop is done with is in the log, one way or the
\* other, and those logged as RO+X are aligned.
Logged ==
  /\ CodeSections \cap 1 .. cursor \subseteq reported \cup warned
  /\ \A i \in reported : CodeBase(Section(i)) % PageSize = 0

ProtectInv ==
  /\ ProtectTypeOK
  /\ IsMapped(kernel, base)
  /\ StepAgrees
  /\ Logged
  /\ ReportedSectionsAreProtected
  /\ FailedSectionsAreRolledBack

-----------------------------------------------------------------------------
LEMMA SectionCount ==
  ASSUME kernel \in Image
  PROVE  Len(kernel.sections) \in Nat /\ CodeSections \subseteq 1 .. Len(kernel.sections)
  BY DEF Image, CodeSections

\* Adding a section's pages, or taking them away again.
LEMMA PagesOfOneMore ==
  ASSUME NEW i, NEW S
  PROVE  PagesOfAll(S \cup {i}) = PagesOfAll(S) \cup PagesOf(Section(i))
  BY DEF PagesOfAll

LEMMA PagesAreNumbers ==
  ASSUME kernel \in Image, base \in Addr, NEW s
  PROVE  PagesOf(s) \subseteq Int
  BY DEF PagesOf

-----------------------------------------------------------------------------
LEMMA InitEstablishesProtectInv == ProtectInit => ProtectInv
  <1> SUFFICES ASSUME ProtectInit PROVE ProtectInv
    OBVIOUS
  <1>1. kernel \in Image /\ Len(kernel.sections) \in Nat
    BY KernelsAssumption, SectionCount DEF ProtectInit
  <1>2. InitialXP \subseteq Int
    BY PageSizeAssumption, AddrMaxAssumption DEF InitialXP, Pages
  <1>3. ProtectTypeOK
    BY <1>1, <1>2 DEF ProtectInit, AttributesInit, ProtectTypeOK, Step
  <1>4. StepAgrees /\ Logged
    BY DEF ProtectInit, AttributesInit, StepAgrees, Logged
  <1>5. ReportedSectionsAreProtected /\ FailedSectionsAreRolledBack
    BY DEF ProtectInit, AttributesInit, ReportedSectionsAreProtected,
           FailedSectionsAreRolledBack
  <1> QED
    BY <1>3, <1>4, <1>5 DEF ProtectInit, ProtectInv

\* The geometry is a function of what no step changes.
LEMMA CodeIsFixed ==
  ASSUME UNCHANGED <<kernel, base>>
  PROVE  CodeSections' = CodeSections
  BY DEF CodeSections, Section

LEMMA GeometryIsFixed ==
  ASSUME UNCHANGED <<kernel, base>>
  PROVE  /\ IsMapped(kernel, base)' <=> IsMapped(kernel, base)
         /\ \A i : CodeBase(Section(i))' = CodeBase(Section(i))
         /\ \A i : PagesOf(Section(i))' = PagesOf(Section(i))
         /\ \A S : PagesOfAll(S)' = PagesOfAll(S)
  <1>1. \A i : CodeBase(Section(i))' = CodeBase(Section(i))
    BY DEF Section, CodeBase, SaturatingOffset
  <1>2. \A i : PagesOf(Section(i))' = PagesOf(Section(i))
    BY <1>1 DEF PagesOf, Section
  <1>3. IsMapped(kernel, base)' <=> IsMapped(kernel, base)
    OBVIOUS
  <1>4. \A S : PagesOfAll(S)' = PagesOfAll(S)
    BY <1>2 DEF PagesOfAll
  <1> QED
    BY <1>1, <1>2, <1>3, <1>4

\* A rollback stays in the log: what excuses a page once always does.
LEMMA UndoneStaysUndone ==
  ASSUME UNCHANGED <<kernel, base>>, cursor \in Nat, cursor' \in Nat, cursor <= cursor',
         (warned \ stuck) \cap 1 .. cursor \subseteq warned' \ stuck',
         NEW i \in Nat, NEW page, UndoneBehind(i, page)
  PROVE  UndoneBehind(i, page)'
  <1>1. PICK j \in (warned \ stuck) \cap i + 1 .. cursor : page \in PagesOf(Section(j))
    BY DEF UndoneBehind
  <1>2. j \in (warned' \ stuck') \cap i + 1 .. cursor'
    BY <1>1
  <1>3. page \in PagesOf(Section(j))'
    BY <1>1, GeometryIsFixed
  <1> QED
    BY <1>2, <1>3 DEF UndoneBehind

\* The facts about sections that are logged already only need the pages: a
\* step that gives none of theirs XP again and takes RO only from pages that
\* the log excuses keeps them.
LEMMA ReportedStayProtected ==
  ASSUME ProtectInv, UNCHANGED <<kernel, base>>, cursor' \in Nat, cursor <= cursor',
         (warned \ stuck) \cap 1 .. cursor \subseteq warned' \ stuck',
         xp' \subseteq xp,
         NEW i \in reported, NEW page \in PagesOf(Section(i)),
         page \in ro => page \in ro' \/ UndoneBehind(i, page)'
  PROVE  page \notin xp' /\ (page \in ro' \/ UndoneBehind(i, page)')
  <1>1. cursor \in Nat /\ i \in Nat
    BY SectionCount DEF ProtectInv, ProtectTypeOK
  <1>2. page \notin xp /\ (page \in ro \/ UndoneBehind(i, page))
    BY DEF ProtectInv, ReportedSectionsAreProtected
  <1> QED
    BY <1>1, <1>2, UndoneStaysUndone

-----------------------------------------------------------------------------
(* One lemma per action. *)

\* The section the loop is at, and where the loop is behind it.
LEMMA AtCurrent ==
  ASSUME ProtectInv
  PROVE  /\ Len(kernel.sections) \in Nat /\ cursor \in Nat /\ cursor <= Len(kernel.sections)
         /\ 1 .. cursor \subseteq 1 .. cursor + 1
         /\ 1 .. cursor + 1 \subseteq 1 .. cursor + 1 + 1
         /\ Current = Section(cursor + 1)
         /\ PagesOf(Current) \subseteq Int
         /\ cursor + 1 \notin reported /\ cursor + 1 \notin stuck
         /\ cursor + 1 \in CodeSections => cursor + 1 \in 1 .. Len(kernel.sections)
         /\ AtSection => cursor + 1 \in 1 .. Len(kernel.sections)
  <1>1. Len(kernel.sections) \in Nat /\ cursor \in Nat /\ cursor <= Len(kernel.sections)
    BY SectionCount DEF ProtectInv, ProtectTypeOK
  <1>2. PagesOf(Current) \subseteq Int
    BY PagesAreNumbers DEF ProtectInv, ProtectTypeOK
  <1> QED
    BY <1>1, <1>2 DEF ProtectInv, ProtectTypeOK, Current, Section, CodeSections, AtSection

\* A section that is passed over: it is not code, or it is warned about.
LEMMA PassOverKeepsProtectInv ==
  ASSUME ProtectInv, step = "none", AtSection,
         UNCHANGED <<kernel, base, step, ro, xp, reported, stuck>>, cursor' = cursor + 1,
         IF Current.code THEN Warn ELSE UNCHANGED warned
  PROVE  ProtectInv'
  <1> DEFINE c == cursor + 1
  <1>1. /\ Len(kernel.sections) \in Nat /\ cursor \in Nat /\ c \in 1 .. Len(kernel.sections)
        /\ Current = Section(c)
    BY AtCurrent
  <1>2. /\ c \in CodeSections => warned' = warned \cup {c}
        /\ c \notin CodeSections => warned' = warned
        /\ warned \subseteq warned'
    BY <1>1 DEF Warn, CodeSections
  <1>3. ProtectTypeOK'
    <2>1. /\ reported' \subseteq CodeSections \cap 1 .. c
          /\ warned' \subseteq CodeSections \cap 1 .. c + 1
          /\ stuck' \subseteq warned' \cap 1 .. c
      BY <1>1, <1>2 DEF ProtectInv, ProtectTypeOK
    <2> QED
      BY <1>1, <2>1, CodeIsFixed DEF ProtectInv, ProtectTypeOK
  <1>4. StepAgrees'
    BY DEF StepAgrees
  <1>5. Logged'
    <2>1. CodeSections \cap 1 .. c \subseteq reported' \cup warned'
      BY <1>1, <1>2 DEF ProtectInv, Logged
    <2>2. \A i \in reported' : CodeBase(Section(i))' % PageSize = 0
      BY GeometryIsFixed DEF ProtectInv, Logged
    <2> QED
      BY <2>1, <2>2, CodeIsFixed DEF Logged
  <1>6. ReportedSectionsAreProtected'
    <2> SUFFICES ASSUME NEW i \in reported, NEW page \in PagesOf(Section(i))
                 PROVE  page \notin xp' /\ (page \in ro' \/ UndoneBehind(i, page)')
      BY GeometryIsFixed DEF ReportedSectionsAreProtected
    <2> QED
      BY <1>1, <1>2, ReportedStayProtected
  <1>7. FailedSectionsAreRolledBack'
    <2>1. InHand = {} /\ InHand' = {}
      BY DEF InHand
    <2> QED
      BY <2>1, GeometryIsFixed DEF ProtectInv, FailedSectionsAreRolledBack, InitialXP
  <1> QED
    BY <1>3, <1>4, <1>5, <1>6, <1>7, GeometryIsFixed DEF ProtectInv

LEMMA SkipKeepsProtectInv == ProtectInv /\ SkipSection => ProtectInv'
  BY PassOverKeepsProtectInv DEF SkipSection

LEMMA SetReadOnlyKeepsProtectInv == ProtectInv /\ SetReadOnly => ProtectInv'
  <1> SUFFICES ASSUME ProtectInv, SetReadOnly PROVE ProtectInv'
    OBVIOUS
  <1> DEFINE c == cursor + 1
  <1>1. CASE Warn /\ cursor' = cursor + 1 /\ UNCHANGED <<ro, step>>
    BY <1>1, PassOverKeepsProtectInv DEF SetReadOnly
  <1>2. CASE /\ FirmwareAccepts(Current)
             /\ ro' = ro \cup PagesOf(Current) /\ step' = "read_only"
             /\ UNCHANGED <<cursor, warned>>
    <2>1. /\ Len(kernel.sections) \in Nat /\ cursor \in Nat /\ c \in 1 .. Len(kernel.sections)
          /\ Current = Section(c) /\ PagesOf(Current) \subseteq Int
      BY AtCurrent DEF SetReadOnly
    <2>2. UNCHANGED <<kernel, base, xp, reported, stuck>> /\ step = "none" /\ Current.code
      BY DEF SetReadOnly
    <2>3. ProtectTypeOK'
      <3>1. c \in CodeSections /\ ro' \in SUBSET Int
        BY <1>2, <2>1, <2>2 DEF CodeSections, ProtectInv, ProtectTypeOK
      <3>2. step' \in Step /\ cursor' + 1 = c
        BY <1>2 DEF Step
      <3>3. CodeSections' = CodeSections
        BY <2>2, CodeIsFixed
      <3> QED
        BY <1>2, <2>2, <3>1, <3>2, <3>3 DEF ProtectInv, ProtectTypeOK
    <2>4. StepAgrees'
      <3>1. PICK j : j = c /\ j = cursor' + 1
        BY <1>2
      <3>2. PagesOf(Section(j))' = PagesOf(Section(j)) /\ CodeBase(Section(j))' = CodeBase(Section(j))
        BY <2>2, GeometryIsFixed
      <3> QED
        BY <1>2, <2>1, <3>1, <3>2 DEF StepAgrees, FirmwareAccepts
    <2>5. Logged'
      BY <1>2, <2>2, CodeIsFixed, GeometryIsFixed DEF ProtectInv, Logged
    <2>6. ReportedSectionsAreProtected'
      <3> SUFFICES ASSUME NEW i \in reported, NEW page \in PagesOf(Section(i))
                   PROVE  page \notin xp' /\ (page \in ro' \/ UndoneBehind(i, page)')
        BY <2>2, GeometryIsFixed DEF ReportedSectionsAreProtected
      <3> QED
        BY <1>2, <2>1, <2>2, ReportedStayProtected
    <2>7. FailedSectionsAreRolledBack'
      <3>1. InHand = {} /\ InHand' = {c}
        BY <1>2, <2>2 DEF InHand
      <3>2. ro' \subseteq PagesOfAll(reported \cup stuck \cup {c})
        <4>1. ro \subseteq PagesOfAll(reported \cup stuck)
          BY <3>1 DEF ProtectInv, FailedSectionsAreRolledBack
        <4> QED
          BY <1>2, <2>1, <4>1, PagesOfOneMore
      <3>3. InitialXP \ xp' \subseteq PagesOfAll(reported)
        BY <2>2 DEF ProtectInv, FailedSectionsAreRolledBack
      <3> QED
        BY <2>2, <3>1, <3>2, <3>3, GeometryIsFixed DEF FailedSectionsAreRolledBack, InitialXP
    <2> QED
      BY <2>2, <2>3, <2>4, <2>5, <2>6, <2>7, GeometryIsFixed DEF ProtectInv
  <1> QED
    BY <1>1, <1>2 DEF SetReadOnly

LEMMA ClearNoExecuteKeepsProtectInv == ProtectInv /\ ClearNoExecute => ProtectInv'
  <1> SUFFICES ASSUME ProtectInv, ClearNoExecute PROVE ProtectInv'
    OBVIOUS
  <1> DEFINE c == cursor + 1
  <1>1. /\ Len(kernel.sections) \in Nat /\ cursor \in Nat /\ c \in 1 .. Len(kernel.sections)
        /\ c \in CodeSections /\ Current = Section(c) /\ c \notin stuck
        /\ 1 .. cursor \subseteq 1 .. c /\ 1 .. c \subseteq 1 .. c + 1
        /\ step = "read_only" /\ PagesOf(Section(c)) \subseteq ro
        /\ CodeBase(Section(c)) % PageSize = 0
    BY AtCurrent DEF ClearNoExecute, ProtectInv, ProtectTypeOK, StepAgrees
  <1>2. UNCHANGED <<kernel, base, ro, stuck>>
    BY DEF ClearNoExecute
  <1>3. InHand = {c}
    BY <1>1 DEF InHand
  <1>4. CASE step' = "not_executable" /\ Warn /\ UNCHANGED <<xp, reported, cursor>>
    <2>1. warned' = warned \cup {c}
      BY <1>4 DEF Warn
    <2>2. ProtectTypeOK'
      <3>1. warned' \subseteq CodeSections \cap 1 .. cursor + 1
        BY <1>1, <2>1 DEF ProtectInv, ProtectTypeOK
      <3> QED
        BY <1>1, <1>2, <1>4, <2>1, <3>1, CodeIsFixed DEF ProtectInv, ProtectTypeOK, Step
    <2>3. StepAgrees'
      BY <1>1, <1>2, <1>4, <2>1, GeometryIsFixed DEF StepAgrees
    <2>4. Logged'
      BY <1>2, <1>4, <2>1, CodeIsFixed, GeometryIsFixed DEF ProtectInv, Logged
    <2>5. ReportedSectionsAreProtected'
      <3> SUFFICES ASSUME NEW i \in reported, NEW page \in PagesOf(Section(i))
                   PROVE  page \notin xp' /\ (page \in ro' \/ UndoneBehind(i, page)')
        BY <1>2, <1>4, GeometryIsFixed DEF ReportedSectionsAreProtected
      <3> QED
        BY <1>1, <1>2, <1>4, <2>1, ReportedStayProtected
    <2>6. FailedSectionsAreRolledBack'
      <3>1. InHand' = {c}
        BY <1>4 DEF InHand
      <3> QED
        BY <1>2, <1>3, <1>4, <3>1, GeometryIsFixed
        DEF ProtectInv, FailedSectionsAreRolledBack, InitialXP
    <2> QED
      BY <1>2, <2>2, <2>3, <2>4, <2>5, <2>6, GeometryIsFixed DEF ProtectInv
  <1>5. CASE /\ xp' = xp \ PagesOf(Current) /\ reported' = reported \cup {c}
             /\ cursor' = c /\ step' = "none" /\ UNCHANGED warned
    <2>1. ProtectTypeOK'
      <3>1. /\ reported' \subseteq CodeSections \cap 1 .. c
            /\ warned' \subseteq CodeSections \cap 1 .. c + 1
            /\ stuck' \subseteq warned' \cap 1 .. c
        <4> DEFINE S == 1 .. c
                   T == 1 .. c + 1
                   R == 1 .. cursor
        <4>1. /\ c \in S /\ R \subseteq S /\ S \subseteq T
              /\ reported \subseteq CodeSections \cap R /\ warned \subseteq CodeSections \cap S
              /\ stuck \subseteq warned \cap R
          BY <1>1 DEF ProtectInv, ProtectTypeOK
        <4> HIDE DEF S, T, R, c
        <4>2. /\ reported \cup {c} \subseteq CodeSections \cap S
              /\ warned \subseteq CodeSections \cap T /\ stuck \subseteq warned \cap S
          BY <1>1, <4>1
        <4> QED
          BY <1>2, <1>5, <4>2 DEF S, T
      <3>2. xp' \in SUBSET Int
        BY <1>5 DEF ProtectInv, ProtectTypeOK
      <3>3. cursor' \in 0 .. Len(kernel.sections)
        BY <1>1, <1>5
      <3>4. step' = "none" /\ cursor' = c
        BY <1>5
      <3> QED
        BY <1>2, <3>1, <3>2, <3>3, <3>4, CodeIsFixed DEF ProtectInv, ProtectTypeOK, Step
    <2>2. StepAgrees'
      BY <1>5 DEF StepAgrees
    <2>3. Logged'
      <3>1. CodeSections \cap 1 .. c \subseteq reported' \cup warned'
        BY <1>1, <1>5 DEF ProtectInv, Logged
      <3>2. \A i \in reported' : CodeBase(Section(i)) % PageSize = 0
        BY <1>1, <1>5 DEF ProtectInv, Logged
      <3> QED
        BY <1>2, <1>5, <3>1, <3>2, CodeIsFixed, GeometryIsFixed DEF Logged
    <2>4. ReportedSectionsAreProtected'
      <3> SUFFICES ASSUME NEW i \in reported \cup {c}, NEW page \in PagesOf(Section(i))
                   PROVE  page \notin xp' /\ (page \in ro' \/ UndoneBehind(i, page)')
        BY <1>2, <1>5, GeometryIsFixed DEF ReportedSectionsAreProtected
      <3>1. CASE i = c
        BY <1>1, <1>2, <1>5, <3>1
      <3>2. CASE i \in reported
        <4>1. /\ cursor' \in Nat /\ cursor <= cursor' /\ xp' \subseteq xp
              /\ (warned \ stuck) \cap 1 .. cursor \subseteq warned' \ stuck'
          BY <1>1, <1>2, <1>5
        <4> QED
          BY <1>2, <3>2, <4>1, ReportedStayProtected
      <3> QED
        BY <3>1, <3>2
    <2>5. FailedSectionsAreRolledBack'
      <3>1. InHand' = {}
        BY <1>5 DEF InHand
      <3>2. ro \subseteq PagesOfAll(reported \cup stuck \cup {c})
        BY <1>3 DEF ProtectInv, FailedSectionsAreRolledBack
      <3>3. reported \cup stuck \cup {c} = reported' \cup stuck' \cup {}
        BY <1>2, <1>5
      <3>4. InitialXP \ xp' \subseteq PagesOfAll(reported \cup {c})
        <4>1. InitialXP \ xp \subseteq PagesOfAll(reported)
          BY DEF ProtectInv, FailedSectionsAreRolledBack
        <4> QED
          BY <1>1, <1>5, <4>1, PagesOfOneMore
      <3> QED
        BY <1>2, <1>5, <3>1, <3>2, <3>3, <3>4, GeometryIsFixed
        DEF FailedSectionsAreRolledBack, InitialXP
    <2> QED
      BY <1>2, <2>1, <2>2, <2>3, <2>4, <2>5, GeometryIsFixed DEF ProtectInv
  <1> QED
    BY <1>4, <1>5 DEF ClearNoExecute, DoNotReport

\* The one step that takes RO away. Where the section shares a page with an
\* earlier one that was reported, the log names the section.
LEMMA RollBackKeepsProtectInv == ProtectInv /\ RollBack => ProtectInv'
  <1> SUFFICES ASSUME ProtectInv, RollBack PROVE ProtectInv'
    OBVIOUS
  <1> DEFINE c == cursor + 1
  <1>1. /\ Len(kernel.sections) \in Nat /\ cursor \in Nat /\ c \in 1 .. Len(kernel.sections)
        /\ c \in CodeSections /\ Current = Section(c) /\ c \notin stuck /\ c \in warned
        /\ 1 .. cursor \subseteq 1 .. c /\ 1 .. c \subseteq 1 .. c + 1
        /\ step = "not_executable"
    BY AtCurrent DEF RollBack, ProtectInv, ProtectTypeOK, StepAgrees
  <1>2. UNCHANGED <<kernel, base, xp, reported, warned>> /\ cursor' = c /\ step' = "none"
    BY DEF RollBack, Continue, Undo
  <1>3. \/ ro' = ro \ PagesOf(Section(c)) /\ stuck' = stuck
        \/ ro' = ro /\ stuck' = stuck \cup {c}
    BY <1>1 DEF RollBack, Undo
  <1>4. InHand = {c} /\ InHand' = {}
    BY <1>1, <1>2 DEF InHand
  <1>5. ProtectTypeOK'
    <2>1. /\ reported' \subseteq CodeSections \cap 1 .. c
          /\ warned' \subseteq CodeSections \cap 1 .. c + 1
          /\ stuck' \subseteq warned' \cap 1 .. c
      <3> DEFINE S == 1 .. c
                 T == 1 .. c + 1
                 R == 1 .. cursor
      <3>1. /\ c \in S /\ R \subseteq S /\ S \subseteq T
            /\ reported \subseteq CodeSections \cap R /\ warned \subseteq CodeSections \cap S
            /\ stuck \subseteq warned \cap R
        BY <1>1 DEF ProtectInv, ProtectTypeOK
      <3> HIDE DEF S, T, R, c
      <3>2. /\ reported \subseteq CodeSections \cap S /\ warned \subseteq CodeSections \cap T
            /\ stuck' \subseteq warned \cap S
        BY <1>1, <1>3, <3>1
      <3> QED
        BY <1>2, <3>2 DEF S, T
    <2>2. ro' \in SUBSET Int
      BY <1>3 DEF ProtectInv, ProtectTypeOK
    <2>3. cursor' \in 0 .. Len(kernel.sections)
      BY <1>1, <1>2
    <2>4. step' = "none" /\ cursor' = c
      BY <1>2
    <2> QED
      BY <1>2, <2>1, <2>2, <2>3, <2>4, CodeIsFixed DEF ProtectInv, ProtectTypeOK, Step
  <1>6. StepAgrees'
    BY <1>2 DEF StepAgrees
  <1>7. Logged'
    <2>1. CodeSections \cap 1 .. c \subseteq reported \cup warned
      BY <1>1 DEF ProtectInv, Logged
    <2> QED
      BY <1>2, <2>1, CodeIsFixed, GeometryIsFixed DEF ProtectInv, Logged
  <1>8. ReportedSectionsAreProtected'
    <2> SUFFICES ASSUME NEW i \in reported, NEW page \in PagesOf(Section(i))
                 PROVE  page \notin xp' /\ (page \in ro' \/ UndoneBehind(i, page)')
      BY <1>2, GeometryIsFixed DEF ReportedSectionsAreProtected
    <2>1. page \in ro => page \in ro' \/ UndoneBehind(i, page)'
      <3> SUFFICES ASSUME page \in ro, page \notin ro' PROVE UndoneBehind(i, page)'
        OBVIOUS
      <3>1. page \in PagesOf(Section(c)) /\ stuck' = stuck
        BY <1>3
      <3>2. c \in (warned' \ stuck') \cap i + 1 .. cursor'
        <4>1. i \in Nat /\ i <= cursor
          BY <1>1 DEF ProtectInv, ProtectTypeOK
        <4>2. c \in i + 1 .. cursor'
          BY <1>1, <1>2, <4>1
        <4> QED
          BY <1>1, <1>2, <3>1, <4>2
      <3>3. PICK j : j = c
        OBVIOUS
      <3>4. page \in PagesOf(Section(j))'
        BY <1>2, <3>1, <3>3, GeometryIsFixed
      <3> QED
        BY <3>2, <3>3, <3>4 DEF UndoneBehind
    <2>2. /\ cursor' \in Nat /\ cursor <= cursor' /\ xp' \subseteq xp
          /\ (warned \ stuck) \cap 1 .. cursor \subseteq warned' \ stuck'
      BY <1>1, <1>2, <1>3
    <2> QED
      BY <1>2, <2>1, <2>2, ReportedStayProtected
  <1>9. FailedSectionsAreRolledBack'
    <2>1. ro \subseteq PagesOfAll(reported \cup stuck) \cup PagesOf(Section(c))
      BY <1>4, PagesOfOneMore DEF ProtectInv, FailedSectionsAreRolledBack
    <2>2. ro' \subseteq PagesOfAll(reported \cup stuck')
      <3>1. CASE ro' = ro \ PagesOf(Section(c)) /\ stuck' = stuck
        BY <2>1, <3>1
      <3>2. CASE ro' = ro /\ stuck' = stuck \cup {c}
        <4>1. reported \cup stuck' = reported \cup stuck \cup {c}
          BY <3>2
        <4> QED
          BY <2>1, <3>2, <4>1, PagesOfOneMore
      <3> QED
        BY <1>3, <3>1, <3>2
    <2>3. InitialXP \ xp \subseteq PagesOfAll(reported)
      BY DEF ProtectInv, FailedSectionsAreRolledBack
    <2> QED
      BY <1>2, <1>4, <2>2, <2>3, GeometryIsFixed DEF FailedSectionsAreRolledBack, InitialXP
  <1> QED
    BY <1>2, <1>5, <1>6, <1>7, <1>8, <1>9, GeometryIsFixed DEF ProtectInv

LEMMA StepKeepsProtectInv == ProtectInv /\ [ProtectNext]_protectVars => ProtectInv'
  <1> SUFFICES ASSUME ProtectInv, [ProtectNext]_protectVars PROVE ProtectInv'
    OBVIOUS
  <1>1. CASE UNCHANGED protectVars
    <2>1. UNCHANGED <<kernel, base, cursor, step, ro, xp, reported, warned, stuck>>
      BY <1>1 DEF protectVars
    <2>2. ProtectTypeOK'
      BY <2>1, CodeIsFixed DEF ProtectInv, ProtectTypeOK
    <2>3. StepAgrees'
      <3>1. PICK c : c = cursor + 1 /\ c = cursor' + 1
        BY <2>1
      <3>2. PagesOf(Section(c))' = PagesOf(Section(c)) /\ CodeBase(Section(c))' = CodeBase(Section(c))
        BY <2>1, GeometryIsFixed
      <3> QED
        BY <2>1, <3>1, <3>2 DEF ProtectInv, StepAgrees
    <2>4. Logged'
      <3>1. \A i \in reported' : CodeBase(Section(i))' % PageSize = 0
        BY <2>1, GeometryIsFixed DEF ProtectInv, Logged
      <3>2. CodeSections' \cap 1 .. cursor' \subseteq reported' \cup warned'
        BY <2>1, CodeIsFixed DEF ProtectInv, Logged
      <3> QED
        BY <3>1, <3>2 DEF Logged
    <2>5. ReportedSectionsAreProtected'
      <3>1. \A i, page : UndoneBehind(i, page)' <=> UndoneBehind(i, page)
        BY <2>1, GeometryIsFixed DEF UndoneBehind
      <3> QED
        BY <2>1, <3>1, GeometryIsFixed DEF ProtectInv, ReportedSectionsAreProtected
    <2>6. FailedSectionsAreRolledBack'
      <3>1. InHand' = InHand
        BY <2>1 DEF InHand
      <3> QED
        BY <2>1, <3>1, GeometryIsFixed DEF ProtectInv, FailedSectionsAreRolledBack, InitialXP
    <2> QED
      BY <2>1, <2>2, <2>3, <2>4, <2>5, <2>6, GeometryIsFixed DEF ProtectInv
  <1> QED
    BY <1>1, SkipKeepsProtectInv, SetReadOnlyKeepsProtectInv,
       ClearNoExecuteKeepsProtectInv, RollBackKeepsProtectInv DEF ProtectNext

LEMMA ProtectInvariant == ProtectSpec => []ProtectInv
  BY InitEstablishesProtectInv, StepKeepsProtectInv, PTL DEF ProtectSpec

-----------------------------------------------------------------------------
\* Type correctness of the protection loop.
THEOREM ProtectTypeCorrect == ProtectSpec => []ProtectTypeOK
  <1>1. ProtectInv => ProtectTypeOK
    BY DEF ProtectInv
  <1> QED
    BY <1>1, ProtectInvariant, PTL

\* The log never claims more than the page tables hold: a section reported
\* as RO+X stays so for the rest of the loop, but for pages on which the log
\* says that a later section could not be protected.
THEOREM ProtectReportIsTrue == ProtectSpec => []ReportedSectionsAreProtected
  BY ProtectInvariant, PTL DEF ProtectInv

\* A section that is neither reported nor stuck left no trace: every changed
\* attribute is that of a section that is, whether or not they share pages.
THEOREM ProtectRollsBack == ProtectSpec => []FailedSectionsAreRolledBack
  BY ProtectInvariant, PTL DEF ProtectInv

\* The pages of the kernel are pages of the address space.
LEMMA ImagePagesExist ==
  ASSUME kernel \in Image, base \in Addr, IsMapped(kernel, base)
  PROVE  ImagePages \subseteq Pages
  <1> DEFINE q == base \div PageSize
             n == PageCount(kernel.size)
             m == AddrMax \div PageSize
  <1>1. /\ PageSize \in Nat \ {0} /\ AddrMax \in Nat /\ kernel.size \in Nat /\ base \in Nat
    BY PageSizeAssumption, AddrMaxAssumption DEF Image, Addr
  <1>2. q \in Nat /\ m \in Nat
    BY <1>1
  <1>3. n \in Int
    BY <1>1 DEF PageCount
  <1>4. base = q * PageSize
    BY <1>1 DEF IsMapped
  <1>5. AddrMax < m * PageSize + PageSize
    BY <1>1
  <1>6. base + n * PageSize <= AddrMax + 1
    BY DEF IsMapped, RoundUp
  <1>7. q + n - 1 <= m
    <2> SUFFICES ASSUME q + n - 1 >= m + 1 PROVE FALSE
      BY <1>2, <1>3
    <2> HIDE DEF q, n, m
    <2>1. (q + n) * PageSize >= (m + 2) * PageSize
      BY <1>1, <1>2, <1>3
    <2>2. (q + n) * PageSize = q * PageSize + n * PageSize
      BY <1>1, <1>2, <1>3
    <2>3. (m + 2) * PageSize = m * PageSize + 2 * PageSize
      BY <1>1, <1>2
    <2> QED
      BY <1>1, <1>2, <1>3, <1>4, <1>5, <1>6, <2>1, <2>2, <2>3
  <1> QED
    BY <1>2, <1>3, <1>7 DEF ImagePages, Pages

LEMMA NeverWritableAndExecutable ==
  ASSUME ProtectInv
  PROVE  WriteXorExecute
  <1> SUFFICES ASSUME DefaultNX, NEW page \in ImagePages \ (ro \cup xp)
               PROVE  \E i \in reported : page \in PagesOf(Section(i)) /\ UndoneBehind(i, page)
    BY DEF WriteXorExecute
  <1>1. page \in InitialXP \ xp
    BY ImagePagesExist DEF ProtectInv, ProtectTypeOK, InitialXP
  <1>2. PICK i \in reported : page \in PagesOf(Section(i))
    BY <1>1 DEF ProtectInv, FailedSectionsAreRolledBack, PagesOfAll
  <1> QED
    BY <1>2 DEF ProtectInv, ReportedSectionsAreProtected

\* No page of the kernel is ever writable and executable, on firmware whose
\* pages start non-executable, but for the pages the log excuses.
THEOREM ProtectWriteXorExecute == ProtectSpec => []WriteXorExecute
  BY NeverWritableAndExecutable, ProtectInvariant, PTL

-----------------------------------------------------------------------------
(* Whole pages: what rounding the length of a section up can reach.        *)

LEMMA AlignedAddress ==
  ASSUME NEW a \in Nat, a % PageSize = 0
  PROVE  a \div PageSize \in Nat /\ a = (a \div PageSize) * PageSize
  BY PageSizeAssumption

\* PageCount is the least number of pages that hold n bytes.
LEMMA PageCountBounds ==
  ASSUME NEW n \in Nat
  PROVE  /\ PageCount(n) \in Nat
         /\ n <= PageCount(n) * PageSize
         /\ PageCount(n) * PageSize < n + PageSize
  <1> DEFINE m == n + PageSize - 1
  <1>1. m \in Nat /\ PageSize \in Nat \ {0}
    BY PageSizeAssumption
  <1>2. m \div PageSize \in Nat
    BY <1>1
  <1>3. /\ (m \div PageSize) * PageSize <= m
        /\ m < (m \div PageSize) * PageSize + PageSize
    BY <1>1
  <1> QED
    BY <1>1, <1>2, <1>3 DEF PageCount

\* Rounding up is monotone across whole pages: n bytes behind k pages that
\* end within m bytes take no page that m bytes do not take.
LEMMA PagesFit ==
  ASSUME NEW k \in Int, NEW n \in Nat, NEW m \in Nat, k * PageSize + n <= m
  PROVE  k + PageCount(n) <= PageCount(m)
  <1>1. /\ PageCount(n) \in Nat /\ PageCount(m) \in Nat /\ PageSize \in Nat \ {0}
        /\ PageCount(n) * PageSize < n + PageSize
        /\ m <= PageCount(m) * PageSize
    BY PageCountBounds, PageSizeAssumption
  <1> DEFINE x == k + PageCount(n)
             y == PageCount(m)
  <1>2. x \in Int /\ y \in Int
    BY <1>1
  <1>3. x * PageSize = k * PageSize + PageCount(n) * PageSize
    BY <1>1
  <1>4. x * PageSize < y * PageSize + PageSize
    <2>1. k * PageSize \in Int /\ PageCount(n) * PageSize \in Int /\ PageCount(m) * PageSize \in Int
      BY <1>1
    <2> QED
      BY <1>1, <1>3, <2>1
  <1> HIDE DEF x, y
  <1>5. ~ (x >= y + 1)
    <2> SUFFICES ASSUME x >= y + 1 PROVE FALSE
      OBVIOUS
    <2>1. x * PageSize >= (y + 1) * PageSize
      BY <1>1, <1>2
    <2>2. (y + 1) * PageSize = y * PageSize + PageSize
      BY <1>1, <1>2
    <2>3. x * PageSize \in Int /\ y * PageSize \in Int
      BY <1>1, <1>2
    <2> QED
      BY <1>1, <1>4, <2>1, <2>2, <2>3
  <1> QED
    BY <1>2, <1>5 DEF x, y

LEMMA CodeBaseIsNat ==
  ASSUME kernel \in Image, base \in Addr, NEW i \in 1 .. Len(kernel.sections)
  PROVE  CodeBase(Section(i)) \in Nat /\ Section(i).virtual_size \in Nat
  <1>1. Section(i) \in SectionHeader /\ kernel.base_address \in Nat
    BY DEF Section, Image
  <1>2. SaturatingOffset(Section(i)) \in Nat
    BY <1>1 DEF SaturatingOffset, DestOffset, SectionHeader
  <1> QED
    BY <1>1, <1>2, AddrMaxAssumption DEF CodeBase, Addr, SectionHeader

\* An aligned section of a mapped kernel only has pages of the allocation.
LEMMA AlignedSectionInsideImage ==
  ASSUME kernel \in Image, base \in Addr, IsMapped(kernel, base),
         NEW i \in 1 .. Len(kernel.sections), CodeBase(Section(i)) % PageSize = 0
  PROVE  PagesOf(Section(i)) \subseteq ImagePages
  <1> DEFINE s == Section(i)
             first == CodeBase(s) \div PageSize
             q == base \div PageSize
  <1>1. /\ PageSize \in Nat \ {0} /\ base \in Nat /\ kernel.size \in Nat
        /\ CodeBase(s) \in Nat /\ s.virtual_size \in Nat
    BY PageSizeAssumption, AddrMaxAssumption, CodeBaseIsNat DEF Image, Addr
  <1>2. s \in SectionHeader /\ kernel.base_address \in Nat
    BY DEF Section, Image
  <1>3. InsideImage(kernel, s)
    BY DEF IsMapped, Mappable, Section
  <1>4. CodeBase(s) = base + DestOffset(kernel, s) /\ DestOffset(kernel, s) \in Nat
    BY <1>2, <1>3 DEF InsideImage, CodeBase, SaturatingOffset, DestOffset, SectionHeader
  <1>5. /\ base = q * PageSize /\ CodeBase(s) = first * PageSize
        /\ q \in Nat /\ first \in Nat
    BY <1>1, AlignedAddress DEF IsMapped
  <1>6. first >= q
    <2>1. first * PageSize >= q * PageSize
      BY <1>1, <1>4, <1>5
    <2> HIDE DEF first, q
    <2>2. first < q => first * PageSize < q * PageSize
      BY <1>1, <1>5
    <2>3. first * PageSize \in Int /\ q * PageSize \in Int
      BY <1>1, <1>5
    <2> QED
      BY <1>5, <2>1, <2>2, <2>3
  <1>7. (first - q) * PageSize = CodeBase(s) - base
    <2> HIDE DEF first, q
    <2>1. (first - q) * PageSize = first * PageSize - q * PageSize
      BY <1>1, <1>5
    <2> QED
      BY <1>1, <1>4, <1>5, <2>1
  <1>8. (first - q) * PageSize + s.virtual_size <= kernel.size
    <2>1. (first - q) * PageSize = DestOffset(kernel, s)
      BY <1>1, <1>4, <1>7
    <2> HIDE DEF first, q
    <2> QED
      BY <1>3, <2>1 DEF InsideImage
  <1>9. (first - q) + PageCount(s.virtual_size) <= PageCount(kernel.size)
    <2>1. first - q \in Int
      BY <1>5
    <2> HIDE DEF first, q
    <2> QED
      BY <1>1, <1>8, <2>1, PagesFit
  <1>10. PageCount(s.virtual_size) \in Nat /\ PageCount(kernel.size) \in Nat
    BY <1>1, PageCountBounds
  <1>11. /\ PagesOf(s) = first .. first + PageCount(s.virtual_size) - 1
         /\ ImagePages = q .. q + PageCount(kernel.size) - 1
    BY DEF PagesOf, ImagePages
  <1> HIDE DEF first, q, s
  <1>12. PagesOf(s) \subseteq ImagePages
    BY <1>5, <1>6, <1>9, <1>10, <1>11
  <1> QED
    BY <1>12 DEF s

\* Aligned sections whose bytes do not meet share no page.
LEMMA AlignedSectionsShareNoPage ==
  ASSUME kernel \in Image, base \in Addr, PageAligned,
         NEW i \in 1 .. Len(kernel.sections), NEW j \in 1 .. Len(kernel.sections), i # j
  PROVE  PagesOf(Section(i)) \cap PagesOf(Section(j)) = {}
  <1>1. ASSUME NEW k \in 1 .. Len(kernel.sections), NEW l \in 1 .. Len(kernel.sections),
               CodeBase(Section(k)) + Section(k).virtual_size <= CodeBase(Section(l))
        PROVE  PagesOf(Section(k)) \cap PagesOf(Section(l)) = {}
    <2> DEFINE p == CodeBase(Section(k)) \div PageSize
               r == CodeBase(Section(l)) \div PageSize
               n == Section(k).virtual_size
    <2>1. /\ PageSize \in Nat \ {0} /\ n \in Nat
          /\ CodeBase(Section(k)) \in Nat /\ CodeBase(Section(l)) \in Nat
      BY PageSizeAssumption, CodeBaseIsNat
    <2>2. /\ p \in Nat /\ r \in Nat
          /\ CodeBase(Section(k)) = p * PageSize /\ CodeBase(Section(l)) = r * PageSize
      BY <2>1, AlignedAddress DEF PageAligned
    <2>3. p * PageSize + n <= r * PageSize
      BY <1>1, <2>2
    <2>4. p + PageCount(n) <= PageCount(r * PageSize)
      BY <2>1, <2>2, <2>3, PagesFit
    <2>5. PageCount(r * PageSize) <= r
      <3> HIDE DEF r
      <3>1. r * PageSize \in Nat
        BY <2>1, <2>2
      <3>2. /\ PageCount(r * PageSize) \in Nat
            /\ PageCount(r * PageSize) * PageSize < r * PageSize + PageSize
        BY <3>1, PageCountBounds
      <3> DEFINE m == PageCount(r * PageSize)
      <3> HIDE DEF m
      <3>3. m \in Nat /\ m * PageSize < r * PageSize + PageSize
        BY <3>2 DEF m
      <3>4. ~ (m >= r + 1)
        <4> SUFFICES ASSUME m >= r + 1 PROVE FALSE
          OBVIOUS
        <4>1. m * PageSize >= (r + 1) * PageSize
          BY <2>1, <2>2, <3>3
        <4>2. (r + 1) * PageSize = r * PageSize + PageSize
          BY <2>1, <2>2
        <4> QED
          BY <2>1, <2>2, <3>1, <3>3, <4>1, <4>2
      <3> QED
        BY <2>2, <3>3, <3>4 DEF m
    <2>6. PageCount(n) \in Nat /\ PageCount(r * PageSize) \in Nat
      BY <2>1, <2>2, PageCountBounds
    <2>7. /\ PagesOf(Section(k)) = p .. p + PageCount(n) - 1
          /\ \A page \in PagesOf(Section(l)) : page \in Int /\ page >= r
      BY <2>2 DEF PagesOf
    <2> HIDE DEF p, r, n
    <2> QED
      BY <2>2, <2>4, <2>5, <2>6, <2>7
  <1> QED
    BY <1>1 DEF PageAligned

LEMMA PageOfAddress ==
  ASSUME NEW a \in Nat
  PROVE  /\ a \div PageSize \in Nat
         /\ (a \div PageSize) * PageSize <= a
         /\ a < (a \div PageSize) * PageSize + PageSize
  BY PageSizeAssumption

\* A byte of an aligned section lies on one of its pages.
LEMMA ByteIsOnPage ==
  ASSUME kernel \in Image, base \in Addr, NEW i \in 1 .. Len(kernel.sections),
         CodeBase(Section(i)) % PageSize = 0,
         NEW a \in CodeBase(Section(i)) .. CodeBase(Section(i)) + Section(i).virtual_size - 1
  PROVE  a \div PageSize \in PagesOf(Section(i))
  <1> DEFINE q == CodeBase(Section(i)) \div PageSize
             n == PageCount(Section(i).virtual_size)
             p == a \div PageSize
  <1>1. /\ PageSize \in Nat \ {0} /\ CodeBase(Section(i)) \in Nat
        /\ Section(i).virtual_size \in Nat
    BY PageSizeAssumption, CodeBaseIsNat
  <1>2. q \in Nat /\ CodeBase(Section(i)) = q * PageSize
    BY <1>1, AlignedAddress
  <1>3. n \in Nat /\ Section(i).virtual_size <= n * PageSize
    BY <1>1, PageCountBounds
  <1>4. /\ a \in Nat /\ CodeBase(Section(i)) <= a
        /\ a < CodeBase(Section(i)) + Section(i).virtual_size
    BY <1>1
  <1>5. p \in Nat /\ p * PageSize <= a /\ a < p * PageSize + PageSize
    BY <1>4, PageOfAddress
  <1> HIDE DEF q, n, p
  <1>6. p * PageSize \in Int /\ q * PageSize \in Int /\ n * PageSize \in Int
    BY <1>1, <1>2, <1>3, <1>5
  <1>7. q * PageSize <= a /\ a < q * PageSize + n * PageSize
    BY <1>1, <1>2, <1>3, <1>4, <1>6
  <1>8. PagesOf(Section(i)) = q .. q + n - 1
    BY DEF PagesOf, q, n
  <1>9. ~ (p < q)
    <2> SUFFICES ASSUME p + 1 <= q PROVE FALSE
      BY <1>2, <1>5
    <2>1. (p + 1) * PageSize <= q * PageSize
      BY <1>1, <1>2, <1>5
    <2>2. (p + 1) * PageSize = p * PageSize + PageSize
      BY <1>1, <1>5
    <2> QED
      BY <1>1, <1>4, <1>5, <1>6, <1>7, <2>1, <2>2
  <1>10. ~ (p >= q + n)
    <2> SUFFICES ASSUME p >= q + n PROVE FALSE
      OBVIOUS
    <2>1. p * PageSize >= (q + n) * PageSize
      BY <1>1, <1>2, <1>3, <1>5
    <2>2. (q + n) * PageSize = q * PageSize + n * PageSize
      BY <1>1, <1>2, <1>3
    <2> QED
      BY <1>4, <1>5, <1>6, <1>7, <2>1, <2>2
  <1>11. p \in PagesOf(Section(i))
    BY <1>2, <1>3, <1>5, <1>8, <1>9, <1>10
  <1> QED
    BY <1>11 DEF p

\* Where code is not executable once the loop is behind it, the log names it.
LEMMA FaultingCodeIsNamed ==
  ASSUME ProtectInv, NEW i \in CodeSections \cap 1 .. cursor,
         NEW a \in CodeBase(Section(i)) .. CodeBase(Section(i)) + Section(i).virtual_size - 1,
         a \div PageSize \in xp
  PROVE  i \in warned
  <1> SUFFICES ASSUME i \in reported PROVE FALSE
    BY DEF ProtectInv, Logged
  <1>1. a \div PageSize \in PagesOf(Section(i))
    BY ByteIsOnPage DEF ProtectInv, ProtectTypeOK, Logged, CodeSections
  <1> QED
    BY <1>1 DEF ProtectInv, ReportedSectionsAreProtected

-----------------------------------------------------------------------------
\* Which pages have changed, whether or not code sections share pages.
ChangesAreCode ==
  /\ ChangesStayInsideImage
  /\ DataStaysWritable

LEMMA SectionsAreFixed ==
  ASSUME UNCHANGED <<kernel, base>>
  PROVE  /\ ImagePages' = ImagePages
         /\ PageAligned' <=> PageAligned
         /\ \A i : PagesOf(Section(i))' = PagesOf(Section(i))
         /\ CodeSections' = CodeSections
  <1>1. \A i : CodeBase(Section(i))' = CodeBase(Section(i))
    BY DEF CodeBase, Section, SaturatingOffset
  <1>2. PageAligned' <=> PageAligned
    BY <1>1 DEF PageAligned, Section
  <1>3. \A i : PagesOf(Section(i))' = PagesOf(Section(i))
    BY <1>1 DEF PagesOf, Section
  <1> QED
    BY <1>2, <1>3, CodeIsFixed DEF ImagePages

\* A step marks at most the pages of the aligned code section it is at.
LEMMA StepChangesCurrent ==
  ASSUME ProtectInv, [ProtectNext]_protectVars
  PROVE  /\ UNCHANGED <<kernel, base>>
         /\ \/ ro' \subseteq ro /\ xp' = xp
            \/ /\ cursor + 1 \in CodeSections
               /\ CodeBase(Section(cursor + 1)) % PageSize = 0
               /\ ro' \subseteq ro \cup PagesOf(Section(cursor + 1))
               /\ xp \ xp' \subseteq PagesOf(Section(cursor + 1))
  <1>1. Len(kernel.sections) \in Nat /\ cursor \in 0 .. Len(kernel.sections)
    BY SectionCount DEF ProtectInv, ProtectTypeOK
  <1>2. CASE SkipSection \/ UNCHANGED protectVars
    BY <1>2 DEF SkipSection, protectVars
  <1>3. CASE SetReadOnly
    <2>1. cursor + 1 \in CodeSections
      BY <1>1, <1>3 DEF SetReadOnly, AtSection, CodeSections, Current, Section
    <2> QED
      BY <1>3, <2>1 DEF SetReadOnly, FirmwareAccepts, Current, Section
  <1>4. CASE ClearNoExecute
    <2>1. cursor + 1 \in CodeSections
      BY <1>4 DEF ClearNoExecute, ProtectInv, ProtectTypeOK
    <2> QED
      BY <1>4, <2>1 DEF ClearNoExecute, FirmwareAccepts, Current, Section
  <1>5. CASE RollBack
    BY <1>5 DEF RollBack, Continue, Undo
  <1> QED
    BY <1>2, <1>3, <1>4, <1>5 DEF ProtectNext

LEMMA StepKeepsChangesAreCode ==
  ASSUME ProtectInv, ChangesAreCode, [ProtectNext]_protectVars
  PROVE  ChangesAreCode'
  <1> DEFINE c == cursor + 1
  <1>1. UNCHANGED <<kernel, base>>
    BY StepChangesCurrent
  <1>2. CASE ro' \subseteq ro /\ xp' = xp
    BY <1>1, <1>2, SectionsAreFixed
    DEF ChangesAreCode, ChangesStayInsideImage, DataStaysWritable, InitialXP
  <1>3. CASE /\ c \in CodeSections
             /\ CodeBase(Section(c)) % PageSize = 0
             /\ ro' \subseteq ro \cup PagesOf(Section(c))
             /\ xp \ xp' \subseteq PagesOf(Section(c))
    <2>1. /\ kernel \in Image /\ base \in Addr /\ IsMapped(kernel, base)
          /\ c \in 1 .. Len(kernel.sections)
      BY <1>3 DEF ProtectInv, ProtectTypeOK, CodeSections
    <2>2. PagesOf(Section(c)) \subseteq ImagePages
      BY <1>3, <2>1, AlignedSectionInsideImage
    <2>3. ChangesStayInsideImage'
      BY <1>1, <1>3, <2>2, SectionsAreFixed
      DEF ChangesAreCode, ChangesStayInsideImage, InitialXP
    <2>4. DataStaysWritable'
      <3> SUFFICES
            ASSUME PageAligned, NEW i \in (1 .. Len(kernel.sections)) \ CodeSections
            PROVE  PagesOf(Section(i)) \cap ro' = {}
        BY <1>1, SectionsAreFixed DEF DataStaysWritable
      <3>1. PagesOf(Section(i)) \cap ro = {}
        BY DEF ChangesAreCode, DataStaysWritable
      <3>2. PagesOf(Section(i)) \cap PagesOf(Section(c)) = {}
        BY <1>3, <2>1, AlignedSectionsShareNoPage
      <3> QED
        BY <1>3, <3>1, <3>2
    <2> QED
      BY <2>3, <2>4 DEF ChangesAreCode
  <1> QED
    BY <1>2, <1>3, StepChangesCurrent

LEMMA ChangesInvariant == ProtectSpec => []ChangesAreCode
  <1>1. ProtectInit => ChangesAreCode
    BY DEF ProtectInit, AttributesInit, ChangesAreCode, ChangesStayInsideImage,
           DataStaysWritable
  <1>2. ProtectInv /\ ChangesAreCode /\ [ProtectNext]_protectVars => ChangesAreCode'
    BY StepKeepsChangesAreCode
  <1> QED
    BY <1>1, <1>2, ProtectInvariant, PTL DEF ProtectSpec

\* Rounding lengths up to whole pages never reaches a page outside the
\* kernel's allocation, whatever the layout.
THEOREM ProtectStaysInside == ProtectSpec => []ChangesStayInsideImage
  BY ChangesInvariant, PTL DEF ChangesAreCode

\* Where sections are aligned and apart, no page of data becomes read-only.
THEOREM ProtectLeavesData == ProtectSpec => []DataStaysWritable
  BY ChangesInvariant, PTL DEF ChangesAreCode
=============================================================================
