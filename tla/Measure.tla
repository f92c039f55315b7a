-------------------------------- MODULE Measure --------------------------------
(***************************************************************************)
(* src/tpm2.rs and the loop of src/main.rs around it: every section of the *)
(* UKI is measured into PCR 11 as two events, its name and its data. A     *)
(* failure is only warned about, and the loop goes on with the next        *)
(* section. Stub.tla runs these steps, once per start of the stub; the PCR *)
(* keeps the events of every start since power-on.                         *)
(*                                                                         *)
(* The TCG2 protocol is external. HashLogExtendEvent extends the PCR and   *)
(* then appends to the event log; it may fail before either, or, when the  *)
(* log is full, between the two. The PCR is the sequence of events it was  *)
(* extended with; nothing depends on the log itself.                       *)
(***************************************************************************)
EXTENDS Integers, Sequences

CONSTANT MaxSections   \* bound: the sections a UKI has

ASSUME MaxSectionsAssumption == MaxSections \in Nat

VARIABLES
  attempt,   \* which start of the stub since power-on this is
  count,     \* the number of sections of this UKI
  cursor,    \* the sections the loop is done with
  step,      \* what the current section still has to do
  pcr,       \* the events PCR 11 was extended with
  reports    \* what the loop reported of each section

loopVars    == <<count, cursor, step, reports>>
measureVars == <<loopVars, pcr>>

Event == [attempt : Nat, section : 1 .. MaxSections, part : {"name", "data"}]

TheEvent(what) == [attempt |-> attempt, section |-> cursor + 1, part |-> what]

-----------------------------------------------------------------------------
MeasureInit ==
  /\ count = 0
  /\ cursor = 0
  /\ step = "open"
  /\ pcr = <<>>
  /\ reports = <<>>

\* The loop starts over n sections.
Measures(n) ==
  /\ count' = n
  /\ cursor' = 0
  /\ step' = "open"
  /\ reports' = <<>>
  /\ UNCHANGED pcr

Report(what) ==
  /\ reports' = Append(reports, what)
  /\ cursor' = cursor + 1
  /\ step' = "open"

\* An error of measure_section costs its section only. Plausible slips: it
\* ends the loop; the section is tried again.
SkipStops == cursor' = count /\ step' = "open" /\ UNCHANGED reports

SkipRetries == step' = "open" /\ UNCHANGED <<cursor, reports>>

Skip == Report("skipped")

\* Locating a TCG2 handle or opening its protocol may fail.
OpenTcg ==
  /\ step = "open"
  /\ cursor < count
  /\ \/ step' = "name" /\ UNCHANGED <<cursor, reports>>
     \/ Skip
  /\ UNCHANGED <<count, pcr>>

\* External: HashLogExtendEvent succeeds or fails.
Extended(event) == pcr' = Append(pcr, event)

Refused(event) == UNCHANGED pcr \/ pcr' = Append(pcr, event)

ExtendName ==
  /\ step = "name"
  /\ \/ Extended(TheEvent("name")) /\ step' = "data" /\ UNCHANGED <<cursor, reports>>
     \/ Refused(TheEvent("name")) /\ Skip
  /\ UNCHANGED count

ExtendData ==
  /\ step = "data"
  /\ \/ Extended(TheEvent("data")) /\ Report("measured")
     \/ Refused(TheEvent("data")) /\ Skip
  /\ UNCHANGED count

MeasureNext == OpenTcg \/ ExtendName \/ ExtendData

-----------------------------------------------------------------------------
(* Properties, checked of the whole stub.                                  *)

\* Every variable stays in its type, and each section is reported once.
MeasureTypeOK ==
  /\ count \in 0 .. MaxSections
  /\ cursor \in 0 .. count
  /\ step \in {"open", "name", "data"}
  /\ pcr \in Seq(Event)
  /\ reports \in Seq({"measured", "skipped"}) /\ Len(reports) = cursor

Earlier(e, f) ==
  \/ e.attempt < f.attempt
  \/ e.attempt = f.attempt /\ e.section < f.section
  \/ e.attempt = f.attempt /\ e.section = f.section /\ e.part = "name" /\ f.part = "data"

InOrder(log) ==
  \A j, k \in 1 .. Len(log) : j < k => Earlier(log[j], log[k])

DataFollowsName(log) ==
  \A k \in 1 .. Len(log) :
    log[k].part = "data" => k > 1 /\ log[k - 1] = [log[k] EXCEPT !.part = "name"]

\* Whoever replays the UKIs that were started gets the same PCR: the events
\* come in the order of the starts and of the sections, none is repeated, no
\* data stands without its name right before it, and a section reported as
\* measured is there, whatever calls failed in between and wherever an
\* earlier start gave up.
PcrReplays ==
  /\ InOrder(pcr)
  /\ DataFollowsName(pcr)
  /\ \A i \in 1 .. cursor : reports[i] = "measured" =>
       \E k \in 1 .. Len(pcr) :
         pcr[k] = [attempt |-> attempt, section |-> i, part |-> "data"]
=============================================================================
