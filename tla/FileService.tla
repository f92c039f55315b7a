----------------------------- MODULE FileService -----------------------------
(***************************************************************************)
(* What installing LoadFile2 promises its consumers: one file is offered,  *)
(* at most once, and whoever obtains data obtains that file, all of it.    *)
(* LoadFile2.tla implements it.                                            *)
(***************************************************************************)
CONSTANTS
  Consumers,   \* the clients of the protocol
  Files,       \* the files that may be offered, as sequences of bytes
  NoFile       \* nothing offered or nothing received

VARIABLES
  offered,     \* the file on offer
  received     \* what the last call of each consumer brought it

serviceVars == <<offered, received>>

ServiceTypeOK ==
  /\ offered \in Files \cup {NoFile}
  /\ received \in [Consumers -> Files \cup {NoFile}]

ServiceInit ==
  /\ offered = NoFile
  /\ received = [c \in Consumers |-> NoFile]

Offer ==
  /\ offered = NoFile
  /\ offered' \in Files
  /\ UNCHANGED received

\* A call brings the file or nothing. An empty file cannot be told from no
\* file: its consumers get nothing.
Receive(c) ==
  /\ offered # NoFile
  /\ \E answer \in ({offered} \ {<<>>}) \cup {NoFile} :
       received' = [received EXCEPT ![c] = answer]
  /\ UNCHANGED offered

ServiceNext == Offer \/ \E c \in Consumers : Receive(c)

ServiceSpec == ServiceInit /\ [][ServiceNext]_serviceVars
=============================================================================
