-------------------------------- MODULE Shown --------------------------------
(***************************************************************************)
(* What is told of a port beside its rows: the PTM cell of the ports table *)
(* and its reasons (tui/format.py, tui/ports.py), the topology screen, the *)
(* colours of the Graphviz export, and the linuxptp drafts                 *)
(* (export/linuxptp.py).  Each of them looks at the facts and not at the   *)
(* rows, with conditions of its own.                                       *)
(***************************************************************************)
EXTENDS Readiness

\* Deviation for a mutant: a capability that is on counts for the whole chain.
PtmCell_Trusts(f) ==
  CASE Endpoint(f).enabled = "yes" -> "on"
    [] Endpoint(f).requester = "unknown" -> "n/a (root)"
    [] Endpoint(f).requester = "yes" -> "off"
    [] OTHER -> "no"
\* ptm_cell.
PtmCell(f) ==
  CASE Endpoint(f).enabled = "yes" -> (IF f.chainOk = "yes" THEN "on" ELSE "on?")
    [] Endpoint(f).enabled # "yes" /\ Endpoint(f).requester = "unknown" -> "n/a (root)"
    [] Endpoint(f).enabled # "yes" /\ Endpoint(f).requester = "yes" -> "off"
    [] OTHER -> "no"

\* The topology screen's note on a level, and the colour of the level in the
\* Graphviz document.
TopologyNote(node) ==
  CASE node.present = "no" -> "no PTM capability"
    [] node.present = "unknown" -> "PTM ?"
    [] OTHER -> "flags"
Colour(node) ==
  IF node.enabled = "yes" THEN "green"
  ELSE IF /\ node.present = "yes"
          /\ "yes" \in {node.requester, node.responder, node.root} THEN "yellow"
  ELSE "grey"

\* _can_stamp: the port gets a section of ptp4l.conf; _why_not: or this note.
CanStamp(f) == f.phc = "some" /\ "on" \in f.tx /\ f.rx # {}
WhyNot(f) ==
  IF f.phc = "unread" THEN "no answer" ELSE IF f.phc = "none" THEN "no PHC"
  ELSE IF "on" \notin f.tx THEN "no transmit mode" ELSE "no receive filter"
\* _warnings, above the section.
Warnings(f) ==
  (IF "all" \notin f.rx THEN {"filter"} ELSE {})
  \cup (IF f.state # "up" THEN {"link"} ELSE {})
  \cup (IF f.chainOk = "no" THEN {"chain"} ELSE {})
\* twoStepFlag is 0 when every port of the file can do one-step.
OneStepFile(ports) == \A f \in ports : "one-step-sync" \in f.tx

\* Deviation for a mutant: the port of any clock is offered for the PPS.
TakesPps_AnyClock(f) == f.phc = "some"
\* The port gets a section of ts2phc.cfg.
TakesPps(f) == f.ext > 0
=============================================================================
