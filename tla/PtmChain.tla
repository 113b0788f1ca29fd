------------------------------ MODULE PtmChain ------------------------------
(***************************************************************************)
(* collectors/lspci.py: what annotate() learns about Precision Time        *)
(* Measurement on the path from the root port down to a network card, and  *)
(* the verdict of the chain rule on it.                                    *)
(*                                                                         *)
(* A device is what its configuration space holds.  A listing is how much  *)
(* of it `lspci -vvv` printed.  A node is what the report knows: every     *)
(* answer is "yes", "no" or "unknown" (True, False, None).                 *)
(***************************************************************************)
EXTENDS Integers, Sequences

Tri == {"yes", "no", "unknown"}
AsTri(b) == IF b THEN "yes" ELSE "no"

\* A PTMCap line prints the three roles together; a device without the
\* capability has none of them and is not enabled.
Devices ==
  {d \in [ptm : BOOLEAN, requester : BOOLEAN, responder : BOOLEAN,
          root : BOOLEAN, enabled : BOOLEAN] :
     ~d.ptm => ~(d.requester \/ d.responder \/ d.root \/ d.enabled)}

\* full: as root.  header: the capability is named and its registers are not
\* decoded.  denied: "Capabilities: <access denied>".  missing: no such block,
\* because the device is not listed or the whole command failed.
Listings == {"full", "header", "denied", "missing"}

Nodes == [present : Tri, requester : Tri, responder : Tri, root : Tri, enabled : Tri]

UnknownNode == [present |-> "unknown", requester |-> "unknown", responder |-> "unknown",
                root |-> "unknown", enabled |-> "unknown"]

\* Deviation for a mutant: a configuration space that could not be read counts
\* as one without the capability.
ReadNode_DeniedIsAbsent(dev, listing) ==
  IF listing = "full" THEN
    [present |-> AsTri(dev.ptm), requester |-> AsTri(dev.requester),
     responder |-> AsTri(dev.responder), root |-> AsTri(dev.root), enabled |-> AsTri(dev.enabled)]
  ELSE IF listing = "denied" THEN [f \in DOMAIN UnknownNode |-> "no"]
  ELSE UnknownNode
\* The node of one device, from its lspci block.
ReadNode(dev, listing) ==
  IF listing = "full" \/ (listing = "header" /\ ~dev.ptm) THEN
    [present |-> AsTri(dev.ptm), requester |-> AsTri(dev.requester),
     responder |-> AsTri(dev.responder), root |-> AsTri(dev.root), enabled |-> AsTri(dev.enabled)]
  ELSE IF listing = "header" THEN [UnknownNode EXCEPT !.present = "yes"]
  ELSE UnknownNode

\* _sysfs_overlay, on a kernel that has a ptm_enabled file for this device: the
\* file decides `enabled`, and shows that the capability is there when lspci
\* could not tell.
Overlay(node, dev, hasFile) ==
  IF ~hasFile THEN node
  ELSE [node EXCEPT !.enabled = AsTri(dev.enabled),
                    !.present = IF @ = "unknown" THEN "yes" ELSE @]

\* The level nearest the root port.
First(levels) == CHOOSE i \in levels : \A j \in levels : i <= j

\* Deviation for a mutant: a level that could not be read is stepped over.
ChainOk_StepOver(nodes) ==
  LET endpoint == nodes[Len(nodes)]
  IN IF endpoint.requester # "yes" THEN endpoint.requester
     ELSE AsTri(/\ \A i \in 1 .. Len(nodes) - 1 : nodes[i].responder # "no"
                /\ \E i \in 1 .. Len(nodes) : nodes[i].root = "yes")
\* _chain_ok: the endpoint first; then the levels above it, from the top, up to
\* the first that is not known to be a responder; then the Root flag.
ChainOk(nodes) ==
  LET n == Len(nodes)
      endpoint == nodes[n]
      stops == {i \in 1 .. n - 1 : nodes[i].responder # "yes"}
  IN IF n = 0 THEN "unknown"
     ELSE IF endpoint.requester # "yes" THEN endpoint.requester
     ELSE IF stops # {} THEN nodes[First(stops)].responder
     ELSE IF \A i \in 1 .. n : nodes[i].root = "unknown"
       THEN (IF n = 1 THEN "unknown" ELSE "no")
     ELSE AsTri(\E i \in 1 .. n : nodes[i].root = "yes")

\* Deviation for a mutant: the top of the path is blamed for any level.
BrokenLink_BlamesTop(nodes) ==
  IF nodes[Len(nodes)].requester = "no" THEN <<"requester", Len(nodes)>>
  ELSE IF \E i \in 1 .. Len(nodes) - 1 : nodes[i].responder = "no" THEN <<"responder", 1>>
  ELSE <<"root", 0>>
\* readiness._broken_link: the level that is named when the verdict is "no",
\* as the role it lacks and its place; place 0 is the path as a whole.
BrokenLink(nodes) ==
  LET n == Len(nodes)
      deaf == {i \in 1 .. n - 1 : nodes[i].responder = "no"}
  IN IF n = 0 THEN <<"path", 0>>
     ELSE IF nodes[n].requester = "no" THEN <<"requester", n>>
     ELSE IF deaf # {} THEN <<"responder", First(deaf)>>
     ELSE IF \A i \in 1 .. n : nodes[i].root # "yes" THEN <<"root", 0>>
     ELSE <<"incomplete", 0>>

-----------------------------------------------------------------------------
(* Reference: the rule itself, on the devices                              *)

\* README.md:132-134: the endpoint is a requester, every bridge above it is a
\* responder, and a level is the root.  The header of lspci.py says more (line
\* 12: the top of the path is the root); the code takes the flag on any level.
Carries(devices) ==
  /\ devices[Len(devices)].requester
  /\ \A i \in 1 .. Len(devices) - 1 : devices[i].responder
  /\ \E i \in 1 .. Len(devices) : devices[i].root

\* What BrokenLink says is so.
TrueBreak(devices, what) ==
  \/ what[1] = "requester" /\ what[2] = Len(devices) /\ ~devices[what[2]].requester
  \/ what[1] = "responder" /\ what[2] \in 1 .. Len(devices) - 1 /\ ~devices[what[2]].responder
  \/ what[1] = "root" /\ \A i \in 1 .. Len(devices) : ~devices[i].root
=============================================================================
