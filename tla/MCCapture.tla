----------------------------- MODULE MCCapture -----------------------------
(* Instances of Capture for TLC: two ports that share a clock. *)
EXTENDS Capture

CONSTANT v

OneClock == [p \in Ports |-> 1]
Usual == [ports |-> Ports, skip |-> FALSE, ioctl |-> TRUE, virtual |-> FALSE, root |-> FALSE]
MCRecord ==
  {[Usual EXCEPT !.root = TRUE, !.skip = TRUE], [Usual EXCEPT !.skip = TRUE, !.virtual = TRUE],
   [Usual EXCEPT !.ioctl = FALSE], [Usual EXCEPT !.ports = {1}, !.virtual = TRUE]}
MCReplay ==
  {Usual, [Usual EXCEPT !.skip = TRUE, !.virtual = TRUE], [Usual EXCEPT !.skip = TRUE],
   [Usual EXCEPT !.ports = {2}], [Usual EXCEPT !.ioctl = FALSE]}
=============================================================================
