---------------------------- MODULE MCLabelStore ----------------------------
(* Instances of LabelStore for TLC. *)
EXTENDS LabelStore

CONSTANTS p1, p2, k1, k2, gnss, pps, none

MCKeys == {k1, k2}
MCTexts == {gnss, pps}
Labelled == [k \in MCKeys |-> IF k = k1 THEN gnss ELSE none]
CleanFirst == {Nothing, Labelled}
AnyFirst == {Nothing, Labelled, Foreign}
=============================================================================
