----------------------------- MODULE MCCollect -----------------------------
(* Instances of Collect for TLC.  The collections are numbers only so that  *)
(* they can be told apart; nothing orders them.                            *)
EXTENDS CollectInv

TwoCalls == {1, 2}
OneCall == {1}
=============================================================================
