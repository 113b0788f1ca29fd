------------------------------- MODULE MCApp -------------------------------
(* Instances of App for TLC. *)
EXTENDS App

CONSTANTS gnss, w1, w2
=============================================================================
