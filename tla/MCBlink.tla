------------------------------ MODULE MCBlink ------------------------------
(* Instances of Blink for TLC: ports appear between two collections. *)
EXTENDS Blink

CONSTANTS eth0, eth1, eth2

MCReports == {<< >>, <<eth0, eth2>>, <<eth0, eth1, eth2>>}
=============================================================================
