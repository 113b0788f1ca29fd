------------------------------- MODULE MCCli -------------------------------
(* Instances of Cli for TLC. *)
EXTENDS Cli

CONSTANTS c1, c2, eth0, eth1, eth2, gnss, none

Plain == [tui |-> FALSE, list |-> FALSE, replay |-> FALSE, export |-> FALSE, check |-> FALSE, diff |-> FALSE, tty |-> FALSE,
          strict |-> FALSE, record |-> FALSE, only |-> None, pairs |-> << >>]
MCSlots == {<<c1, c2>>}
MCCalls ==
  {[Plain EXCEPT !.export = TRUE],
   [Plain EXCEPT !.export = TRUE, !.only = {eth0}],
   [Plain EXCEPT !.diff = TRUE],
   [Plain EXCEPT !.diff = TRUE, !.only = {eth0}],
   [Plain EXCEPT !.diff = TRUE, !.pairs = <<<<eth0, gnss>>>>],
   [Plain EXCEPT !.check = TRUE, !.only = {eth0}],
   [Plain EXCEPT !.check = TRUE, !.strict = TRUE],
   [Plain EXCEPT !.tty = TRUE, !.record = TRUE],
   [Plain EXCEPT !.list = TRUE],
   [Plain EXCEPT !.record = TRUE, !.replay = TRUE, !.pairs = <<<<eth0, gnss>>>>],
   [Plain EXCEPT !.check = TRUE, !.record = TRUE, !.pairs = <<<<eth0, gnss>>>>],
   [Plain EXCEPT !.export = TRUE, !.pairs = <<<<eth1, gnss>>, <<eth1, none>>, <<eth0, gnss>>>>],
   [Plain EXCEPT !.diff = TRUE, !.pairs = <<<<eth0, gnss>>, <<None, none>>>>]}
=============================================================================
