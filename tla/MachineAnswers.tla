--------------------------- MODULE MachineAnswers ---------------------------
(***************************************************************************)
(* What collect() promises about everything that ports share (the lspci    *)
(* pass, the kernel answer, the ethtool --json probe, the static tables):  *)
(* the machine is asked once, and every report, for every port, repeats    *)
(* that one answer.                                                        *)
(***************************************************************************)
EXTENDS Integers

CONSTANTS Keys, Collections, Answers

VARIABLES
  shared,  \* key -> the machine's answer, or NotAsked
  report   \* collection -> Pending, or the answers shown: key -> set of answers

NotAsked == -1
Pending  == [k \in Keys |-> {NotAsked}]

Init ==
  /\ shared = [k \in Keys |-> NotAsked]
  /\ report = [c \in Collections |-> Pending]

\* The machine is asked, once for each key.
Ask(k) ==
  /\ shared[k] = NotAsked
  /\ \E a \in Answers : shared' = [shared EXCEPT ![k] = a]
  /\ UNCHANGED report

\* A report is delivered whole.  A port may leave an answer out, but no port
\* shows another one.
Deliver(c) ==
  /\ report[c] = Pending
  /\ \E shown \in SUBSET {k \in Keys : shared[k] # NotAsked} :
       report' = [report EXCEPT ![c] =
                    [k \in Keys |-> IF k \in shown THEN {shared[k]} ELSE {}]]
  /\ UNCHANGED shared

Next == (\E k \in Keys : Ask(k)) \/ (\E c \in Collections : Deliver(c))

Spec == Init /\ [][Next]_<<shared, report>>
=============================================================================
