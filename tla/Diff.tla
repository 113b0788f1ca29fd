-------------------------------- MODULE Diff --------------------------------
(***************************************************************************)
(* diff.py: comparing a report with an earlier one.                        *)
(*                                                                         *)
(* A report is a list of ports.  A port shows its interface name, the      *)
(* permanent address and the current one, each of them None when it could  *)
(* not be read, and what else is watched, which is one field here:         *)
(* setting.                                                                *)
(***************************************************************************)
EXTENDS Integers, Sequences

CONSTANT None

Watched == {"name", "setting", "verdict"}

\* Deviation for a mutant: ports are matched on the interface name.
KeyOf_Name(port) == port.name
\* The key of a port, for --diff and for the labels: the permanent address, else
\* the current one, else the name.
KeyOf(port) ==
  IF port.permaddr # None THEN port.permaddr
  ELSE IF port.mac # None THEN port.mac ELSE port.name

Indices(report) == 1 .. Len(report)
KeysOf(report) == {KeyOf(report[i]) : i \in Indices(report)}
\* _by_key: of two ports with one key, the later one is kept.
ByKey(report, key) ==
  report[CHOOSE i \in Indices(report) :
           /\ KeyOf(report[i]) = key
           /\ \A j \in Indices(report) : KeyOf(report[j]) = key => j <= i]

\* Deviation for a mutant: what is gone is not looked for.
Compare_OneWay(old, new) ==
  [added |-> KeysOf(new) \ KeysOf(old), removed |-> {},
   changed |-> {c \in (KeysOf(old) \cap KeysOf(new)) \X Watched :
                  ByKey(old, c[1])[c[2]] # ByKey(new, c[1])[c[2]]}]
\* compare(): oldest report first.
Compare(old, new) ==
  [added |-> KeysOf(new) \ KeysOf(old),
   removed |-> KeysOf(old) \ KeysOf(new),
   changed |-> {c \in (KeysOf(old) \cap KeysOf(new)) \X Watched :
                  ByKey(old, c[1])[c[2]] # ByKey(new, c[1])[c[2]]}]

NoChange(diff) == diff.added = {} /\ diff.removed = {} /\ diff.changed = {}
=============================================================================
