-------------------------------- MODULE Cli --------------------------------
(***************************************************************************)
(* cli.py: calls of `nicscope`, one after the other, on a machine whose    *)
(* cards are renamed, unplugged, plugged in and degraded between them.     *)
(*                                                                         *)
(* What outlives a call is the label file, the export that --diff reads    *)
(* and the capture file.  main() goes through its steps in order; each of  *)
(* them may end the call.                                                  *)
(*                                                                         *)
(* A card has a permanent address, which the tool cannot always read, or   *)
(* for which it reads a text that is no address; and the port has a        *)
(* current address, which may be that of another card (bonds, the ports of *)
(* a switch).                                                              *)
(*                                                                         *)
(* External: the interface itself (module App); the label file is written  *)
(* in one step here (module LabelStore); what a replay answers (module     *)
(* Capture).                                                               *)
(***************************************************************************)
EXTENDS Diff, FiniteSets

\* None (module Diff) also stands for no export and for no --iface.
CONSTANTS
  Cards,      \* permanent addresses
  Names,      \* interface names
  Texts,      \* user labels
  NoLabel,    \* no user label
  NotSet,     \* what `ethtool -P` prints of a driver without a permanent address
  Verdicts,   \* the readiness verdicts that occur
  Calls,      \* the command lines that are tried
  Slots,      \* the order of the cards: pairs, a strict total order
  MaxChanges, \* bound: changes of the machine
  MaxCalls    \* bound: calls

Results == {"pass", "unknown", "warn", "fail"}
Labels == Texts \cup {NoLabel}

\* A command line.  only: --iface; pairs: --label, a pair without "=" being
\* <<None, NoLabel>>; export: --json or --format; tty: stdout is a terminal;
\* list: --list-labels.
Flags ==
  [tui : BOOLEAN, list : BOOLEAN, replay : BOOLEAN, export : BOOLEAN, check : BOOLEAN,
   diff : BOOLEAN, tty : BOOLEAN, strict : BOOLEAN, record : BOOLEAN, only : (SUBSET Names) \cup {None},
   pairs : Seq((Names \cup {None}) \X Labels)]

ASSUME CliAssumption ==
  /\ Calls \subseteq Flags /\ Calls # {} /\ \A f \in Calls : f.replay => f.record \/ f.list
  /\ IsFiniteSet(Cards) /\ Slots \subseteq Cards \X Cards
  /\ \A c, d \in Cards : <<c, d>> \in Slots <=> c # d /\ <<d, c>> \notin Slots
  /\ \A c, d, e \in Cards : <<c, d>> \in Slots /\ <<d, e>> \in Slots => <<c, e>> \in Slots
  /\ Verdicts \subseteq Results /\ MaxChanges \in Nat /\ MaxCalls \in Nat
  /\ NoLabel \notin Texts /\ None \notin Names \cup Cards /\ Names \cap Cards = {}
  /\ NotSet \notin Names \cup Cards \cup {None}

VARIABLES
  machine,   \* card -> what there is to see of it
  changes,   \* how often the machine changed
  stored,    \* the label file: key -> label
  export,    \* the export that --diff reads: a report, or None
  pc,        \* where the call is
  calls,     \* how many calls there have been
  flags,     \* of the call: its command line
  report,    \* of the call: what collect() returned
  mem,       \* of the call: Labels.entries
  applied,   \* of the call: how many of its --label pairs are in mem
  exit,      \* of the call: its exit code
  captured,  \* of the call: is the capture written
  found,     \* of the call: what --diff found
  before     \* of the call: the label file when it began (history)

callVars == <<flags, report, mem, applied, exit, captured, found, before>>
vars == <<machine, changes, stored, export, pc, calls, callVars>>

\* perm: what is read for the permanent address: it, nothing, or another text.
States == [plugged : BOOLEAN, name : Names, setting : {"old", "new"}, result : Verdicts,
           perm : {"own", "nothing", "text"}, mac : Cards \cup {None}]
PortOf == [card : Cards, permaddr : Cards \cup {None, NotSet}, mac : Cards \cup {None}, name : Names,
           setting : {"old", "new"}, verdict : Verdicts, label : Labels]
Keys == Cards \cup Names \cup {NotSet}
PCs == {"shell", "terminal", "collect", "record", "label", "act", "over", "raised"}
AtShell == {"shell", "over", "raised"}
Exits == {-1, 0, 1, 2}   \* -1: the call has not ended
NothingFound == [added |-> {}, removed |-> {}, changed |-> {}]

TypeOK ==
  /\ machine \in [Cards -> States] /\ changes \in 0 .. MaxChanges
  /\ stored \in [Keys -> Labels] /\ mem \in [Keys -> Labels] /\ before \in [Keys -> Labels]
  /\ export \in Seq(PortOf) \cup {None} /\ report \in Seq(PortOf)
  /\ pc \in PCs /\ calls \in 0 .. MaxCalls
  /\ flags \in Calls /\ applied \in 0 .. Len(flags.pairs)
  /\ exit \in Exits /\ captured \in BOOLEAN
  /\ found.added \subseteq Keys /\ found.removed \subseteq Keys
  /\ found.changed \subseteq Keys \X Watched

DistinctNames(m) ==
  \A c, d \in Cards : m[c].plugged /\ m[d].plugged /\ m[c].name = m[d].name => c = d

Init ==
  /\ machine \in {m \in [Cards -> States] :
                    DistinctNames(m) /\ \A c \in Cards : /\ m[c].plugged /\ m[c].setting = "old"
                                                          /\ m[c].perm = "own" /\ m[c].mac = c}
  /\ changes = 0 /\ calls = 0 /\ pc = "shell"
  /\ stored = [k \in Keys |-> NoLabel] /\ mem = stored
  /\ export = None /\ report = << >> /\ exit = -1 /\ captured = FALSE
  /\ flags = (CHOOSE f \in Calls : TRUE) /\ found = NothingFound
  /\ before = stored /\ applied = 0

-----------------------------------------------------------------------------
(* One call                                                                *)

Ends(code) == pc' = "over" /\ exit' = code
\* An exception leaves main(): the interpreter ends the call.
Raises == pc' = "raised" /\ exit' = 1

\* _wants_terminal.
WantsTerminal(f) ==
  f.tui \/ (f.tty /\ ~(f.export \/ f.check \/ f.diff \/ f.pairs # << >>))

\* The shell starts the tool: --list-labels prints the label file and ends,
\* --record with --replay is refused; else the label file is read.
Start ==
  /\ pc \in AtShell /\ calls < MaxCalls /\ calls' = calls + 1
  /\ flags' \in Calls
  /\ mem' = stored /\ before' = stored
  /\ report' = << >> /\ applied' = 0 /\ captured' = FALSE /\ found' = NothingFound
  /\ IF flags'.list THEN Ends(0)
     ELSE IF flags'.record /\ flags'.replay THEN Ends(2)
     ELSE pc' = (IF WantsTerminal(flags') THEN "terminal" ELSE "collect") /\ exit' = -1
  /\ UNCHANGED <<machine, changes, stored, export>>

\* udev.collect: `ip -d -j link show`, else `ethtool -P`, whose text is taken as it
\* is unless it is all zeroes.
PermAddr(c) ==
  CASE machine[c].perm = "own" -> c
    [] machine[c].perm = "nothing" -> None
    [] machine[c].perm = "text" -> NotSet
\* collect(): the ports that --iface lets through, with the stored labels.
PortSeen(c) ==
  [card |-> c, permaddr |-> PermAddr(c), mac |-> machine[c].mac,
   name |-> machine[c].name, setting |-> machine[c].setting, verdict |-> machine[c].result,
   label |-> NoLabel]
Labelled(port) == [port EXCEPT !.label = mem[KeyOf(port)]]
\* They are in the order of their PCI addresses, which a renaming keeps.
InOrder(cards) ==
  {s \in [1 .. Cardinality(cards) -> cards] :
     \A i, j \in 1 .. Cardinality(cards) : i < j => <<s[i], s[j]>> \in Slots}
Present(only) ==
  {c \in Cards : machine[c].plugged /\ (only = None \/ machine[c].name \in only)}
Seen(only) ==
  {[i \in 1 .. Cardinality(Present(only)) |-> Labelled(PortSeen(s[i]))] :
     s \in InOrder(Present(only))}
Collect ==
  /\ pc = "collect" /\ pc' = "record"
  /\ report' \in Seen(flags.only)
  /\ UNCHANGED <<machine, changes, stored, export, calls, flags, mem, applied, exit, captured,
                 found, before>>

Rank(r) == CASE r = "pass" -> 0 [] r = "unknown" -> 1 [] r = "warn" -> 2 [] r = "fail" -> 3
\* _worse, over the rows of all ports.
Worst(ports) ==
  LET shown == {ports[i].verdict : i \in Indices(ports)} \cup {"pass"}
  IN CHOOSE r \in shown : \A q \in shown : Rank(q) <= Rank(r)
\* Deviation for a mutant: the rank of the worst row is the exit code.
CheckExit_Rank(ports, strict) == Rank(Worst(ports))
\* _run_check.
CheckExit(ports, strict) ==
  IF Worst(ports) = "fail" \/ (strict /\ Worst(ports) # "pass") THEN 1 ELSE 0
\* _run_tui.  The interface ends with 0 and may have labelled a port; without
\* Textual the readiness table is printed instead.  Either way the rest of
\* main() does not happen.
Terminal ==
  /\ pc = "terminal"
  /\ \/ /\ Ends(0) /\ UNCHANGED report
        /\ stored' \in {[stored EXCEPT ![KeyOf(PortSeen(c))] = t] : c \in Cards, t \in Labels}
     \/ /\ report' \in Seen(flags.only) /\ UNCHANGED stored
        /\ Ends(CheckExit(report', flags.strict))
  /\ UNCHANGED <<machine, changes, export, calls, flags, mem, applied, captured, found, before>>

\* Deviation for a mutant: a recording that cannot be written is passed over.
SaveCapture_Swallows ==
  /\ pc = "record" /\ pc' = "label" /\ captured' \in {flags.record, FALSE}
  /\ UNCHANGED <<machine, changes, stored, export, calls, flags, report, mem, applied, exit, found,
                 before>>
\* capture.save, with --record.  A path that cannot be written is not caught.
SaveCapture ==
  /\ pc = "record"
  /\ \/ pc' = "label" /\ captured' = flags.record /\ UNCHANGED exit
     \/ flags.record /\ Raises /\ UNCHANGED captured
  /\ UNCHANGED <<machine, changes, stored, export, calls, flags, report, mem, applied, found, before>>

\* The ports of the report with a name; Report.interface returns the first.
Named(name) == {i \in Indices(report) : report[i].name = name}

First(name) == CHOOSE i \in Named(name) : \A j \in Named(name) : i <= j

\* _apply_labels, one pair: into memory and into the report.  The first pair that
\* is malformed or names no port ends the call.
TakePair(pair) ==
  /\ applied' = applied + 1 /\ UNCHANGED <<pc, exit>>
  /\ mem' = [mem EXCEPT ![KeyOf(report[First(pair[1])])] = pair[2]]
  /\ report' = [report EXCEPT ![First(pair[1])].label = pair[2]]
\* Deviation for a mutant: every pair is saved at once.
ApplyPair_SavesEach ==
  /\ pc = "label" /\ applied < Len(flags.pairs)
  /\ LET pair == flags.pairs[applied + 1]
     IN IF Named(pair[1]) = {} THEN Ends(2) /\ UNCHANGED <<mem, report, applied, stored>>
        ELSE TakePair(pair) /\ stored' = mem'
  /\ UNCHANGED <<machine, changes, export, calls, flags, captured, found, before>>
ApplyPair ==
  /\ pc = "label" /\ applied < Len(flags.pairs)
  /\ LET pair == flags.pairs[applied + 1]
     IN IF Named(pair[1]) = {} THEN Ends(2) /\ UNCHANGED <<mem, report, applied>>
        ELSE TakePair(pair)
  /\ UNCHANGED <<machine, changes, stored, export, calls, flags, captured, found, before>>

\* stored.save() comes after the last pair, and is not caught either.
SaveLabels ==
  /\ pc = "label" /\ applied = Len(flags.pairs)
  /\ \/ /\ pc' = "act" /\ UNCHANGED exit
        /\ stored' = IF flags.pairs = << >> THEN stored ELSE mem
     \/ flags.pairs # << >> /\ Raises /\ UNCHANGED stored
  /\ UNCHANGED <<machine, changes, export, calls, flags, report, mem, applied, captured, found,
                 before>>

\* _run_diff; an export that cannot be read is a usage error.
RunDiff ==
  /\ pc = "act" /\ flags.diff
  /\ IF export = None THEN Ends(2) /\ UNCHANGED found
     ELSE /\ found' = Compare(export, report)
          /\ Ends(IF NoChange(found') THEN 0 ELSE 1)
  /\ UNCHANGED <<machine, changes, stored, export, calls, flags, report, mem, applied, captured,
                 before>>

\* _run_check.
RunCheck ==
  /\ pc = "act" /\ ~flags.diff /\ flags.check
  /\ Ends(CheckExit(report, flags.strict))
  /\ UNCHANGED <<machine, changes, stored, export, calls, flags, report, mem, applied, captured, found,
                 before>>

\* _write.  The file cannot always be written; opening it has emptied it.
Write ==
  /\ pc = "act" /\ ~flags.diff /\ ~flags.check
  /\ \/ export' = report /\ Ends(0)
     \/ Ends(2) /\ export' \in {export, None}
  /\ UNCHANGED <<machine, changes, stored, calls, flags, report, mem, applied, captured, found, before>>

-----------------------------------------------------------------------------
(* The machine, between two calls                                          *)

Change(next) ==
  /\ pc \in AtShell /\ changes < MaxChanges /\ changes' = changes + 1
  /\ machine' \in next /\ DistinctNames(machine') /\ machine' # machine
  /\ pc' = "shell"
  /\ UNCHANGED <<stored, export, calls, callVars>>

Rename == Change({[machine EXCEPT ![c].name = n] : c \in Cards, n \in Names})
Degrade == Change({[machine EXCEPT ![c].setting = "new", ![c].result = r] :
                     c \in Cards, r \in Verdicts})
Replug == Change({[machine EXCEPT ![c].plugged = ~@] : c \in Cards})

\* The permanent address can no longer be read, or the driver has none to give,
\* and the port carries another address, or none.
Hide == Change({[machine EXCEPT ![c].perm = p, ![c].mac = a] :
                  c \in Cards, p \in {"nothing", "text"}, a \in Cards \cup {None}})

Next ==
  \/ Start \/ Terminal \/ Collect \/ SaveCapture \/ ApplyPair \/ SaveLabels
  \/ RunDiff \/ RunCheck \/ Write
  \/ Rename \/ Degrade \/ Replug \/ Hide

Spec == Init /\ [][Next]_vars

-----------------------------------------------------------------------------
(* Properties                                                              *)

\* What --diff is to see: which card is where, and what is watched of it.
Watch(ports) == {[k \in {"card"} \cup Watched |-> ports[i][k]] : i \in Indices(ports)}

\* The pairs that are malformed or name no port.
Refused(pairs) == {k \in 1 .. Len(pairs) : Named(pairs[k][1]) = {}}

\* Every port has a key of its own; every key is the permanent address of a card.
OwnKeys(ports) ==
  \A i, j \in Indices(ports) : KeyOf(ports[i]) = KeyOf(ports[j]) => i = j
Permanent(ports) == \A i \in Indices(ports) : ports[i].permaddr \in Cards

\* The call went through main() to the action that its flags ask for.
Acted == /\ pc = "over" /\ ~flags.list /\ ~(flags.record /\ flags.replay)
         /\ ~WantsTerminal(flags) /\ Refused(flags.pairs) = {}

\* diff.py:8-10 and README.md:173: --diff ends with 0 exactly when the machine
\* shows what the export showed, whatever was renamed, moved or degraded in
\* between.  A card whose permanent address was read both times is never called
\* gone or new, whatever the ports beside it are keyed on.  The first half needs an
\* address of every port: the "not set" of udev.py:73-76 is one key for all the
\* ports that have it, and --diff then sees the last of them only.
DiffHonest ==
  Acted /\ flags.diff /\ export # None =>
    /\ Permanent(export) /\ Permanent(report) => (exit = 0 <=> Watch(export) = Watch(report))
    /\ \A i \in Indices(export), j \in Indices(report) :
         export[i].permaddr = report[j].permaddr /\ report[j].permaddr \in Cards =>
           report[j].card \notin found.added \cup found.removed

\* What --diff compares: the watched fields under the key of each port.
Keyed(ports) == {<<KeyOf(ports[i]), [k \in Watched |-> ports[i][k]]>> : i \in Indices(ports)}

\* diff.py:122-129, where an address cannot be read or is "not set": --diff is quiet
\* about two collections of the same machine, and a changed one is missed only when
\* a port hides another of the same key, or answers for another card.
DiffOfUnknown ==
  Acted /\ flags.diff /\ export # None =>
    /\ Watch(export) = Watch(report) /\ Keyed(export) = Keyed(report) => exit = 0
    /\ exit = 0 /\ OwnKeys(export) /\ OwnKeys(report) => Keyed(export) = Keyed(report)

\* cli.py:292-306: a call that is refused for one of its --label pairs leaves
\* the label file alone, and one that goes on shows in its report what the file
\* now holds, for ports that have a key of their own.
LabelsAllOrNothing ==
  /\ pc = "act" /\ OwnKeys(report) =>
       \A i \in Indices(report) : report[i].label = stored[KeyOf(report[i])]
  /\ pc = "over" /\ exit = 2 /\ Refused(flags.pairs) # {} => stored = before

\* cli.py:51, "nicscope --record capture.json   record every read, for a bug
\* report": a call with --record that goes on to its labels, its comparison or its
\* output has written the recording, also when it is then refused; one that could not
\* has left the label file alone.  Except where a terminal is wanted: main() then
\* returns from the interface, cli.py:143-145, and never saves.
RecordWritten ==
  flags.record /\ ~flags.list /\ ~flags.replay /\ ~WantsTerminal(flags) =>
    /\ pc \in {"label", "act", "over"} => captured
    /\ pc = "raised" /\ ~captured => stored = before
=============================================================================
