-------------------------------- MODULE App --------------------------------
(***************************************************************************)
(* tui/app.py: the event loop of the interface, its collection threads and *)
(* its poll threads, and the label dialog.                                 *)
(*                                                                         *)
(* A collection builds Interface objects of its own; _apply, run by the    *)
(* event loop, makes them the report.  A poll thread takes the report it   *)
(* finds and rewrites the link of its objects, port by port.  The dialog   *)
(* keeps the object it was opened on.  Everything the event loop runs      *)
(* (key handlers, _apply, _redraw_ports) is one step.                      *)
(*                                                                         *)
(* External: Textual.  exclusive=True marks an older thread worker as      *)
(* cancelled and does not stop its thread; a modal screen takes the keys   *)
(* of the application away from it.                                        *)
(***************************************************************************)
EXTENDS Integers, Sequences, FiniteSets

CONSTANTS
  Collections,   \* bound: collections that are asked for, 1 is on_mount's
  Pollers,       \* bound: poll threads that can be alive at once
  MaxPort,       \* ports are 1 .. MaxPort
  Texts,         \* user labels
  NoLabel,       \* no user label
  MaxChanges,    \* bound: changes of a link
  None           \* no report, no dialog

ASSUME AppAssumption ==
  /\ Collections \subseteq Nat /\ 1 \in Collections /\ MaxPort \in Nat /\ MaxChanges \in Nat
  /\ NoLabel \notin Texts /\ None \notin Collections

Ports == 1 .. MaxPort
Links == {"up", "down"}
Labels == Texts \cup {NoLabel}

VARIABLES
  world,    \* the link of each port
  gives,    \* does the driver of a port put the speed in sysfs, or only in ethtool
  changes,  \* how often a link changed
  stored,   \* the Labels object: port -> label
  phase,    \* of each collection
  obj,      \* the Interface objects of each collection
  asof,     \* of each collection: changes when it read the links (history)
  report,   \* NicscopeApp.report: a collection, or None
  poll,     \* of each poll thread: what it works on
  dialog,   \* the object that the label dialog is open on, or None
  screen    \* what the panes show of each port

vars == <<world, gives, changes, stored, phase, obj, asof, report, poll, dialog, screen>>

Phases == {"idle", "reading", "read", "asked", "labelled", "posted", "applied"}
Blank == [link |-> "down", speed |-> FALSE, label |-> NoLabel, verdict |-> "none"]
\* speed: is a speed known.
Objects == [link : Links, speed : BOOLEAN, label : Labels,
            verdict : {"none", "pass", "warn", "unknown"}]
PollStates == [of : Collections \cup {None}, port : 1 .. MaxPort + 1,
               got : Links \cup {"none"}]
PollIdle == [of |-> None, port |-> 1, got |-> "none"]

\* readiness.py, the link_speed row with no plan: a link that is not up warns.
Judge(o) == IF o.link # "up" THEN "warn" ELSE IF o.speed THEN "pass" ELSE "unknown"

TypeOK ==
  /\ world \in [Ports -> Links] /\ gives \in [Ports -> BOOLEAN] /\ changes \in 0 .. MaxChanges
  /\ asof \in [Collections -> 0 .. MaxChanges]
  /\ stored \in [Ports -> Labels]
  /\ phase \in [Collections -> Phases]
  /\ obj \in [Collections -> [Ports -> Objects]]
  /\ report \in Collections \cup {None}
  /\ poll \in [Pollers -> PollStates]
  /\ dialog \in (Collections \X Ports) \cup {None}
  /\ screen \in [Ports -> Objects]

Init ==
  /\ world \in [Ports -> Links] /\ gives \in [Ports -> BOOLEAN] /\ changes = 0
  /\ asof = [c \in Collections |-> 0]
  /\ stored \in [Ports -> Labels]
  /\ phase = [c \in Collections |-> IF c = 1 THEN "reading" ELSE "idle"]
  /\ obj = [c \in Collections |-> [i \in Ports |-> Blank]]
  /\ report = None
  /\ poll = [w \in Pollers |-> PollIdle]
  /\ dialog = None
  /\ screen = [i \in Ports |-> Blank]

-----------------------------------------------------------------------------
(* Collection threads                                                      *)

\* `r`: one more collection thread.  The older ones go on.
Recollect(c) ==
  /\ dialog = None /\ phase[c] = "idle"
  /\ \A d \in Collections : d < c => phase[d] # "idle"
  /\ phase' = [phase EXCEPT ![c] = "reading"]
  /\ UNCHANGED <<world, gives, changes, stored, obj, asof, report, poll, dialog, screen>>

\* A speed is there while the link is up.
SysfsSpeed(i, link) == gives[i] /\ link = "up"

\* sysfs.collect reads the link of every port.
ReadLinks(c) ==
  /\ phase[c] = "reading"
  /\ obj' = [obj EXCEPT ![c] = [i \in Ports |->
               [Blank EXCEPT !.link = world[i], !.speed = SysfsSpeed(i, world[i])]]]
  /\ asof' = [asof EXCEPT ![c] = changes]
  /\ phase' = [phase EXCEPT ![c] = "read"]
  /\ UNCHANGED <<world, gives, changes, stored, report, poll, dialog, screen>>

\* ethtool.settings fills in a speed that sysfs did not give.
AskEthtool(c) ==
  /\ phase[c] = "read"
  /\ obj' = [obj EXCEPT ![c] = [i \in Ports |-> [obj[c][i] EXCEPT !.speed = @ \/ world[i] = "up"]]]
  /\ phase' = [phase EXCEPT ![c] = "asked"]
  /\ UNCHANGED <<world, gives, changes, stored, asof, report, poll, dialog, screen>>

\* labels.apply, at the end of pipeline.collect.
ApplyLabels(c) ==
  /\ phase[c] = "asked"
  /\ obj' = [obj EXCEPT ![c] = [i \in Ports |-> [obj[c][i] EXCEPT !.label = stored[i]]]]
  /\ phase' = [phase EXCEPT ![c] = "labelled"]
  /\ UNCHANGED <<world, gives, changes, stored, asof, report, poll, dialog, screen>>

\* evaluate(): the readiness rows; then collect() returns and the thread posts
\* _apply to the event loop.
Evaluate(c) ==
  /\ phase[c] = "labelled"
  /\ obj' = [obj EXCEPT ![c] = [i \in Ports |-> [obj[c][i] EXCEPT !.verdict = Judge(obj[c][i])]]]
  /\ phase' = [phase EXCEPT ![c] = "posted"]
  /\ UNCHANGED <<world, gives, changes, stored, asof, report, poll, dialog, screen>>

\* Deviation for a mutant: a new report is not drawn until the next poll.
Apply_NoShow(c) ==
  /\ phase[c] = "posted"
  /\ report' = c
  /\ phase' = [phase EXCEPT ![c] = "applied"]
  /\ UNCHANGED <<world, gives, changes, stored, obj, asof, poll, dialog, screen>>
\* _apply, on the event loop: a new report, and every pane is drawn from it.
Apply(c) ==
  /\ phase[c] = "posted"
  /\ report' = c /\ screen' = obj[c]
  /\ phase' = [phase EXCEPT ![c] = "applied"]
  /\ UNCHANGED <<world, gives, changes, stored, obj, asof, poll, dialog>>

-----------------------------------------------------------------------------
(* Poll threads                                                            *)

\* The timer, about once a second: a thread takes the report it finds.
PollStart(w) ==
  /\ poll[w] = PollIdle /\ report # None
  /\ poll' = [poll EXCEPT ![w].of = report]
  /\ UNCHANGED <<world, gives, changes, stored, phase, obj, asof, report, dialog, screen>>

\* sysfs.refresh_link for the next port.
PollRead(w) ==
  /\ poll[w].of # None /\ poll[w].port <= MaxPort /\ poll[w].got = "none"
  /\ poll' = [poll EXCEPT ![w].got = world[poll[w].port]]
  /\ UNCHANGED <<world, gives, changes, stored, phase, obj, asof, report, dialog, screen>>

\* _merge_link: what only ethtool knows stays, but a speed comes from sysfs.
Merged(o, i, link) == [o EXCEPT !.link = link, !.speed = SysfsSpeed(i, link)]

\* Deviation for a mutant: the object is looked up in the report of the moment.
PollWrite_Current(w) ==
  /\ poll[w].got # "none"
  /\ obj' = [obj EXCEPT ![report][poll[w].port] = Merged(@, poll[w].port, poll[w].got)]
  /\ poll' = [poll EXCEPT ![w].got = "none", ![w].port = @ + 1]
  /\ UNCHANGED <<world, gives, changes, stored, phase, asof, report, dialog, screen>>
\* Deviation for a mutant: the loop steps over a port.
PollWrite_Steps(w) ==
  /\ poll[w].got # "none"
  /\ obj' = [obj EXCEPT ![poll[w].of][poll[w].port] = Merged(@, poll[w].port, poll[w].got)]
  /\ poll' = [poll EXCEPT ![w].got = "none", ![w].port = @ + 2]
  /\ UNCHANGED <<world, gives, changes, stored, phase, asof, report, dialog, screen>>
\* Deviation for a mutant: the link that was read is thrown away.
PollWrite_Lost(w) ==
  /\ poll[w].got # "none"
  /\ poll' = [poll EXCEPT ![w].got = "none", ![w].port = @ + 1]
  /\ UNCHANGED <<world, gives, changes, stored, phase, obj, asof, report, dialog, screen>>
\* iface.link = _merge_link(...): the object gets the link that was read.
PollWrite(w) ==
  /\ poll[w].got # "none"
  /\ obj' = [obj EXCEPT ![poll[w].of][poll[w].port] = Merged(@, poll[w].port, poll[w].got)]
  /\ poll' = [poll EXCEPT ![w].got = "none", ![w].port = @ + 1]
  /\ UNCHANGED <<world, gives, changes, stored, phase, asof, report, dialog, screen>>

\* _redraw_ports, on the event loop, from the report there is by then.
PollRedraw(w) ==
  /\ poll[w].of # None /\ poll[w].port = MaxPort + 1
  /\ screen' = obj[report]
  /\ poll' = [poll EXCEPT ![w] = PollIdle]
  /\ UNCHANGED <<world, gives, changes, stored, phase, obj, asof, report, dialog>>

-----------------------------------------------------------------------------
(* The label dialog                                                        *)

\* `l` on a port of the report.
OpenDialog ==
  /\ dialog = None /\ report # None
  /\ \E i \in Ports : dialog' = <<report, i>>
  /\ UNCHANGED <<world, gives, changes, stored, phase, obj, asof, report, poll, screen>>

CancelDialog ==
  /\ dialog # None
  /\ dialog' = None
  /\ UNCHANGED <<world, gives, changes, stored, phase, obj, asof, report, poll, screen>>

\* store(): the label goes to the file, to the object that the dialog was
\* opened on, and the panes are drawn again.
SaveLabel ==
  /\ dialog # None /\ dialog' = None
  /\ \E label \in Labels :
       /\ stored' = [stored EXCEPT ![dialog[2]] = label]
       /\ obj' = [obj EXCEPT ![dialog[1]][dialog[2]].label = label]
  /\ screen' = obj'[report]
  /\ UNCHANGED <<world, gives, changes, phase, asof, report, poll>>

-----------------------------------------------------------------------------

\* Environment: a link comes up or goes down.  Bounded by MaxChanges.
LinkChange ==
  /\ changes < MaxChanges /\ changes' = changes + 1
  /\ \E i \in Ports :
       world' = [world EXCEPT ![i] = IF @ = "up" THEN "down" ELSE "up"]
  /\ UNCHANGED <<gives, stored, phase, obj, asof, report, poll, dialog, screen>>

CollectStep(c) == ReadLinks(c) \/ AskEthtool(c) \/ ApplyLabels(c) \/ Evaluate(c) \/ Apply(c)
PollStep(w) == PollStart(w) \/ PollRead(w) \/ PollWrite(w) \/ PollRedraw(w)
Operator == (\E c \in Collections : Recollect(c)) \/ OpenDialog \/ CancelDialog \/ SaveLabel

Next ==
  \/ \E c \in Collections : CollectStep(c)
  \/ \E w \in Pollers : PollStep(w)
  \/ Operator
  \/ LinkChange

\* The OS runs every thread, the event loop serves what is posted to it, and
\* the timer fires.  The operator and the cables are not fair.
Fairness ==
  /\ \A c \in Collections : WF_vars(CollectStep(c))
  /\ \A w \in Pollers : WF_vars(PollStep(w))

Spec == Init /\ [][Next]_vars
FairSpec == Spec /\ Fairness

-----------------------------------------------------------------------------
(* Properties                                                              *)

\* The panes and the export are drawn from the same report: whatever thread
\* touched an object last, labels and verdicts on the screen are the ones an
\* export taken now would write.
ScreenIsReport ==
  report # None => \A i \in Ports : /\ screen[i].label = obj[report][i].label
                                    /\ screen[i].verdict = obj[report][i].verdict

\* pipeline.py:126-141: the poll renews the link and not the readiness row that
\* judged it.  While no link changed after the collection read it, the row on the
\* screen still fits the link beside it, whatever older collections and their poll
\* threads do meanwhile; except that a speed that ethtool alone gave is gone after
\* a poll.
RowFitsLink ==
  report # None /\ asof[report] = changes =>
    \A i \in Ports : \/ screen[i].verdict = Judge(screen[i])
                     \/ /\ ~gives[i] /\ screen[i].verdict = "pass"
                        /\ screen[i].link = "up" /\ ~screen[i].speed

Collecting == \E c \in Collections : phase[c] \notin {"idle", "applied"}

\* tests/test_tui.py:139-140: a label that was set in the interface is both
\* stored and shown, once no collection runs.
LabelShown ==
  report # None /\ ~Collecting => \A i \in Ports : screen[i].label = stored[i]

\* The 1 Hz poll (app.py:182): when the links stop changing, the screen comes
\* to show them and stays so, although polls overlap, write older answers over
\* newer ones, and work on a report that a new collection replaces.
ScreenConverges == <>[](\A i \in Ports : screen[i].link = world[i])
=============================================================================
