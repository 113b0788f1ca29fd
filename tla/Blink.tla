------------------------------- MODULE Blink -------------------------------
(***************************************************************************)
(* tui/app.py: the keys b and B, which blink the LED of one port or of     *)
(* every port in turn, the timer that ends one blink and begins the next,  *)
(* and the processes of `ethtool -p`, which nobody waits for.              *)
(*                                                                         *)
(* Everything here is run by the event loop, one handler at a time.  A     *)
(* process runs on its own: sudo and ethtool need some time to start, then *)
(* the LED blinks for as long as it was told, or it ends early: no         *)
(* CAP_NET_ADMIN, a device that is gone or busy.  The countdown begins     *)
(* when Popen returns, before all of that.  Time passes in units of which  *)
(* a blink lasts Seconds, and the 0.25 s timer may be late.                *)
(*                                                                         *)
(* External: Textual moves the cursor of the table; collections post new   *)
(* reports (module App).                                                   *)
(***************************************************************************)
EXTENDS Integers, Sequences, Functions

CONSTANTS
  PortNames,   \* interface names
  Reports,     \* the ports of the reports that collections post, in order
  Seconds,     \* how long a blink lasts
  Delay,       \* the longest that a process takes before its LED blinks
  MaxApplied,  \* bound: reports that are posted
  MaxKeys,     \* bound: presses of b and B
  None         \* no report, no selected port

ASSUME BlinkAssumption ==
  /\ Reports \subseteq Seq(PortNames) /\ Seconds \in Nat \ {0} /\ Delay \in 0 .. Seconds
  /\ MaxApplied \in Nat /\ MaxKeys \in Nat /\ None \notin PortNames

VARIABLES
  report,    \* the ports of the report, or None
  applied,   \* how many reports were posted
  selected,  \* NicscopeApp.selected: a name, or None
  keys,      \* how often b or B was pressed and did something
  queue,     \* _blink_queue
  left,      \* _blink_until minus the time, 0 when it is over
  procs,     \* the processes that run: each the nth that a key started
  status,    \* what the status line says of a blink
  turn,      \* the ports that the last key asked for (history)
  started,   \* the ports a process was started for since that key (history)
  gaveUp     \* did a start fail since that key (history)

blinkVars == <<queue, left, procs, status, started, gaveUp>>
vars == <<report, applied, selected, keys, queue, left, procs, status, turn, started, gaveUp>>

\* A process: wait is the rest of its start-up, left the rest of its blink, age the
\* time since Popen returned.
Processes == [port : PortNames, wait : 0 .. Delay, left : 1 .. Seconds,
              age : 0 .. Seconds + Delay, key : 1 .. MaxKeys, nth : Nat \ {0}]
Texts == {<<"blinking", p>> : p \in PortNames} \cup {<<"finished">>, <<"cannot">>, <<"other">>}

TypeOK ==
  /\ report \in Reports \cup {None} /\ applied \in 0 .. MaxApplied
  /\ selected \in PortNames \cup {None} /\ keys \in 0 .. MaxKeys
  /\ queue \in Seq(PortNames) /\ left \in 0 .. Seconds
  /\ procs \subseteq Processes /\ status \in Texts
  /\ turn \in Seq(PortNames) /\ started \in Seq(PortNames) /\ gaveUp \in BOOLEAN

Init ==
  /\ report = None /\ applied = 0 /\ selected = None /\ keys = 0
  /\ queue = << >> /\ left = 0 /\ procs = {} /\ status = <<"other">>
  /\ turn = << >> /\ started = << >> /\ gaveUp = FALSE

-----------------------------------------------------------------------------
(* Handlers of the event loop                                              *)

\* _apply: the first report selects its first port; the status line gets the
\* counts of the report.
Apply ==
  /\ applied < MaxApplied /\ applied' = applied + 1
  /\ report' \in Reports
  /\ selected' = IF selected = None /\ report' # << >> THEN report'[1] ELSE selected
  /\ status' = <<"other">>
  /\ UNCHANGED <<keys, queue, left, procs, turn, started, gaveUp>>

\* _row_changed: the cursor of the table is on another row.
Highlight ==
  /\ report # None
  /\ selected' \in Range(report)
  /\ UNCHANGED <<report, applied, keys, blinkVars, turn>>

\* _start_next_blink, for a queue that is not empty.  run_background gives no
\* handle in a replay, without ethtool, and when the process cannot be made.
StartNext(q, begun, key) ==
  \/ /\ queue' = q /\ left' = Seconds
     /\ started' = Append(begun, q[1])
     /\ \E wait \in 0 .. Delay :
          procs' = procs \cup {[port |-> q[1], wait |-> wait, left |-> Seconds, age |-> 0,
                                key |-> key, nth |-> Len(started')]}
     /\ gaveUp' = FALSE /\ UNCHANGED status
  \/ /\ queue' = << >> /\ status' = <<"cannot">> /\ gaveUp' = TRUE /\ started' = begun
     /\ UNCHANGED <<left, procs>>

\* Deviation for a mutant: the ports are added to what is still queued.
Press_Appends(ports) ==
  /\ keys < MaxKeys /\ keys' = keys + 1
  /\ turn' = ports
  /\ IF queue \o ports = << >>
       THEN /\ started' = << >> /\ gaveUp' = FALSE
            /\ UNCHANGED <<queue, left, procs, status>>
       ELSE StartNext(queue \o ports, << >>, keys + 1)
  /\ UNCHANGED <<report, applied, selected>>
\* A key replaces the queue, whatever was in it.
Press(ports) ==
  /\ keys < MaxKeys /\ keys' = keys + 1
  /\ turn' = ports
  /\ IF ports = << >>
       THEN /\ queue' = << >> /\ started' = << >> /\ gaveUp' = FALSE
            /\ UNCHANGED <<left, procs, status>>
       ELSE StartNext(ports, << >>, keys + 1)
  /\ UNCHANGED <<report, applied, selected>>

\* `b`: the selected port, if the report has it.
ActionBlink ==
  /\ report # None /\ selected \in Range(report)
  /\ Press(<<selected>>)

\* `B`.
ActionBlinkAll ==
  /\ report # None
  /\ Press(report)

\* Deviation for a mutant: the next blink begins while the port still blinks.
Tick_Early ==
  /\ queue # << >>
  /\ IF left > 1
       THEN /\ status' = <<"blinking", queue[1]>>
            /\ UNCHANGED <<queue, left, procs, started, gaveUp>>
       ELSE IF Len(queue) > 1 THEN StartNext(Tail(queue), started, keys)
       ELSE /\ queue' = << >> /\ status' = <<"finished">>
            /\ UNCHANGED <<left, procs, started, gaveUp>>
  /\ UNCHANGED <<report, applied, selected, keys, turn>>
\* Deviation for a mutant: the port that was blinked stays in the queue.
Tick_NoPop ==
  /\ queue # << >>
  /\ IF left > 0
       THEN /\ status' = <<"blinking", queue[1]>>
            /\ UNCHANGED <<queue, left, procs, started, gaveUp>>
       ELSE StartNext(queue, Tail(started), keys)
  /\ UNCHANGED <<report, applied, selected, keys, turn>>
\* _tick_blink.
Tick ==
  /\ queue # << >>
  /\ IF left > 0
       THEN /\ status' = <<"blinking", queue[1]>>
            /\ UNCHANGED <<queue, left, procs, started, gaveUp>>
       ELSE IF Len(queue) > 1 THEN StartNext(Tail(queue), started, keys)
       ELSE /\ queue' = << >> /\ status' = <<"finished">>
            /\ UNCHANGED <<left, procs, started, gaveUp>>
  /\ UNCHANGED <<report, applied, selected, keys, turn>>

-----------------------------------------------------------------------------
(* Processes and time                                                      *)

\* One unit in the life of a process.
Older(p) == [port |-> p.port, wait |-> IF p.wait > 0 THEN p.wait - 1 ELSE 0,
             left |-> IF p.wait > 0 THEN p.left ELSE p.left - 1, age |-> p.age + 1,
             key |-> p.key, nth |-> p.nth]
Over(p) == p.wait = 0 /\ p.left = 1

\* Deviation for a mutant: a process outlives its time.
Later_Zombie ==
  /\ left > 0 \/ procs # {}
  /\ left' = IF left > 0 THEN left - 1 ELSE 0
  /\ procs' = {Older(p) : p \in procs}
  /\ UNCHANGED <<report, applied, selected, keys, queue, status, turn, started, gaveUp>>
\* Time passes, for the countdown and for every process.
Later ==
  /\ left > 0 \/ procs # {}
  /\ left' = IF left > 0 THEN left - 1 ELSE 0
  /\ procs' = {Older(p) : p \in {q \in procs : ~Over(q)}}
  /\ UNCHANGED <<report, applied, selected, keys, queue, status, turn, started, gaveUp>>

\* A process ends before its time; nobody looks at its exit code.
EndEarly ==
  /\ \E p \in procs : procs' = procs \ {p}
  /\ UNCHANGED <<report, applied, selected, keys, queue, left, status, turn, started, gaveUp>>

Next == Apply \/ Highlight \/ ActionBlink \/ ActionBlinkAll \/ Tick \/ Later \/ EndEarly

Spec == Init /\ [][Next]_vars

\* The timer fires and time passes.  The operator, the collections and the
\* processes that end early are not fair.
FairSpec == Spec /\ WF_vars(Tick) /\ WF_vars(Later)

-----------------------------------------------------------------------------
(* Properties                                                              *)

\* tui/app.py:58, "blink every port in turn, to label a patch panel in one
\* pass": what was started since the key, and what is still queued behind it,
\* are together the ports of the key in order, none twice and none left out;
\* the port whose countdown is shown is the one that was started last.
InTurn ==
  /\ queue # << >> => /\ started # << >> /\ turn = started \o Tail(queue)
                      /\ queue[1] = started[Len(started)]
  /\ queue = << >> /\ ~gaveUp => started = turn

\* "blink every port in turn": two processes of one key are up at once only where
\* the countdown cannot see it, while the later one was started no longer ago than
\* a process takes to start, and they are neighbours.  With no start-up time a key
\* has one LED at most.  Each of the keys pressed before may have left one more.
InTurnButForStartUp ==
  \A p, q \in procs : p.key = q.key /\ p.nth < q.nth =>
    q.nth = p.nth + 1 /\ q.age < Delay

\* app.py:370: when the line comes to say "Blink finished.", every LED, the ones of
\* replaced queues included, is dark or will be within the time a process takes to
\* start.
FinishedSoonDark ==
  [][queue # << >> /\ queue' = << >> /\ keys' = keys /\ ~gaveUp' =>
       \A p \in procs' : p.wait + p.left <= Delay]_vars

\* Every pass ends: the queue runs empty, whatever fails or ends early.
Drains == queue # << >> ~> queue = << >>
=============================================================================
