# nicscope in TLA+

nicscope lists the network cards of a Linux machine, finds out what each of them
can do for IEEE 1588 timing, and judges it in a table of readiness rows. It does
so with a terminal interface, with exports (`--json`, `--format`), with exit codes
(`--check`, `--diff`), with port labels kept in a file, and with recordings of
everything it read (`--record`, `--replay`).

This directory models the parts of it whose errors a unit test would hardly
reach: threads that share a cache, processes that share a file, threads that
share the objects on the screen, processes that nobody waits for, sources that do
not answer, recordings that are replayed under other options, and sequences of
calls on a machine that changes between them. File and line references are to the
repository; `pipeline.py` alone means `src/nicscope/collectors/pipeline.py`, and so
on.

## 1. The system

| Component | State it keeps | Operations | Modelled in |
| --- | --- | --- | --- |
| Collection pipeline, `pipeline.py` | a pool of threads and its futures | `collect`, `_per_interface`, `refresh`, `_merge_link` | `Collect`, `Port`; `refresh` in `App` |
| Context cache, `util/context.py` | `Context._cache` | `cached`, `make_context` | `Collect`, `Capture` |
| Command runner, `util/run.py` | nothing but a capture | `run`, `is_root`, `run_background` | `Collect` (as "answers, fails or raises"), `Capture`, `Blink` |
| Recordings, `util/capture.py`, `util/fs.py` | recorded answers and the capture file | record, replay, `save`, `load` | `Capture` |
| lspci and PTM, `lspci.py` | nothing | `scan`, `parse`, `annotate`, `_chain_ok` | `PtmChain`, `Port`, `Lspci` |
| sysfs, `sysfs.py` | nothing | `list_interfaces`, `collect`, `refresh_link` | `Port`, `App`, `Cli` |
| ethtool, `ethtool.py` | nothing | `driver_info`, `settings`, `timestamping`, `features`, `blink` | `Port`, `StampText`, `Capture`, `Blink` |
| PTP clock, `ptp.py` | nothing | `collect`, `_ioctl` | `Port`, `Capture` |
| TSN and firmware tables, `tsn.py` | two cached tables | `firmware_verdict`, `collect` | `Port`, `Collect` |
| Readiness, `readiness.py` | nothing | `evaluate`, `implied_commands` | `Readiness`, `Port` |
| Report model, `model.py` | the report | `add_error`, `verdict`, `key` | `Port`, `Readiness`, `Cli` |
| Labels, `labels.py` | the label file and its temporary file | `load`, `set`, `save`, `apply` | `LabelStore`, `App`, `Cli` |
| Terminal interface, `tui/app.py` | the report, the dialog, the panes, the blink queue, two kinds of threads | `collect_worker`, `poll_worker`, `_apply`, `action_label`, `action_blink`, `_tick_blink` | `App`, `Blink` |
| udev, `udev.py` | nothing | the permanent address of a port | `Cli` |
| Command line, `cli.py` | what a call has got so far | `main` and its actions | `Cli` |
| Comparison, `diff.py` | nothing | `compare`, `_by_key` | `Diff`, `Cli` |
| Panes, `tui/format.py` and others | nothing | what they say of PTM; rendering | `Shown`; the layout is left out |
| Exports, `export/` | nothing | linuxptp drafts, colours; rendering | `Shown`; the formats are left out |

**How they interact.** `cli.main` makes a `Context`, loads the `Labels` and calls
`collect(ctx, labels)`. `collect` lists the interfaces, asks for what all of them share
(phase 1), gives one job per port to a thread pool (phase 2), applies the labels
and evaluates the rows. All collectors go through `Context.cached` for what ports
share, and through the runner and the file system for every read; those two record
what came back, or replay it. In the interface, `collect` runs in a thread and posts
its report to the event loop; once a second another thread rewrites the link of every
port of the report in place; the label dialog writes to a port of the report and to
the label file; the blink timer starts one `ethtool -p` after the other. The next call
of the tool reads the label file, `--diff` reads an earlier export, and `--replay` an
earlier recording.

**What is hard**, and what makes each part correct (the full list, line by line, is
under `hazards` in `PROJECT.json`):

- *Pipeline and cache.* `cached` is a check, a probe that takes seconds, and a
  store. Correct means: nobody probes twice, every port of a report shows the
  same answer, phase 2 only reads, a call that ended left no job behind, a returned
  report is whole, and `collect` ends whatever raises.
- *One port.* Any subset of the sources may not answer, and two of them may answer one
  question differently. Correct means: a row is true or unknown, a chain verdict and its
  reason are true of the devices, an unknown has a reason, and what is drafted or shown
  beside the rows does not contradict them.
- *Parsers.* Each carries a context from line to line. Correct means: no line is read
  under the wrong device or heading.
- *Recordings.* A recording keeps one answer per request, requests repeat, ports
  share a clock, and what was not asked for is an answer to some requests. Correct means:
  a replay shows what was recorded and nothing else, and a file that loads is a whole
  recording.
- *Label store.* A process may die between any two system calls of `save`, and another
  process may be anywhere in its own; a file that is there may be impossible to read.
  Correct means: never a file that does not parse, and a label that was reported as
  written stays.
- *Interface.* Reports are replaced while polls and the dialog hold objects of the
  old one. Correct means: the panes show the report that an export would write,
  a row fits the link beside it, a label that was set is shown, and the links on the
  screen catch up.
- *Blink.* Processes run on their own, start later than the countdown of the interface,
  and keys are pressed while others blink. Correct means: every port in turn, one LED at
  a time, none left on at the end, and the pass ends; the middle two hold up to the time
  that a process takes to start.
- *Command line.* Each step may end the call, and what a call means depends on
  earlier ones. Correct means: `--diff` that tells the truth about the cards,
  `--label` that does all or nothing, and `--record` that records.

## 2. The modules

| Module | Models | Notes |
| --- | --- | --- |
| `MachineAnswers` | what `collect()` promises about shared answers | abstract |
| `Collect` | `pipeline.collect`, `Context.cached`, the pool | implements `MachineAnswers` |
| `CollectInv`, `CollectProof` | inductive invariants and theorems | |
| `AtomicLabels` | what the label store promises | abstract |
| `LabelStore`, `LabelProof` | `labels.py`, system call by system call | implements `AtomicLabels` |
| `App`, `AppProof` | the threads, the poll and the label dialog of `tui/app.py` | |
| `Blink`, `BlinkProof` | the keys `b` and `B` of `tui/app.py` and their processes | |
| `Capture`, `CaptureProof` | `capture.py`, `fs.py`, `run.py` under `--record` and `--replay` | |
| `PtmChain` | `lspci.annotate`'s nodes, `_chain_ok`, `readiness._broken_link` | operators |
| `Readiness` | `readiness.py` | operators, on `PtmChain` |
| `Shown` | PTM cell, topology, colours, linuxptp drafts | operators, on `Readiness` |
| `Port` | one port from `sysfs.collect` to `evaluate` | on `Shown` |
| `PortProof` | theorems on chains and on `Port` | |
| `Lspci` | `lspci.parse`, line by line, and what `annotate` makes of a record | on `PtmChain` |
| `StampText` | `_parse_timestamping_text`, line by line | |
| `ParserProof` | theorems on both parsers | |
| `Diff` | `diff.py` | operators |
| `Cli`, `CliProof` | `cli.py` | on `Diff` |
| `MCxxx` | the instances that TLC checks | |

Definitions whose name ends in a suffix after an underscore (`Take_Twice`,
`ChainOk_StepOver`) are deviations: plausible errors, each of which TLC must find
to break a property of the run it belongs to. Nothing else uses them.

### Collect

A *collection* is one call of `collect`; thread 0 of it is the caller, thread *i*
the job of its *i*-th port. A thread has a program, the sequence of cache keys that
the code looks up in that order, and a position. `Miss`, `Produce` and `Store` are
the three parts of `Context.cached` that another thread can come between, `Hit` is its
`return`. `Skip` is a lookup that the code's conditions leave out (no interface, not a
PCI device, `--no-root`). `Submit`, `Begin`, `Complete`, `YieldNext`, `Unwind` and
`GiveUp` are `pool.map` with results in input order, and an exception that comes out
of it: jobs that have not begun are cancelled, and leaving the `with` block waits for
the rest. With one worker there is no pool and the caller runs the jobs itself.
`Raise` is a call that raises, which `run` allows (it catches `OSError` and timeouts,
and text that does not decode is neither). A job raises in the calls that it makes for its
own port, which stand in one place of its program: where in a job it happens makes no
difference to the others. `GiveUp` also covers `labels.apply` and `evaluate`, which run
when every port is in. A progress callback that raises is not modelled: it would leave
`collect` in the same way from the places between.

An answer is the version of the machine at which it was taken, which is all that
"the same answer" needs. `ethtool:json` is recorded twice by a job because two
collectors consult it.

### Port, PtmChain, Readiness, Shown

`machine` is the truth about one port and says which sources answer. The seven steps
are the collectors in the order of `_per_interface`; each writes `facts`, adds to
`errors` where the code calls `add_error`, and moves on. `step` is the program
counter of a job. `After` in `PortProof` shows that the facts at each step are a
function of the machine, and `Reveal(m)` is the same machine with every source
answering, so "never guesses" compares the table with the one that root, a new lspci and
a driver that replies would have given.

A device is what its configuration space holds, a *listing* how much of it `lspci`
printed. A clock has its true numbers of inputs and outputs and those that sysfs tells of,
which may lag (`toldExt`, `toldPer`), and one of five ways in which the ioctl goes: it is
not made, the device does not open, a recording has no answer, the device opens and
refuses GETCAPS, or it answers. Only the last one corrects what sysfs told. `walked` says
whether `realpath` gave the path above the card; without it the card is looked at alone
(`LookedAt`). A firmware entry has the device's own verdict and that of the rule for its
revision, which needs a revision that can be read (`DeviceNote`). `add_error` drops a
reason that is empty, and of all the callers only `annotate` can have one: `lspci` ended
well and printed nothing.

`NeverGuesses` and `UnknownSaysWhy` hold with exceptions, which are cases in which the
code does guess or is silent. `Guesses` and `Silent` list them, each with the condition
under which it happens, and each is needed: with any one of their disjuncts left out, TLC
finds a machine that violates the property.

Two simplifications: the walk up the path stops at 16 levels (`sysfs.py:133`), which the
length of a path does not, and a `numa_node` that cannot be read counts as that of a machine
without one, as it does in the code (`sysfs.py:111`), so the true row is the same.

`Shown` holds the places that judge a port again, beside the rows and with conditions
of their own: `ptm_cell`, the note on a level of the topology, the colour in the
Graphviz document, and which port gets a section, a warning or a reason in the linuxptp
drafts. `DraftsFollowRows` and `ScreensHonest` compare them with the rows and with the
devices. Two observations are no more than that: `dot.py:11` calls yellow "present and
off", and the code also wants a role to be known; `_can_stamp` takes a port whose only
receive filter is "none", and warns of it.

### Lspci, StampText

A step is one line: what the command prints next, which is external, and the turn of the
parser's loop that reads it. The state is therefore in two halves, where the printer is
(`open`, `said`, `section`; `heading`, `left`) and what the parser carries (`current`,
`in_ptm`; `bucket`), and the code is right when the second follows the first. A line is
a kind; what it says is what the device being printed has.

The printer is as free as the parsers allow for: blocks in any order, in a block the
capabilities in any order and more than once, messages between blocks, and after a
message indented lines that belong to nobody and may say anything (`Stray`). The header
of a device whose address is of another form (a domain of more than four digits, as
behind a VMD controller) is such a message to `_HEADER`, and the lines below it are
stray. `ethtool -T` prints its headings in any order, leaves out any of them, puts a
list behind its heading or below it, and has headings that the parser does not know.

`LspciParsed` compares what `annotate` makes of a record with `ReadNode`, from which `Port`
takes the facts of the same device: that is what joins the two modules. The numbers of a
record (granularity, link) are compared with the device too.

### Capture

One run is up at a time, recording or replaying. The requests of a collection come in
the order of the code for each port and interleave between ports; `Wants` are the
conditions that depend on earlier answers (`--json` is used when the probe said so,
the clock is opened when `ethtool -T` named one, plain `-k` is asked when JSON failed).
The machine may answer each request differently each time, so what a recording keeps
of a repeated request is not determined. An answer and its `put_*` are one step: in
whatever order threads store what they got, some run of the model got it in that
order. `End` is the end of a run at any point. `given` and `taken` are history
variables: what the machine answered, and what the recording run got.

What a replay answers to a request that the recording does not have depends on the
request (`Replayed`): a command is "not in the recording", a file or the ioctl is None, but
`fs.exists` says False and `fs.listdir` says that the directory is empty. `Look` is the one
such request that depends on the options of the run: whether a port has a device behind
it, which is asked of every port unless virtual ones are wanted, and decides whether a
port with the name of a virtual one (`Suspect`) is left out. The others are the entry and
the pins of a clock, the NUMA nodes and the list of the network directory: a run makes
them always, or when an earlier answer has named the clock or the card, so a replay that
got that answer finds them in the recording too. `listing` is what a run got.

`Shown` is what the report says of a port, with the command it comes from: the time
stamps of `ethtool --json -T` where there are any, else those of the text, and so for the
features.

`ReplayFaithful` leaves out the cases in which the code really differs, where a replay goes
another way about `--json` than the recording run (`SameRoute`). The probe and the features
of the first port are one request, so when the machine changed its mind between the two, a
replay of *several* ports takes the other route and may miss the plain `-k` of ports that
never asked for it. And a replay of *one* port probes that port where the recording run
probed its first one: it shows the text of `ethtool -T` where that run showed the JSON.

### Blink

`queue` and `left` are `_blink_queue` and the countdown; `procs` are the processes that
`run_background` started and nobody keeps. Time passes for all of them in one step
(`Later`), in units of which a blink lasts `Seconds`. The countdown begins when `Popen`
returns; a process has then up to `Delay` units in front of it (`wait`: `sudo`, the start of
`ethtool`) before it blinks for its `Seconds`, so it may outlive the countdown. `age` is
the time since `Popen` returned. A key replaces the queue and does not end the process of
the old one, so one LED per key may blink; `InTurnButForStartUp` says that it is not more,
but for the start-up time of the one that came last. With `Delay = 0` both of the
properties say what the names of the code promise: one LED at a time, and none left on.
The message of `app.py:352` names CAP_NET_ADMIN as a reason; without it the process does
start and ends at once (`EndEarly`), and the pass goes on in silence.

### LabelStore

Files are inodes, because a process that has the temporary file open keeps writing to
it after another one has renamed it. `SaveOpen`, `SaveClose` and `SaveReplace`
are `open(..., "w")`, the flush at the end of `with`, and `os.replace`. `Exit` is
the end of a process at any point. A process begins with what the file holds, with
nothing when there is no file or it does not parse, and also with nothing when it is there
and cannot be opened or read (`Outcomes`, `Unread`, where `ReadFails` allows it).
`promised`, `blind` and `voided` are history variables: what the tool last said was
written, the processes that could not read the file, and the keys whose labels the save
of such a process left out. `Kept` is about the other keys; `AtomicLabels` has both ways
to begin.

### App

Objects belong to the collection that made them; `report` says which collection is
on show. A poll thread reads `report` once, then reads and writes port by port.
What the event loop runs (`_apply`, `_redraw_ports`, key handlers) is one step each.
`gives` says of each port whether its driver puts the speed in sysfs or answers only
ethtool: the collection knows both (`AskEthtool`), the poll only the first (`Merged`).
`asof` is a history variable: how many changes there had been when a collection read
the links. Textual is external: `exclusive=True` cancels an older worker only by name,
its thread goes on.

### Cli, Diff

One action for each part of `main` that can end the call. `ApplyPair` is one turn of the
loop of `_apply_labels` (a `--label` pair into `Labels.entries` and into the report, or
the end of the call), `SaveLabels` the save behind it; an exception that leaves `main`
(a capture or a label file that cannot be written) ends in `raised`. A report is the
ports that `--iface` lets through, in the order of their cards (`Slots`). The machine
has cards that are renamed, unplugged, plugged in and degraded between calls, and whose
permanent address may stop being readable: the key then falls back to the current
address, which may be that of the other card (a bond, the ports of a switch), and then
to the name. `PermAddr` is `udev.py`: the address, nothing, or the text that `ethtool -P`
prints for a driver that has none (`NotSet`), which the code takes for an address. The
`.lower()` of an address is the identity here; addresses are in lower case where they come
from, and a name that is written with capitals is not touched by it.

`RecordWritten` is about the calls that want no terminal. Where one is wanted, `main`
returns from the interface before it saves the recording.

## 3. The runs

| Run | Asks | Bounds and why they are enough |
| --- | --- | --- |
| `collect_serial` | does one context serve calls in a row | 2 calls, 0 to 2 ports each, 2 workers, 1 change of the machine. Two ports are the fewest with a pool, with input order and with two jobs on one key; the second call meets a full cache, or one that an exception left half full |
| `collect_one` | does `collect` end, and implement `MachineAnswers` | 1 call of up to 3 ports on 2 workers, so that a job waits for a worker and is cancelled when another raises; `--no-root`. That a later call repeats the answers is proved (`CollectImplements`) |
| `labels_serial` | is the store atomic when runs do not overlap | 2 processes, 2 keys, 2 texts, 2 inodes (a file and a temporary file are all that one process can hold); a file that is missing, good, or JSON of another shape, and that may be impossible to read whenever a process starts |
| `app_again` | do the panes agree with the report, does a row fit its link, does the screen catch up | 2 collections, 2 poll threads, 1 port, 2 link changes, a driver with and without a speed in sysfs: an older report can replace a newer one, and an older reading a newer one |
| `port` | is every row true or unknown, has an unknown a reason, is every verdict, draft and screen true, does each device and each list get what was printed of it | all paths of 1 and 2 levels over five kinds of device and four listings, with a path that `realpath` gave or did not give, paths of 3 levels under a readable root port, an `lspci` that fails, is not run or prints nothing, and every clock, time stamping, link, PCIe and firmware case around one healthy machine; listings of 2 devices in either order, each of three kinds and four listings, one of its numbers unknown; 3 lists over 2 tokens and the clock in its 3 forms, in every order. The three share no state, so one of them runs and the others rest (`MCNext`) |
| `cli` | what do `--diff`, `--label` and `--record` do | 2 calls out of 13 command lines, 2 changes of the machine, 2 cards, 3 names: enough for a card to be unplugged and the other one to take its name, or its address, between an export and the `--diff` that reads it |
| `capture` | does a replay show what was recorded | 2 ports on one clock, answers that fail or not, one of them with the name of a virtual port, 4 recording and 5 replaying command lines that differ in root, `--no-root`, `--no-ioctl`, `--include-virtual` and `--iface`, each with a port to list; recording runs that die anywhere and are made again |
| `blink` | does every port blink once in turn, and end | 3 ports that come and go in 2 reports, blinks of 2 units that start at once or a unit late, 3 presses of `b` and `B`: a key in the middle of a pass and one more before the LED of the first is dark |
| `collect_race` | is the cache read-only in phase 2 | expected violation |
| `labels_two` | does a label stay with two processes at once | expected violation |
| `app_label_lost` | is a label that was set shown | expected violation |
| `port_endpoint` | is the chain of an integrated endpoint left undecided | expected violation, of the machines of `port` |

The bounds in the modules are `MaxPorts`, `MaxWorld` and `Collections` (Collect),
`Inodes` (LabelStore), `Collections`, `Pollers`, `MaxPort` and `MaxChanges` (App),
`Machines` (Port), `Addresses` and `Cases` (Lspci), `Tokens` (StampText), `MaxChanges`,
`MaxCalls` and `Calls` (Cli), `MaxApplied`, `MaxKeys` and `Delay` (Blink), `RecordFlags`,
`ReplayFlags` and the `Flags` that have a port to list (Capture), where in addition a run records only while there is no whole
capture: a run that records over one is, once it has opened the file, a run that records
over a torn one.

Deadlock is checked in `LabelStore`, `App` and `Capture`.
`Collect`, `Port`, `Cli` and `Blink` really stop: a process has no more calls to make, a
port is evaluated, the calls or keys of the bound are used up. `Ends` and `Drains` are
what says that `collect` and a pass of blinks do not stop anywhere else.

**Fairness.** `Collect`: weak fairness of every thread's steps and of the caller's; the
OS runs each thread, and every command has a timeout (`run.py`), so `produce`
returns. Exceptions and the start of a call are not fair. `App`: weak fairness of
collection threads, of the event loop serving what was posted, and of the
poll timer; the operator and the links are not fair, and `ScreenConverges` needs the
links to stop changing only because `MaxChanges` bounds them. `Blink`: weak fairness of
the 0.25 s timer (`app.py:184`, `set_interval`) and of time; keys, reports and processes
that end early are not fair, and `Drains` needs the operator to stop pressing keys only
because `MaxKeys` bounds them. `LabelStore`, `Port`, `Capture`, `Cli`, `Lspci`
and `StampText` state safety only.

## 4. What was found

The first four are runs that TLC must find violated. The others are cases that a property
of a passing run states exactly, since the property would be violated without its
exception.

1. *Two collections share the cache* (`collect_race`). `r` during a collection starts
   another thread while the first one goes on. `pipeline.py:12-13` says that the cache
   is read-only in phase 2; with two calls it is not. With one call at a time it is,
   and that is proved.
2. *A label is lost between two processes* (`labels_two`). All processes use one name for
   the temporary file. One has written it and is about to rename it, another one opens it
   and so empties it: the first renames an empty file and reports its label as written. A
   longer behaviour, in which the later of two processes saves what it had loaded before
   the other one saved, loses a label as well.
3. *A label is stored and not shown* (`app_label_lost`). When a collection is past
   `labels.apply` while a label is set, its report replaces the labelled one.
4. *The chain of an integrated endpoint is refused* (`port_endpoint`). The branch
   of `_chain_ok` that makes it unknown needs a node whose requester is known and whose
   root is not, and `parse` makes none. The comment in that branch and a test say unknown.
5. *A label file that cannot be read is taken for none* (`labels_serial`, `Kept`): the next
   save puts a file with the labels of that process alone in its place.
6. *A recording that is not written* (`cli`, `RecordWritten`). `nicscope --record FILE` on a
   terminal starts the interface, which returns before the capture is saved; the help
   text gives that call as its example.
7. *"not set" as an address* (`cli`, `DiffHonest`). Ports of drivers without a permanent
   address share the key "not set", and `--diff` sees the last of them only.
8. *Rows that guess* (`port`, `NeverGuesses`). Counts of sysfs that nothing corrects, the chain
   of a card whose path is not known, the firmware verdict of a device whose revision is
   not known, and a link state that cannot be read.
9. *An unknown without a reason* (`port`, `UnknownSaysWhy`). A device listed with
   `<access denied>` or not at all, an `lspci` that prints nothing, a clock that the ioctl
   was not asked about or does not tell of, and ids or a revision that sysfs does not
   give add nothing to `errors`. `Silent` lists them.
10. *A replay that shows another answer* (`capture`, `ReplayFaithful`). A replay of one port
    decides about `--json` for itself and may show the text of `ethtool -T` where the
    recording run showed the JSON.
11. *A replay that takes "not asked" for "not there"* (`capture`, `ReplayReal`), and so leaves
    out a port that the recording run listed without looking for its device.
12. *A blink that outlives its countdown* (`blink`, `InTurnButForStartUp` and
    `FinishedSoonDark`). Nobody keeps the handle of `ethtool -p`; the countdown starts before
    the LED does.
13. *A speed that is lost* (`app_again`, `RowFitsLink`). A speed that only ethtool gave is
    gone after the first poll, while its row still passes.

Two texts of the repository disagree about the Root flag: `lspci.py:12` wants it at
the top of the path, `README.md:132-134` on some level. The code does the latter, and
so does `Carries`, the reference that the chain verdict is compared with.

## 5. What is proved

The proof system checks every theorem for all values of the constants that satisfy
the module's assumption (`CollectAssumption`, `PortAssumption`, `LabelStoreAssumption`,
`AppAssumption`, `BlinkAssumption`, `CaptureAssumption`, `NoneAssumption`,
`CliAssumption`, `LspciAssumption` and `StampTextAssumption`: the
types of the constants, that stand-ins such as `None` are not among the values they stand
beside, for `Cli` that cards are finitely many and their order is a strict total one, and
for `Port` that a machine is one, in particular that its path has a level
and that a `ptm_enabled` file exists only for a device with the capability). What a
theorem assumes beyond that is in its statement.

**Collect.** Two invariants, both in `CollectInv`.

- `AnyInv` holds however the calls overlap. `JobsOnlyHit` alone is not inductive: that a
  job finds its key needs `Filled`, phase 1 has left an answer for all keys behind its
  position, and `CallerPosition`, a call in its port phase has all of phase 1 behind it.
  `OnlyCallersProbe` says that nobody but a caller in phase 1 is inside `produce`.
  `JobPhase` and `YieldedDone` tie the futures to the phase of their call. It
  gives `TypeCorrect`, `JobsNeverProbe`, `NothingLeftBehind` and `ReportsAreWhole`.
- `SerialInv` adds, for `Overlap = FALSE`, that at most one call is active, that
  the check of `cached` is still true when it is acted upon, and that what a port
  recorded is what the cache holds. It gives `AskedOnce`, `ReadOnlyInPhaseTwo`
  and `CollectImplements`, the refinement: initial states map to initial states, `Store`
  maps to `Ask`, `Finish` to `Deliver`, and the rest stutters.

So finding 1 is exact: what breaks is what needs one call at a time, and the four
theorems from `AnyInv` hold even then.

**PTM.** A node is *sound* when what it claims is true of its device. `ReadSound` and
`OverlaySound` show that lspci and the sysfs file make sound nodes; `ChainSound` and
`BlameSound` that the verdict on sound nodes, and the level that is blamed, are
true of the devices, for a path of any length.

**Port.** `PortInv` adds to the types that the facts of each step are there
(`facts.chain` is the chain of the machine once `annotate` has run, and so on).
It gives `PortTypeCorrect`, `ChainVerdictHolds`, `OffReasonHolds`, `DraftsHold` (the rows and
the drafts are functions of the same facts) and `ScreensHonestHolds` (from the soundness
of the nodes).

**Never guesses, never silent.** `GuessInv` is `PortInv` with `facts = After(step,
machine)`. At the end the facts are `FactsOf(machine)`; `FinalFacts` gives them field by
field. `Revealed` shows that the machine with every source answering is a machine again,
`RevealedPath` that its whole path is looked at, `FullChain` that with every listing full no
verdict is unknown, `ChainAgrees` and `FactsAgree` that a known field of the first agrees
with the second, or that one of the conditions of `Guesses` is met, and `RowsAgree` carries
that through the rows (`NeverGuessesHolds`). `ReportInv` adds `Reported`,
every source that was asked and did not answer is in `errors`; with the fields of
both machines side by side it gives `UnknownSaysWhyHolds`.

**LabelStore.** `TypeOK` is inductive for any number of processes, overlapping or not
(`LabelTypeCorrect`). The rest assumes processes one at a time (`~Concurrent`) and a file that
is not torn to begin with. `Kept` is not inductive: `StoreInv` adds `Alone` (one process is
up), `Apart` (the file is never the inode being written), `Saving` (how far a save
is: what was flushed is what the process holds), `Holds` (a process that is up and could
read the file holds what was promised of ports it did not edit) and `Unloadable` (a file of another shape lets no
process in). It gives `NeverTornHolds`, `KeptHolds` and `StoreImplementsAtomic`:
`Load` maps to `Begin`, or to `BeginBlind` where the file could not be read, `Set` to `Edit`, `SaveReplace` to `Save`, `Exit` to `End`, and the other
system calls stutter. All of this holds
whether or not reads may fail (`ReadFails`). Finding 2 is what is left without `~Concurrent`.

**App.** `AppInv`, for any number of overlapping collections and polls, adds to
`ScreenIsReport` what each thread works on (`Shape`: only applied collections;
`PollSane`) and, for collections that are *fresh*, that is, with no change of a link
since they read it, what their objects hold in each phase (`Progress`), what a poll has
read (`Polled`) and what the screen shows (`Screened`). `RowFitsLink` follows from the
last. A change of a link makes every collection stale, so the invariant has nothing to
say of it until a new one.

**Blink.** `InTurn` is inductive by itself, from a lemma on sequences (`MoveHead`:
taking the head of the queue to the end of what was started keeps their concatenation).
The other two need that no process outlives the countdown by more than the time it takes to
start, also those that a replaced queue left behind: a start sets the countdown to as long as
a process blinks, and what a process has in front of it is at most that and its start-up
time. `Pressed` keeps keys of the future out.

**Capture.** `CaptureInv` has `Kept`: a capture holds under the key of a request an answer
that was given to that request, or nothing when there was none; `Along`: a run that saves has
asked everything, and a replay works on what its file holds; `Asked`: what a job has
asked by the time it comes to a request. Together they carry `WholeRecording` through the
two steps of a save and `ReplayReal` through a replay with any options.

**Two runs.** `ReplayFaithful` and `NothingMissing` compare a replay with the recording run it
repeats, and `CaptureInv` says too little for that: that what a replay has was given, not
that it is all there. `ReplayInv` adds what a run has asked for when it is at a request,
exactly: `Must` are the conditions of a request, as a function of the answers that precede
it, and `Exactly` says that a job has asked for what it must and for nothing else (`Orderly`
is that of the run that is up, `Finished` that of the one whose file loads). `GivenTo` counts
the answers: a request has been given one, except the probe, which the first port repeats,
and a clock, which ports share. `Repeats` says that a replay has what its file holds. Where
each request of a port was given one answer, the file holds that answer (`SteadyFor`), both
runs then meet the same conditions one request after the other, and so they show the same. For
the list of ports the recording has an answer for each port that the recording run looked at,
so a replay with the same choice about virtual ports lists the same ones.

**Cli.** `CliInv`, for any cards, names, labels and command lines. A report is `Genuine`: an
address that was read is the card's, the cards are in their order, no two ports have one
name. `Compared` says that a call that came to `--diff` ended with what `Compare` finds in two
genuine reports, so the honesty of `--diff` is a matter of two reports. A comparison finds
nothing exactly when the keys and the rows under them are the same (`NothingChanged`). When
every address was read, the keys are the cards (`PermanentKeys`, `PermanentRows`), which
is `DiffHonestHolds`; a port keyed on "not set" is what takes that away. When ports share a key, the last one is compared (`ByKeyLast`), and that
two collections of the same machine compare the same port both times rests on the order of
the cards (`SameMeansQuiet`): without it `--diff` would find a change where nothing changed.
For `--label`, `Underway` and `InMemory` say what memory, file and report are after each
pair, and `Accepted` that the pairs behind the position were good; a call refused for a pair
is then one that has not saved (`LabelsAllOrNothingHolds`). `RecordWrittenHolds` follows from how
far the call is.

**Parsers.** `LspciInv`: what `parse` holds of a device is `RecordOf` the kinds of lines
that were printed of it, so far (the open block) or in full (`RecordsTold`). A line
keeps that when it is read under the right device and heading, which is `ContextRight`:
while a block is printed its device is the one that is open, `in_ptm` is set exactly
below the PTM heading, and after a message no device is open. `RecordGrows` is one line,
`RecordComplete` the end of a block, `CompleteNode` the comparison with `ReadNode`. For
`ethtool -T`, `BucketRight` is the same thought: the list that is open is the one whose
heading is being printed.

**Only model-checked**: `Ends`, `ScreenConverges` and `Drains`, since liveness under
fairness is out of the prover's reach; the violated runs. Every safety invariant and
action property of a passing run is proved. The other way round, `LspciTypeOK` and
`StampTypeOK` are proved and no run checks them.

## 6. What is not modelled

- The layout of the interface (tabs, columns, the help screen) and the text of the JSON,
  CSV, Markdown and Graphviz exports: pure functions of a report that is given, with no
  state and no interleaving. What they decide about a port is in `Shown`.
- `classify` and `sudo` in `run.py`: which kind a failure has changes its wording, and an
  "unsupported" one adds no error for coalescing, rings and channels (`ethtool.py:316`),
  which no row waits for.
- The remaining texts that `ethtool.py` parses (link modes, coalescing, rings, private flags,
  the module EEPROM) and the inside of `_parse_timestamping_json`: they feed no row but the
  speed, or the same facts by another route; which of the two routes a run shows is in
  `Capture`.
- The decoding of the PTP ioctl structures and of pins: pure decoding.
- Granularity, `kernel_log`, features, the TSN section, the names that udev, DMI and pci.ids
  give: no row, key or exit code depends on them. Of `udev.py` the permanent address is
  modelled, since it is the first key of a port.
- The NUMA row of a replay: it compares the card of the recording with the affinity of the
  process that replays it, which is read outside the two doors of `Capture`.
- Progress callbacks, and the name that the device table gives to a card.
