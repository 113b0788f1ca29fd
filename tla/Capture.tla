------------------------------ MODULE Capture ------------------------------
(***************************************************************************)
(* util/capture.py, fs.py and run.py: a run with --record, its capture     *)
(* file, and a run with --replay against that file, with the requests that *)
(* a collection makes in the order and under the conditions it makes them. *)
(*                                                                         *)
(* A recording keeps one answer per key.  Two requests of one collection   *)
(* can have the same key: the --json probe asks what ethtool.features asks *)
(* of the first port again, and ports that share a clock probe one device. *)
(*                                                                         *)
(* Data: an answer is Failed or one of Values.  The machine gives any      *)
(* answer to any request, so an answer and its put_* are one step: in      *)
(* whatever order threads store what they got, some run of the model got   *)
(* it in that order.  Commands and reads that are made once of every port  *)
(* in every run (udev, ethtool -i, sysfs) behave as "stamp" does.  A       *)
(* directory and the existence of a path are another matter: of those a    *)
(* recording without an answer says that there is nothing there.  The one  *)
(* such request that depends on the options is whether a port has a device *)
(* behind it; the others are made of a clock, a card or a node which an    *)
(* earlier answer has named, so a replay makes them where its recording    *)
(* has them.                                                               *)
(***************************************************************************)
EXTENDS Integers

CONSTANTS
  MaxPort,      \* ports are 1 .. MaxPort, in the order of their names
  Clock,        \* port -> its PTP clock; ports may share one
  Suspect,      \* the ports with the name of a virtual one: bond0, veth3
  Values,       \* what an answer that is not a failure says
  Failed,       \* no answer, or one that cannot be used
  Missing,      \* the request is not in the recording
  NotAsked,     \* the run did not make the request
  RecordFlags,  \* bound: command lines that record
  ReplayFlags,  \* bound: command lines that replay
  Torn,         \* a capture file that does not parse
  None          \* no capture file

Ports == 1 .. MaxPort
Answers == Values \cup {Failed}
Got == Answers \cup {Missing, NotAsked}

\* ports: what --iface lets through; skip: --no-root; ioctl: no --no-ioctl;
\* virtual: --include-virtual; root: the effective user, which a replay does not
\* look at.  Bound: a run has a port to list.
Flags ==
  {f \in [ports : SUBSET Ports, skip : BOOLEAN, ioctl : BOOLEAN, virtual : BOOLEAN,
          root : BOOLEAN] :
     IF f.virtual THEN f.ports # {} ELSE f.ports \ Suspect # {}}

ASSUME CaptureAssumption ==
  /\ MaxPort \in Nat \ {0} /\ Clock \in [Ports -> Ports] /\ Suspect \subseteq Ports
  /\ Failed \notin Values /\ {Missing, NotAsked} \cap Answers = {} /\ Missing # NotAsked
  /\ RecordFlags \subseteq Flags /\ ReplayFlags \subseteq Flags

-----------------------------------------------------------------------------
(* Requests                                                                *)

\* What the job of a port asks for, in order: `ethtool -T`, the same with
\* --json, the ioctl on the clock, `ethtool --json -k`, `ethtool -k`.
Kind == <<"stamp", "stamp json", "ioctl", "features json", "features">>
Kinds == {"stamp", "stamp json", "ioctl", "features json", "features"}

Request(kind, p) == <<kind, IF kind = "ioctl" THEN Clock[p] ELSE p>>
LspciRequest == <<"lspci", 0>>
\* _is_virtual: is there /sys/class/net/<port>/device.
DeviceRequest(p) == <<"device", p>>
Requests == (Kinds \X Ports) \cup {DeviceRequest(p) : p \in Ports} \cup {LspciRequest}

\* Deviation for a mutant: the key leaves the interface out.
Key_NoDevice(request) == <<request[1], 0>>
\* cmd_key, fs_key: the whole request.
Key(request) == request
Keys == Requests \cup {<<k, 0>> : k \in Kinds \cup {"device"}}

Empty == [k \in Keys |-> Missing]
NoAnswers == [p \in Ports |-> [k \in Kinds |-> NotAsked]]
NoListing == [p \in Ports |-> NotAsked]

VARIABLES
  mode,    \* "off", "record" or "replay": the run that is up
  flags,   \* of the run: its command line
  pc,      \* of the run: where collect() and main() are
  listing, \* of the run: port -> is there a device behind it
  probe,   \* of the run: the answer that decides json_supported
  lspci,   \* of the run: the answer of lspci
  got,     \* of the run: port -> kind -> answer
  pos,     \* of the run: port -> index in Kind
  store,   \* Capture.fs and .commands: key -> answer
  meta,    \* Capture.meta["privileged"], FALSE when there is no meta
  file,    \* the capture file: [store, meta], Torn, or None
  given,   \* request -> the answers this recording run got (history)
  taken    \* of the run that wrote the file: what it got (history), or None

runVars == <<flags, listing, probe, lspci, got, pos>>
vars == <<mode, flags, listing, pc, probe, lspci, got, pos, store, meta, file, given, taken>>

Stores == [Keys -> Answers \cup {Missing}]
Takes == [flags : Flags, listing : [Ports -> Got], probe : Got, lspci : Got, got : [Ports -> [Kinds -> Got]],
          given : [Requests -> SUBSET Answers]]

ASSUME NoneAssumption == None \notin Takes

TypeOK ==
  /\ mode \in {"off", "record", "replay"}
  /\ pc \in {"probe", "lspci", "ports", "meta", "save", "dump", "over"}
  /\ flags \in Flags /\ listing \in [Ports -> Got] /\ probe \in Got /\ lspci \in Got
  /\ got \in [Ports -> [Kinds -> Got]] /\ pos \in [Ports -> 1 .. 6]
  /\ store \in Stores /\ meta \in BOOLEAN
  /\ file \in [store : Stores, meta : BOOLEAN] \cup {Torn, None}
  /\ given \in [Requests -> SUBSET Answers]
  /\ taken \in Takes \cup {None}

AllPorts == [ports |-> Ports, skip |-> FALSE, ioctl |-> TRUE, virtual |-> TRUE, root |-> TRUE]
Init ==
  /\ mode = "off" /\ pc = "over" /\ flags = AllPorts /\ listing = NoListing
  /\ probe = NotAsked /\ lspci = NotAsked /\ got = NoAnswers /\ pos = [p \in Ports |-> 1]
  /\ store = Empty /\ meta = FALSE /\ file = None
  /\ given = [r \in Requests |-> {}] /\ taken = None

-----------------------------------------------------------------------------
(* The two doors                                                           *)

\* What a replay answers.  fs.exists: what is not in the recording does not exist.
Replayed(request) ==
  IF store[Key(request)] = Missing /\ request[1] = "device" THEN Failed ELSE store[Key(request)]

\* Deviation for a mutant: a failure is not recorded.
Answered_OnlyGood(request, a) ==
  IF mode = "replay"
    THEN a = Replayed(request) /\ UNCHANGED <<store, given>>
    ELSE /\ a \in Answers
         /\ store' = IF a = Failed THEN store ELSE [store EXCEPT ![Key(request)] = a]
         /\ given' = [given EXCEPT ![request] = @ \cup {a}]
\* CommandRunner.run and Filesystem.cached, .exists: a live answer, which put_cmd or
\* put_fs stores over an earlier one, or what the recording holds.
Answered(request, a) ==
  IF mode = "replay"
    THEN a = Replayed(request) /\ UNCHANGED <<store, given>>
    ELSE /\ a \in Answers
         /\ store' = [store EXCEPT ![Key(request)] = a]
         /\ given' = [given EXCEPT ![request] = @ \cup {a}]

\* Deviation for a mutant: it is always the user of this process.
Root_Euid == flags.root
\* is_root: in a replay it is the recording that says it.
Root == IF mode = "replay" THEN meta ELSE flags.root

-----------------------------------------------------------------------------
(* collect()                                                               *)

\* _is_virtual, of one name after the other, --iface or not.
Look(p) ==
  /\ mode # "off" /\ pc = "probe" /\ ~flags.virtual
  /\ listing[p] = NotAsked /\ \A q \in Ports : q < p => listing[q] # NotAsked
  /\ \E a \in Got : Answered(DeviceRequest(p), a) /\ listing' = [listing EXCEPT ![p] = a]
  /\ UNCHANGED <<mode, flags, pc, probe, lspci, got, pos, meta, file, taken>>

\* list_interfaces: the ports of a run.
Listed(f, answers) == {p \in f.ports : f.virtual \/ answers[p] \in Values \/ p \notin Suspect}
Names == Listed(flags, listing)

FirstPort(ports) == CHOOSE p \in ports : \A q \in ports : p <= q
Json == probe \in Values

\* json_supported(names[0]).
Probe ==
  /\ mode # "off" /\ pc = "probe" /\ pc' = "lspci"
  /\ flags.virtual \/ \A p \in Ports : listing[p] # NotAsked
  /\ \E a \in Got : Answered(Request("features json", FirstPort(Names)), a) /\ probe' = a
  /\ UNCHANGED <<mode, flags, listing, lspci, got, pos, meta, file, taken>>

\* lspci.scan.
MayScan == Root \/ ~flags.skip
Scan ==
  /\ mode # "off" /\ pc = "lspci" /\ pc' = "ports"
  /\ IF MayScan THEN \E a \in Got : Answered(LspciRequest, a) /\ lspci' = a
     ELSE UNCHANGED <<lspci, store, given>>
  /\ UNCHANGED <<mode, flags, listing, probe, got, pos, meta, file, taken>>

\* The conditions under which the job of port p makes a request.
Wants(p, kind) ==
  CASE kind = "stamp" -> TRUE
    [] kind = "stamp json" -> got[p]["stamp"] \in Values /\ Json
    [] kind = "ioctl" -> got[p]["stamp"] \in Values /\ flags.ioctl
    [] kind = "features json" -> Json
    [] kind = "features" -> got[p]["features json"] \notin Values

\* Deviation for a mutant: a job steps over a request.
Ask_Steps(p) ==
  /\ mode # "off" /\ pc = "ports" /\ p \in Names /\ pos[p] < 6
  /\ Wants(p, Kind[pos[p]])
  /\ \E a \in Got : /\ Answered(Request(Kind[pos[p]], p), a)
                    /\ got' = [got EXCEPT ![p][Kind[pos[p]]] = a]
  /\ pos' = [pos EXCEPT ![p] = @ + 2]
  /\ UNCHANGED <<mode, flags, listing, pc, probe, lspci, meta, file, taken>>
Ask(p) ==
  /\ mode # "off" /\ pc = "ports" /\ p \in Names /\ pos[p] < 6
  /\ Wants(p, Kind[pos[p]])
  /\ \E a \in Got : /\ Answered(Request(Kind[pos[p]], p), a)
                    /\ got' = [got EXCEPT ![p][Kind[pos[p]]] = a]
  /\ pos' = [pos EXCEPT ![p] = @ + 1]
  /\ UNCHANGED <<mode, flags, listing, pc, probe, lspci, meta, file, taken>>

Skip(p) ==
  /\ mode # "off" /\ pc = "ports" /\ p \in Names /\ pos[p] < 6
  /\ ~Wants(p, Kind[pos[p]])
  /\ pos' = [pos EXCEPT ![p] = @ + 1]
  /\ UNCHANGED <<mode, flags, listing, pc, probe, lspci, got, store, meta, file, given, taken>>

AllAsked == \A p \in Names : pos[p] = 6
\* Deviation for a mutant: the capture is saved while jobs still run.
Return_Early ==
  /\ mode # "off" /\ pc = "ports"
  /\ pc' = IF mode = "record" THEN "meta" ELSE "over"
  /\ UNCHANGED <<mode, runVars, store, meta, file, given, taken>>
\* collect() returns.
Return ==
  /\ mode # "off" /\ pc = "ports" /\ AllAsked
  /\ pc' = IF mode = "record" THEN "meta" ELSE "over"
  /\ UNCHANGED <<mode, runVars, store, meta, file, given, taken>>

-----------------------------------------------------------------------------
(* main()                                                                  *)

Begin(m, f) ==
  /\ mode = "off" /\ mode' = m /\ flags' = f /\ pc' = "probe"
  /\ listing' = NoListing /\ probe' = NotAsked /\ lspci' = NotAsked
  /\ got' = NoAnswers /\ pos' = [p \in Ports |-> 1]
  /\ UNCHANGED <<file, given, taken>>

\* --record: make_context begins with an empty Capture.  Bound: only while there
\* is no whole capture; a run that records over one is, from SaveOpen on, a run
\* that records over a torn one.
StartRecord ==
  /\ taken = None
  /\ \E f \in RecordFlags : Begin("record", f)
  /\ store' = Empty /\ meta' = FALSE

\* --replay: Capture.load.  A file that is missing or torn makes it raise.
StartReplay ==
  /\ file \notin {None, Torn}
  /\ \E f \in ReplayFlags : Begin("replay", f)
  /\ store' = file.store /\ meta' = file.meta

\* capture.meta = {...}.
SetMeta ==
  /\ pc = "meta" /\ pc' = "save" /\ meta' = flags.root
  /\ UNCHANGED <<mode, runVars, store, file, given, taken>>

\* save(): open(path, "w") empties the file, json.dump fills it.
SaveOpen ==
  /\ pc = "save" /\ pc' = "dump"
  /\ file' = Torn /\ taken' = None
  /\ UNCHANGED <<mode, runVars, store, meta, given>>
SaveDump ==
  /\ pc = "dump" /\ pc' = "over"
  /\ file' = [store |-> store, meta |-> meta]
  /\ taken' = [flags |-> flags, listing |-> listing, probe |-> probe, lspci |-> lspci,
               got |-> got, given |-> given]
  /\ UNCHANGED <<mode, runVars, store, meta, given>>

\* The process ends: it is done, or it is killed, or an exception leaves main().
End ==
  /\ mode # "off" /\ mode' = "off" /\ pc' = "over"
  /\ flags' = AllPorts /\ listing' = NoListing /\ probe' = NotAsked /\ lspci' = NotAsked
  /\ got' = NoAnswers /\ pos' = [p \in Ports |-> 1]
  /\ store' = Empty /\ meta' = FALSE /\ given' = [r \in Requests |-> {}]
  /\ UNCHANGED <<file, taken>>

Next ==
  \/ StartRecord \/ StartReplay
  \/ (\E p \in Ports : Look(p) \/ Ask(p) \/ Skip(p)) \/ Probe \/ Scan \/ Return
  \/ SetMeta \/ SaveOpen \/ SaveDump \/ End

Spec == Init /\ [][Next]_vars

-----------------------------------------------------------------------------
(* Properties                                                              *)

Replaying == mode = "replay"
Loads == file \notin {None, Torn}

\* What the report says of a port: for each part the command and its answer, where
\* the JSON form goes before the text.
Best(answers, json, text) ==
  IF answers[json] \in Values THEN <<json, answers[json]>> ELSE <<text, answers[text]>>
Shown(answers, p) ==
  [stamp |-> Best(answers[p], "stamp json", "stamp"), clock |-> answers[p]["ioctl"],
   features |-> Best(answers[p], "features json", "features")]

\* The ports of the run that was recorded.
TakenNames == Listed(taken.flags, taken.listing)

\* The machine did not change its mind about a request.
Steady(request) == \A a, b \in taken.given[request] : a = b
ProbeRequest == Request("features json", FirstPort(TakenNames))
SteadyFor(p) == Steady(ProbeRequest) /\ \A k \in Kinds : Steady(Request(k, p))

\* The replay decides for or against --json as the recording run did; or it is about
\* one port, which then decides for itself, and whose time stamps were not shown
\* from JSON.
SameRoute ==
  \/ Json <=> taken.probe \in Values
  \/ \E p \in Ports : Names = {p} /\ taken.got[p]["stamp json"] \notin Values

\* README.md:190-192, "--replay runs the whole tool against that file": a replay
\* lists the ports that the recording run listed, as far as both let them through,
\* and shows of a port what that run showed, also when it is about fewer ports and
\* whatever the other ports' answers did, unless the machine gave two answers to one
\* request of this port.  Not so when a replay of one port comes to another answer
\* about --json than the recording run, ethtool.py:43-56: then it shows the text of
\* `ethtool -T` where the run showed the JSON.
ReplayFaithful ==
  Replaying /\ pc = "over" =>
    /\ flags.virtual = taken.flags.virtual =>
         Names \cap taken.flags.ports = TakenNames \cap flags.ports
    /\ flags.ioctl = taken.flags.ioctl /\ SameRoute =>
         \A p \in Names \cap TakenNames : SteadyFor(p) => Shown(got, p) = Shown(taken.got, p)

\* capture.py:3-5, run.py:64: a replay shows no answer that the machine did not give
\* to that very request, whatever the options of the two runs were, and says so of
\* what it has not.  Not so of fs.py:57 and 69: it says that there is no device behind
\* a port when nobody had asked.
ReplayReal ==
  Replaying =>
    /\ \A p \in Ports, k \in Kinds :
         got[p][k] \in Answers => got[p][k] \in taken.given[Request(k, p)]
    /\ lspci \in Answers => lspci \in taken.given[LspciRequest]
    /\ \A p \in Ports :
         listing[p] \in Answers =>
           \/ listing[p] \in taken.given[DeviceRequest(p)]
           \/ listing[p] = Failed /\ taken.flags.virtual /\ ~flags.virtual

\* run.py:57-66: a replay with the options of the recording, by any user, asks
\* for what the recording has.  It can only miss something when the --json probe
\* and the request that repeats it were answered in two ways.
NothingMissing ==
  Replaying /\ [flags EXCEPT !.root = taken.flags.root] = taken.flags /\ Steady(ProbeRequest) =>
    /\ Missing \notin {probe, lspci}
    /\ pc = "over" => lspci = taken.lspci
    /\ \A p \in Ports, k \in Kinds : got[p][k] # Missing
    /\ \A p \in Ports : listing[p] # NotAsked => store[Key(DeviceRequest(p))] # Missing

\* capture.py:59: a capture file that loads is the recording of a whole
\* collection, with the user who made it, wherever a recording run died.
WholeRecording ==
  Loads =>
    /\ taken # None /\ file.meta = taken.flags.root
    /\ \A r \in Requests : IF taken.given[r] = {} THEN file.store[Key(r)] = Missing
                            ELSE file.store[Key(r)] \in taken.given[r]
    /\ taken.flags.virtual \/ \A p \in Ports : file.store[Key(DeviceRequest(p))] # Missing
    /\ \A p \in TakenNames :
         Shown(taken.got, p).stamp[2] # NotAsked /\ Shown(taken.got, p).features[2] # NotAsked
=============================================================================
