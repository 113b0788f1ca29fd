-------------------------------- MODULE Port --------------------------------
(***************************************************************************)
(* The life of one port in a collection: sysfs.collect, then the steps of  *)
(* pipeline._per_interface, then readiness.evaluate.  Each step asks one   *)
(* source, which may not answer, writes what it learns into the Interface  *)
(* and adds a Problem to Interface.errors where the code does.             *)
(*                                                                         *)
(* machine is the truth about the port and says which of its sources       *)
(* answer; facts is what the Interface knows of it.  The steps that no row *)
(* of the table depends on (udev, features, module, tsn.collect) are left  *)
(* out.                                                                    *)
(***************************************************************************)
EXTENDS Shown

CONSTANT Machines   \* the machines a run looks at

\* A clock has ext inputs and per outputs; sysfs may lag behind the driver and tell
\* of other ones (toldExt, toldPer), or of none (-1).  The ioctl: --no-ioctl; a device
\* that cannot be opened; a recording without an answer; a device that opens and
\* refuses GETCAPS; a device that answers.
Clocks == [entry : BOOLEAN, toldExt : Counts, toldPer : Counts, ext : 0 .. 1, per : 0 .. 1,
           ioctl : {"off", "denied", "silent", "no caps", "runs"},
           cross : {"precise", "claimed", "extended"}]
Stamps == [answers : BOOLEAN, phc : {"unread", "none", "some"},
           tx : SUBSET TxTypes, rx : SUBSET RxFilters]
LinkFacts == [state : {"up", "down"}, operstate : BOOLEAN, speed : {100, 1000},
              sysfs : BOOLEAN, settings : BOOLEAN, plan : Plans]
\* The entry of devices.json for the card: its known-good list, the verdict that is
\* the device's own, and the one of the rule for its revision (the same where the
\* table has no such rule).  ids and revision: sysfs gives them.
Entries == {"none", "good", "old", "other"}
Firmwares == [answers : BOOLEAN, reported : BOOLEAN, ids : BOOLEAN, revision : BOOLEAN,
              list : {"none", "in", "out"}, device : Entries, rule : Entries]
PcieFacts == [sysfs : BOOLEAN, narrow : BOOLEAN]
\* walked: realpath gives the path above the card.  A scan that is "empty" ended well
\* and printed nothing.
PtmFacts == [pci : BOOLEAN, walked : BOOLEAN, scan : {"ok", "failed", "disabled", "empty"},
             path : Seq(Devices), listing : Seq(Listings), hasFile : Seq(BOOLEAN), kernel : Tri]

MachineOK(m) ==
  /\ m \in [stamp : Stamps, clock : Clocks, link : LinkFacts, firmware : Firmwares,
            pcie : PcieFacts, ptm : PtmFacts,
            numa : {"unread", "no mask", "single", "same", "remote"}]
  /\ Len(m.ptm.path) >= 1 /\ Len(m.ptm.listing) = Len(m.ptm.path)
  /\ Len(m.ptm.hasFile) = Len(m.ptm.path)
  /\ \A i \in 1 .. Len(m.ptm.path) : m.ptm.hasFile[i] => m.ptm.path[i].ptm

ASSUME PortAssumption == \A m \in Machines : MachineOK(m)

VARIABLES machine, step, facts, errors, rows

vars == <<machine, step, facts, errors, rows>>

Sources == {"ethtool_i", "ethtool", "ethtool_T", "ptp", "ioctl", "lspci"}
NoRows == [r \in RowNames |-> "unknown"]

TypeOK ==
  /\ MachineOK(machine) /\ step \in 0 .. 7
  /\ facts \in Facts
  /\ errors \subseteq Sources
  /\ rows \in [RowNames -> Results]

\* A new Interface.
Empty ==
  [phc |-> "unread", tx |-> {}, rx |-> {}, ext |-> -1, per |-> -1, cross |-> "unread",
   state |-> "unread", speed |-> -1, chain |-> << >>, chainOk |-> "unknown",
   degraded |-> "unknown", firmware |-> "unknown", numa |-> "unread"]

Init ==
  /\ machine \in Machines
  /\ step = 0 /\ facts = Empty /\ errors = {} /\ rows = NoRows

-----------------------------------------------------------------------------
(* What each source leaves in the facts, as a function of the machine      *)

\* sysfs.collect: a speed that cannot be read, or is negative, is unknown.
FromSysfs(m, f) ==
  [f EXCEPT !.state = IF m.link.operstate THEN m.link.state ELSE "unread",
            !.speed = IF m.link.sysfs THEN m.link.speed ELSE -1,
            !.degraded = IF m.ptm.pci /\ m.pcie.sysfs THEN AsTri(m.pcie.narrow) ELSE "unknown",
            !.numa = IF m.ptm.pci THEN m.numa ELSE "unread"]

\* tsn.device_note: a rule needs a revision that can be read, the device's own
\* verdict does not.
DeviceNote(m) == IF m.firmware.revision THEN m.firmware.rule ELSE m.firmware.device
\* tsn.firmware_verdict, on the firmware that `ethtool -i` reports.
FirmwareVerdict(m) ==
  IF ~m.firmware.answers \/ ~m.firmware.reported THEN "unknown"
  ELSE IF ~m.ptm.pci \/ ~m.firmware.ids THEN "unknown"
  ELSE CASE m.firmware.list = "in" -> "good"
         [] m.firmware.list = "out" -> "old"
         [] OTHER -> IF DeviceNote(m) = "none" THEN "unknown" ELSE DeviceNote(m)

\* ethtool.settings: `ethtool <dev>` fills in a speed that sysfs did not give.
FromSettings(m, f) ==
  [f EXCEPT !.speed = IF m.link.settings /\ @ = -1 THEN m.link.speed ELSE @]

\* ethtool.timestamping.
FromStamp(m, f) ==
  IF ~m.stamp.answers THEN f
  ELSE [f EXCEPT !.phc = m.stamp.phc, !.tx = m.stamp.tx, !.rx = m.stamp.rx]

\* ptp.collect, for a port with a clock: the attributes, then the ioctl, whose counts
\* replace those of sysfs.  Without GETCAPS a precise reading is all that it can show.
HasClock(f) == f.phc = "some"
Cross(clock) ==
  CASE clock.ioctl \in {"off", "silent"} -> "unread"
    [] clock.ioctl = "denied" -> "unknown"
    [] clock.ioctl = "no caps" -> IF clock.cross = "precise" THEN "precise" ELSE "unknown"
    [] OTHER -> clock.cross
FromPtp(m, f) ==
  IF ~HasClock(f) \/ ~m.clock.entry THEN f
  ELSE [f EXCEPT !.ext = IF m.clock.ioctl = "runs" THEN m.clock.ext ELSE m.clock.toldExt,
                 !.per = IF m.clock.ioctl = "runs" THEN m.clock.per ELSE m.clock.toldPer,
                 !.cross = Cross(m.clock)]

\* `iface.pci.path or [iface.pci.bdf]`: without a path, the card stands alone.
Walked(m, levels) == IF m.ptm.walked THEN levels ELSE <<levels[Len(levels)]>>
LookedAt(m) == Walked(m, m.ptm.path)
Blocks(m) ==
  [i \in 1 .. Len(LookedAt(m)) |->
     IF m.ptm.scan = "ok" THEN Walked(m, m.ptm.listing)[i] ELSE "missing"]
\* annotate(): a node for every level that is looked at, and the chain rule.  Numbers
\* of the PCIe link that sysfs did not give come from the card's lspci block.
Chain(m) ==
  [i \in 1 .. Len(LookedAt(m)) |->
     Overlay(ReadNode(LookedAt(m)[i], Blocks(m)[i]), LookedAt(m)[i],
             Walked(m, m.ptm.hasFile)[i])]
CardListed(m) == m.ptm.scan = "ok" /\ m.ptm.listing[Len(m.ptm.path)] \in {"full", "header"}
FromLspci(m, f) ==
  IF ~m.ptm.pci THEN f
  ELSE [f EXCEPT !.chain = Chain(m), !.chainOk = ChainOk(Chain(m)),
                 !.degraded = IF @ = "unknown" /\ CardListed(m) THEN AsTri(m.pcie.narrow) ELSE @]

-----------------------------------------------------------------------------
(* The steps                                                               *)

\* Deviation for a mutant: only the first problem of a port is kept.
Problem_First(source, happens) ==
  errors' = IF happens /\ errors = {} THEN {source} ELSE errors
\* Interface.add_error, with a reason: without one it does nothing.
Problem(source, happens) == errors' = IF happens THEN errors \cup {source} ELSE errors
Move == step' = step + 1 /\ UNCHANGED machine

Sysfs ==
  /\ step = 0 /\ Move
  /\ facts' = FromSysfs(machine, facts)
  /\ UNCHANGED <<errors, rows>>

DriverInfo ==
  /\ step = 1 /\ Move
  /\ Problem("ethtool_i", ~machine.firmware.answers)
  /\ UNCHANGED <<facts, rows>>

Settings ==
  /\ step = 2 /\ Move
  /\ facts' = FromSettings(machine, facts)
  /\ Problem("ethtool", ~machine.link.settings)
  /\ UNCHANGED rows

Timestamping ==
  /\ step = 3 /\ Move
  /\ facts' = FromStamp(machine, facts)
  /\ Problem("ethtool_T", ~machine.stamp.answers)
  /\ UNCHANGED rows

\* Deviation for a mutant: a port without a clock ends the job.
PtpCollect_Leaves ==
  /\ step = 4
  /\ step' = IF HasClock(facts) THEN 5 ELSE 8
  /\ UNCHANGED <<machine, facts, errors, rows>>
\* ptp.collect.
PtpCollect ==
  /\ step = 4 /\ Move
  /\ facts' = FromPtp(machine, facts)
  /\ IF HasClock(facts) /\ ~machine.clock.entry THEN Problem("ptp", TRUE)
     ELSE Problem("ioctl", HasClock(facts) /\ machine.clock.ioctl = "denied")
  /\ UNCHANGED rows

\* annotate(): a scan that ended well and printed nothing has "" for a reason.
Annotate ==
  /\ step = 5 /\ Move
  /\ facts' = FromLspci(machine, facts)
  /\ Problem("lspci", machine.ptm.pci /\ machine.ptm.scan \in {"failed", "disabled"})
  /\ UNCHANGED rows

\* evaluate(): the firmware row is judged here, against the device table.
Evaluate ==
  /\ step = 6 /\ Move
  /\ facts' = [facts EXCEPT !.firmware = FirmwareVerdict(machine)]
  /\ rows' = Rows(facts', machine.link.plan)
  /\ UNCHANGED errors

Next == Sysfs \/ DriverInfo \/ Settings \/ Timestamping \/ PtpCollect \/ Annotate \/ Evaluate

Spec == Init /\ [][Next]_vars

-----------------------------------------------------------------------------
(* Properties                                                              *)

Done == step = 7

\* The same machine with every source answering: root, a new lspci, drivers
\* that reply.
Reveal(m) ==
  [stamp |-> [m.stamp EXCEPT !.answers = TRUE],
   clock |-> [m.clock EXCEPT !.entry = TRUE, !.ioctl = "runs"],
   link |-> [m.link EXCEPT !.operstate = TRUE, !.sysfs = TRUE, !.settings = TRUE],
   firmware |-> [m.firmware EXCEPT !.answers = TRUE, !.ids = TRUE, !.revision = TRUE],
   pcie |-> [m.pcie EXCEPT !.sysfs = TRUE],
   ptm |-> [m.ptm EXCEPT !.walked = TRUE, !.scan = "ok",
                         !.listing = [i \in 1 .. Len(@) |-> "full"]],
   numa |-> m.numa]
FactsOf(m) ==
  [FromLspci(m, FromPtp(m, FromStamp(m, FromSettings(m, FromSysfs(m, Empty)))))
     EXCEPT !.firmware = FirmwareVerdict(m)]
TruthOf(m) == Rows(FactsOf(Reveal(m)), m.link.plan)

\* What the code takes for an answer and is none, or not the clock's or the card's:
\* a link state that cannot be read (readiness.py:244), a count of sysfs that no ioctl
\* corrects (ptp.py:108), a chain of the card alone where there is a path
\* (lspci.py:155), and the verdict on a device whose revision is not known
\* (tsn.py:106-115).
Guesses(r) ==
  \/ r = "link_speed" /\ ~machine.link.operstate
  \/ r = "pps_input" /\ machine.clock.ioctl # "runs" /\ machine.clock.toldExt # machine.clock.ext
  \/ r = "pps_output" /\ machine.clock.ioctl # "runs" /\ machine.clock.toldPer # machine.clock.per
  \/ r = "ptm_chain" /\ ~machine.ptm.walked /\ Len(machine.ptm.path) > 1
  \/ r = "firmware" /\ ~machine.firmware.revision /\ machine.firmware.device # machine.firmware.rule

\* readiness.py:8-9, "unknown is not pass ... it never guesses": whatever did
\* not answer, a row is the one that a run with every answer shows, or it is
\* "unknown", but for the five rows that Guess.
NeverGuesses ==
  Done => \A r \in RowNames :
    rows[r] \in {"unknown", TruthOf(machine)[r]} \/ Guesses(r)

\* README.md:132-134 and readiness.py:179: a chain that passes carries PTM, one
\* that is refused does not, and the level that is named is really at fault; of
\* the levels that were looked at, which are the path where sysfs gave one.
ChainVerdict ==
  Done /\ machine.ptm.pci =>
    /\ facts.chainOk = "yes" => Carries(LookedAt(machine))
    /\ facts.chainOk = "no" => /\ ~Carries(LookedAt(machine))
                               /\ TrueBreak(LookedAt(machine), BrokenLink(facts.chain))

\* lspci.py:249-250 and tests/test_lspci_and_dmi.py:132: a card with no device above
\* it "has no PCI device above it, so nothing carries the Root flag", and its chain is
\* "unknown not false".
AloneNotRefused ==
  Done /\ machine.ptm.pci /\ machine.ptm.walked /\ Len(machine.ptm.path) = 1
    /\ Endpoint(facts).requester = "yes" => facts.chainOk # "no"

\* readiness.py:194: the ptm_enabled row blames the capability only when the
\* card lacks it, and the kernel only when the card has it.
OffReason ==
  Done /\ machine.ptm.pci /\ rows["ptm_enabled"] = "warn" =>
    (WhyOff(facts, machine.ptm.kernel) = "no capability"
       <=> ~machine.ptm.path[Len(machine.ptm.path)].ptm)

\* The sources that a row waits for.
SourcesOf(r) ==
  CASE r \in {"phc_present", "hw_tx_timestamp", "hw_rx_filter", "one_step"} -> {"ethtool_T"}
    [] r \in {"pps_input", "pps_output", "cross_timestamp"} -> {"ethtool_T", "ptp", "ioctl"}
    [] r \in {"ptm_endpoint", "ptm_chain", "ptm_enabled", "pcie_link"} -> {"lspci"}
    [] r = "link_speed" -> {"ethtool"}
    [] r = "firmware" -> {"ethtool_i"}
    [] OTHER -> {}

\* What the code does not report: a level that lspci lists as denied or undecoded or
\* not at all, and a scan that printed nothing; a clock that the ioctl does not tell
\* of, with --no-ioctl, from a recording that has no answer, or after a refused
\* GETCAPS; and the ids or the revision of a card that sysfs does not give.
Silent(r) ==
  LET levels == Walked(machine, machine.ptm.listing)
  IN \/ r = "ptm_chain" /\ \E i \in 1 .. Len(levels) : levels[i] # "full"
     \/ r \in {"ptm_endpoint", "ptm_enabled", "pcie_link"} /\ levels[Len(levels)] # "full"
     \/ r \in {"ptm_endpoint", "ptm_chain", "ptm_enabled", "pcie_link"} /\ machine.ptm.scan = "empty"
     \/ /\ r \in {"pps_input", "pps_output", "cross_timestamp"}
        /\ machine.clock.ioctl \in {"off", "silent", "no caps"}
     \/ r = "firmware" /\ ~(machine.firmware.ids /\ machine.firmware.revision)

\* model.py:6-7, "Every None that comes from a failure has a matching entry in the
\* nearest errors list": a row that is unknown, and would not be if everything
\* had answered, has the error of a source it waits for, but for what is Silent.
UnknownSaysWhy ==
  Done => \A r \in RowNames :
    rows[r] = "unknown" /\ TruthOf(machine)[r] # "unknown" =>
      SourcesOf(r) \cap errors # {} \/ Silent(r)

\* readiness.py:347 and linuxptp.py:121: what is drafted agrees with the rows,
\* although neither looks at them.  A command or a section is there only for a
\* port whose rows say that what it needs is there; a receive filter that the
\* table fails is at least warned of; a port that is left out is left out for the
\* reason that its rows give.
DraftsFollowRows ==
  Done =>
    /\ Commands(facts) # {} => rows["phc_present"] = "pass"
    /\ "ts2phc" \in Commands(facts) <=> rows["pps_input"] = "pass"
    /\ "pps_out" \in Commands(facts) <=> rows["pps_output"] = "pass"
    /\ TakesPps(facts) <=> "ts2phc" \in Commands(facts)
    /\ CanStamp(facts) =>
         /\ rows["phc_present"] = "pass" /\ rows["hw_tx_timestamp"] = "pass"
         /\ rows["hw_rx_filter"] = "pass" \/ "filter" \in Warnings(facts)
         /\ OneStepFile({facts}) => rows["one_step"] = "pass"
         /\ "chain" \in Warnings(facts) <=> rows["ptm_chain"] = "warn"
    /\ ~CanStamp(facts) =>
         CASE WhyNot(facts) = "no answer" -> rows["phc_present"] = "unknown"
           [] WhyNot(facts) = "no PHC" -> rows["phc_present"] = "fail"
           [] WhyNot(facts) = "no transmit mode" -> rows["hw_tx_timestamp"] = "fail"
           [] OTHER -> rows["hw_rx_filter"] = "fail"

\* format.py:77-87, dot.py:8-12 and topology.py:62-66: what the screens say of PTM
\* in a word or a colour is true of the devices that were looked at, whichever of
\* lspci and sysfs it came from.
ScreensHonest ==
  Done /\ machine.ptm.pci =>
    LET path == LookedAt(machine)
        card == path[Len(path)]
    IN /\ PtmCell(facts) = "on" => card.enabled /\ Carries(path)
       /\ PtmCell(facts) = "on?" => card.enabled
       /\ PtmCell(facts) = "off" => card.requester /\ ~card.enabled
       /\ PtmCell(facts) = "no" => ~card.requester
       /\ \A i \in 1 .. Len(path) :
            /\ Colour(facts.chain[i]) = "green" => path[i].enabled
            /\ Colour(facts.chain[i]) = "yellow" => path[i].ptm /\ ~path[i].enabled
            /\ TopologyNote(facts.chain[i]) = "no PTM capability" => ~path[i].ptm
=============================================================================
