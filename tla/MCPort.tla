------------------------------- MODULE MCPort -------------------------------
(* Instances of Port, Lspci and StampText for TLC.  Port: one healthy       *)
(* machine, and variations of it, a part at a time.  The two parsers share *)
(* no state with it nor with each other, so that one of the three runs in  *)
(* a behaviour, and the other two rest.                                    *)
EXTENDS Port, Lspci, StampText

CONSTANTS reading, off, all

NoPtm == [ptm |-> FALSE, requester |-> FALSE, responder |-> FALSE, root |-> FALSE,
          enabled |-> FALSE]
Card == [NoPtm EXCEPT !.ptm = TRUE, !.requester = TRUE, !.enabled = TRUE]
OffCard == [Card EXCEPT !.enabled = FALSE]
Bridge == [NoPtm EXCEPT !.ptm = TRUE, !.responder = TRUE]
RootPort == [Bridge EXCEPT !.root = TRUE]

Healthy ==
  [stamp |-> [answers |-> TRUE, phc |-> "some", tx |-> {"off", "on"}, rx |-> {"all"}],
   clock |-> [entry |-> TRUE, toldExt |-> 1, toldPer |-> 1, ext |-> 1, per |-> 1,
              ioctl |-> "runs", cross |-> "precise"],
   link |-> [state |-> "up", operstate |-> TRUE, speed |-> 1000, sysfs |-> TRUE, settings |-> TRUE, plan |-> 0],
   firmware |-> [answers |-> TRUE, reported |-> TRUE, ids |-> TRUE, revision |-> TRUE,
                 list |-> "in", device |-> "none", rule |-> "none"],
   pcie |-> [sysfs |-> TRUE, narrow |-> FALSE], numa |-> "same",
   ptm |-> [pci |-> TRUE, walked |-> TRUE, scan |-> "ok", path |-> <<RootPort, Card>>,
            listing |-> <<"full", "full">>, hasFile |-> <<FALSE, FALSE>>, kernel |-> "yes"]]

\* A path of n levels; of the ptm_enabled files only the card's is looked at.
Paths(n) ==
  {[pci |-> TRUE, walked |-> TRUE, scan |-> "ok", path |-> p, listing |-> l,
    hasFile |-> [i \in 1 .. n |-> i = n /\ file /\ p[n].ptm], kernel |-> "no"] :
     p \in [1 .. n -> {NoPtm, Card, OffCard, Bridge, RootPort}], l \in [1 .. n -> Listings],
     file \in BOOLEAN}
PtmCases ==
  Paths(1) \cup Paths(2) \cup {x \in Paths(3) : x.listing[1] = "full" /\ x.path[3] # Bridge}
  \cup {[x EXCEPT !.walked = FALSE] : x \in Paths(2)}
  \cup {[x EXCEPT !.scan = s] : x \in Paths(1), s \in {"failed", "disabled", "empty"}}
  \cup {[x EXCEPT !.pci = FALSE] : x \in Paths(1)}

ClockCases ==
  {[Healthy EXCEPT !.stamp.phc = p, !.stamp.answers = a, !.clock = c] :
     p \in {"none", "some"}, a \in BOOLEAN, c \in Clocks}
StampCases == {[Healthy EXCEPT !.stamp = s] : s \in Stamps}
LinkCases ==
  {[Healthy EXCEPT !.link = l, !.pcie = p, !.ptm.scan = s] :
     l \in LinkFacts, p \in PcieFacts, s \in {"ok", "failed", "empty"}}
OtherCases ==
  {[Healthy EXCEPT !.firmware = f] : f \in Firmwares}
  \cup {[Healthy EXCEPT !.numa = n, !.ptm.pci = p] :
          n \in {"unread", "no mask", "single", "same", "remote"}, p \in BOOLEAN}

MCMachines ==
  {[Healthy EXCEPT !.ptm = x] : x \in PtmCases}
  \cup ClockCases \cup StampCases \cup LinkCases \cup OtherCases

\* Lspci: two devices, a number of one of them unknown.
AllRead == [k \in NumberKinds |-> reading]
MCCases ==
  {[dev |-> d, listing |-> l, numbers |-> AllRead] : d \in {NoPtm, Card, RootPort}, l \in Listings}
  \cup {[dev |-> Card, listing |-> "full", numbers |-> [AllRead EXCEPT ![k] = NoReading]] :
          k \in NumberKinds}

PortRests == machine = Healthy /\ step = 0
LspciRests ==
  /\ hardware = [a \in Addresses |-> [dev |-> NoPtm, listing |-> "full", numbers |-> AllRead]]
  /\ begun = {} /\ section = "none"
StampRests ==
  port = [clock |-> "none", lists |-> [l \in Lists |-> {}]] /\ todo = Lists \cup {"clock"}

MCInit ==
  \/ Init /\ LspciRests /\ LspciInit /\ StampRests /\ StampInit
  \/ PortRests /\ Init /\ LspciInit /\ StampRests /\ StampInit
  \/ PortRests /\ Init /\ LspciRests /\ LspciInit /\ StampInit
MCNext ==
  \/ LspciRests /\ StampRests /\ Next /\ UNCHANGED <<lspciVars, stampVars>>
  \/ PortRests /\ StampRests /\ LspciNext /\ UNCHANGED <<vars, stampVars>>
  \/ PortRests /\ LspciRests /\ StampNext /\ UNCHANGED <<vars, lspciVars>>
MCSpec == MCInit /\ [][MCNext]_<<vars, lspciVars, stampVars>>
=============================================================================
