----------------------------- MODULE PortProof -----------------------------
(***************************************************************************)
(* What holds of a port at the end of its collection, for every machine:   *)
(* paths of any length, whatever part of the configuration space was       *)
(* printed, whichever source failed.                                       *)
(***************************************************************************)
EXTENDS Port, SequenceTheorems, WellFoundedInduction, TLAPS

-----------------------------------------------------------------------------
(* The chain rule: what a node says is so, and therefore what the rule     *)
(* says is so, for any path and any mixture of listings.                   *)

\* A node says nothing that is not so about its device; it knows all of the
\* three roles or none of them, and never `enabled` without `present`.
Sound(node, dev) ==
  /\ node \in Nodes
  /\ node.present \in {"unknown", AsTri(dev.ptm)}
  /\ node.enabled \in {"unknown", AsTri(dev.enabled)}
  /\ node.enabled # "unknown" => node.present # "unknown"
  /\ node.requester # "unknown" => node.enabled # "unknown"
  /\ \/ /\ node.requester = AsTri(dev.requester)
        /\ node.responder = AsTri(dev.responder)
        /\ node.root = AsTri(dev.root)
     \/ node.requester = "unknown" /\ node.responder = "unknown" /\ node.root = "unknown"

\* A non-empty set of levels has one nearest the root port.
LEMMA FirstOf ==
  ASSUME NEW levels, levels \subseteq Nat, levels # {}
  PROVE  First(levels) \in levels /\ \A j \in levels : First(levels) <= j
<1> DEFINE less == {ss \in Nat \X Nat : ss[1] < ss[2]}
<1>a. IsWellFoundedOn(less, Nat)
  BY NatLessThanWellFounded, Zenon DEF OpToRel
<1>b. \E x \in levels : \A y \in levels : ~ (<<y, x>> \in less)
  <2> HIDE DEF less
  <2> QED BY <1>a, WFMin, Zenon
<1>1. PICK x \in levels : \A y \in levels : ~ (<<y, x>> \in less)
  BY <1>b
<1>2. \A y \in levels : x <= y
  <2> SUFFICES ASSUME NEW y \in levels PROVE x <= y
      OBVIOUS
  <2>1. ~(y < x)
    BY <1>1
  <2> QED BY <2>1
<1> QED BY <1>2 DEF First

\* Reading an lspci block makes a sound node, whatever part of it was printed.
LEMMA ReadSound ==
  ASSUME NEW dev \in Devices, NEW listing \in Listings
  PROVE  Sound(ReadNode(dev, listing), dev)
BY DEF Sound, ReadNode, Devices, Listings, Nodes, UnknownNode, AsTri, Tri

\* The ptm_enabled file does not make a sound node unsound: the kernel has one
\* only for a device with the capability.
LEMMA OverlaySound ==
  ASSUME NEW dev \in Devices, NEW node, Sound(node, dev), NEW hasFile \in BOOLEAN,
         hasFile => dev.ptm
  PROVE  Sound(Overlay(node, dev, hasFile), dev)
BY DEF Sound, Overlay, Devices, Nodes, AsTri, Tri

\* README.md:132-134 on any path: a chain that the rule passes carries PTM, and one
\* that it refuses does not.
THEOREM ChainSound ==
  ASSUME NEW devices \in Seq(Devices), NEW nodes \in Seq(Nodes),
         Len(nodes) = Len(devices), Len(devices) >= 1,
         \A i \in 1 .. Len(devices) : Sound(nodes[i], devices[i])
  PROVE  /\ ChainOk(nodes) = "yes" => Carries(devices)
         /\ ChainOk(nodes) = "no" => ~Carries(devices)
<1> DEFINE n == Len(nodes)
           stops == {i \in 1 .. n - 1 : nodes[i].responder # "yes"}
<1>1. n \in Nat /\ n >= 1 /\ n \in 1 .. n /\ \A i \in 1 .. n - 1 : i \in 1 .. n
  OBVIOUS
<1>2. \A i \in 1 .. n : devices[i] \in Devices /\ nodes[i] \in Nodes
  OBVIOUS
<1>3. CASE nodes[n].requester # "yes"
  <2>1. ChainOk(nodes) = nodes[n].requester
    BY <1>1, <1>3 DEF ChainOk
  <2>2. nodes[n].requester = "no" => ~devices[n].requester
    BY <1>1, <1>2 DEF Sound, AsTri, Devices
  <2> QED BY <1>3, <2>1, <2>2 DEF Carries
<1>4. CASE nodes[n].requester = "yes" /\ stops # {}
  <2>1. First(stops) \in stops
    <3>1. stops \subseteq Nat /\ stops # {}
      BY <1>1, <1>4
    <3> HIDE DEF stops
    <3> QED BY <3>1, FirstOf
  <2>2. ChainOk(nodes) = nodes[First(stops)].responder
    BY <1>1, <1>4 DEF ChainOk
  <2>3. nodes[First(stops)].responder = "no" => ~devices[First(stops)].responder
    BY <1>1, <1>2, <2>1 DEF Sound, AsTri, Devices
  <2> QED BY <2>1, <2>2, <2>3 DEF Carries
<1>5. CASE nodes[n].requester = "yes" /\ stops = {}
  <2>1. \A i \in 1 .. n - 1 : nodes[i].responder = "yes"
    BY <1>5
  <2>2. \A i \in 1 .. n : nodes[i].root = AsTri(devices[i].root)
    BY <1>1, <1>5, <2>1 DEF Sound
  <2>3. devices[n].requester /\ \A i \in 1 .. n - 1 : devices[i].responder
    BY <1>1, <1>5, <2>1 DEF Sound, AsTri
  <2>4. nodes[1].root # "unknown"
    BY <1>1, <2>2 DEF AsTri
  <2>5. ChainOk(nodes) = AsTri(\E i \in 1 .. n : nodes[i].root = "yes")
    <3>1. n # 0 /\ ~(\A i \in 1 .. n : nodes[i].root = "unknown")
      BY <1>1, <2>4
    <3> QED BY <1>5, <3>1, Zenon DEF ChainOk
  <2>6. (\E i \in 1 .. n : nodes[i].root = "yes") <=> \E i \in 1 .. n : devices[i].root
    BY <1>2, <2>2 DEF AsTri, Devices
  <2> QED BY <2>3, <2>5, <2>6 DEF Carries, AsTri
<1> QED BY <1>3, <1>4, <1>5

\* readiness.py:178-191 on any path: the level that a refused chain names lacks
\* the role that it is said to lack.
THEOREM BlameSound ==
  ASSUME NEW devices \in Seq(Devices), NEW nodes \in Seq(Nodes),
         Len(nodes) = Len(devices), Len(devices) >= 1,
         \A i \in 1 .. Len(devices) : Sound(nodes[i], devices[i]),
         ChainOk(nodes) = "no"
  PROVE  TrueBreak(devices, BrokenLink(nodes))
<1> DEFINE n == Len(nodes)
           deaf == {i \in 1 .. n - 1 : nodes[i].responder = "no"}
           stops == {i \in 1 .. n - 1 : nodes[i].responder # "yes"}
<1>1. n \in Nat /\ n >= 1 /\ n \in 1 .. n /\ \A i \in 1 .. n - 1 : i \in 1 .. n
  OBVIOUS
<1>2. \A i \in 1 .. n : devices[i] \in Devices
  OBVIOUS
<1>3. CASE nodes[n].requester = "no"
  <2>1. BrokenLink(nodes) = <<"requester", n>>
    BY <1>1, <1>3 DEF BrokenLink
  <2>2. ~devices[n].requester
    BY <1>1, <1>2, <1>3 DEF Sound, AsTri, Devices
  <2> QED BY <2>1, <2>2 DEF TrueBreak
<1>4. CASE nodes[n].requester # "no" /\ deaf # {}
  <2>1. First(deaf) \in deaf
    <3>1. deaf \subseteq Nat /\ deaf # {}
      BY <1>1, <1>4
    <3> HIDE DEF deaf
    <3> QED BY <3>1, FirstOf
  <2>2. BrokenLink(nodes) = <<"responder", First(deaf)>>
    BY <1>1, <1>4 DEF BrokenLink
  <2>3. ~devices[First(deaf)].responder
    BY <1>1, <1>2, <2>1 DEF Sound, AsTri, Devices
  <2> QED BY <2>1, <2>2, <2>3 DEF TrueBreak
<1>5. CASE nodes[n].requester # "no" /\ deaf = {}
  <2>1. nodes[n].requester = "yes"
    BY <1>1, <1>5 DEF ChainOk
  <2>2. stops = {}
    <3> SUFFICES ASSUME stops # {} PROVE FALSE
        OBVIOUS
    <3>1. First(stops) \in stops
      <4>1. stops \subseteq Nat
        BY <1>1
      <4> HIDE DEF stops
      <4> QED BY <4>1, FirstOf
    <3>2. ChainOk(nodes) = nodes[First(stops)].responder
      BY <1>1, <2>1 DEF ChainOk
    <3> QED BY <1>5, <3>1, <3>2
  <2>3. \A i \in 1 .. n : nodes[i].root = AsTri(devices[i].root)
    BY <1>1, <2>1, <2>2 DEF Sound
  <2>4. nodes[1].root # "unknown"
    BY <1>1, <2>3 DEF AsTri
  <2>5. \A i \in 1 .. n : nodes[i].root # "yes"
    BY <1>1, <2>1, <2>2, <2>4 DEF ChainOk, AsTri
  <2>6. BrokenLink(nodes) = <<"root", 0>>
    BY <1>1, <1>5, <2>5 DEF BrokenLink
  <2>7. \A i \in 1 .. n : ~devices[i].root
    BY <1>2, <2>3, <2>5 DEF AsTri, Devices
  <2> QED BY <2>6, <2>7 DEF TrueBreak
<1> QED BY <1>3, <1>4, <1>5

-----------------------------------------------------------------------------
(* A port, from its row to what the screens show of it                     *)

\* Once annotate() has run, the chain is the one of the machine; pins are only
\* counted on a port with a clock; once evaluate() has run, the rows are those
\* of the facts.
PortInv ==
  /\ TypeOK
  /\ step >= 6 /\ machine.ptm.pci =>
       facts.chain = Chain(machine) /\ facts.chainOk = ChainOk(Chain(machine))
  /\ step >= 6 /\ ~machine.ptm.pci => facts.chain = << >>
  /\ step < 6 => facts.chain = << >>
  /\ facts.phc # "some" \/ step < 5 => facts.ext = -1 /\ facts.per = -1
  /\ step = 7 => rows = Rows(facts, machine.link.plan)

\* What is known of the path of a machine, level by level.
LEMMA PathShape ==
  ASSUME NEW m, MachineOK(m)
  PROVE  LET n == Len(m.ptm.path) IN
         /\ n \in Nat /\ n >= 1 /\ m.ptm.path \in Seq(Devices)
         /\ m.ptm.listing \in Seq(Listings) /\ Len(m.ptm.listing) = n
         /\ m.ptm.hasFile \in Seq(BOOLEAN) /\ Len(m.ptm.hasFile) = n
         /\ \A i \in 1 .. n : m.ptm.hasFile[i] => m.ptm.path[i].ptm
<1> DEFINE path == m.ptm.path
<1>1. m.ptm \in PtmFacts /\ Len(path) >= 1
  BY DEF MachineOK
<1>2. path \in Seq(Devices) /\ m.ptm.listing \in Seq(Listings) /\ m.ptm.hasFile \in Seq(BOOLEAN)
  BY <1>1 DEF PtmFacts
<1>3. Len(path) \in Nat
  BY <1>2, LenProperties
<1>4. /\ Len(m.ptm.listing) = Len(path) /\ Len(m.ptm.hasFile) = Len(path)
      /\ \A i \in 1 .. Len(path) : m.ptm.hasFile[i] => path[i].ptm
  BY Zenon DEF MachineOK
<1> QED BY <1>1, <1>2, <1>3, <1>4

LEMMA PathLength ==
  ASSUME NEW m, MachineOK(m)
  PROVE  Len(m.ptm.path) = 1 \/ Len(m.ptm.path) > 1
<1> DEFINE n == Len(m.ptm.path)
<1>1. n \in Nat /\ n >= 1
  BY PathShape
<1> HIDE DEF n
<1>2. n = 1 \/ n > 1
  BY <1>1
<1> QED BY <1>2 DEF n

\* The levels that are looked at are levels of the path, with the card at the end.
LEMMA WalkedShape ==
  ASSUME NEW m, NEW S, NEW levels \in Seq(S), Len(levels) >= 1
  PROVE  LET n == Len(levels)
             w == Walked(m, levels) IN
         /\ w \in Seq(S) /\ Len(w) = (IF m.ptm.walked THEN n ELSE 1)
         /\ w[Len(w)] = levels[n]
         /\ \A i \in 1 .. Len(w) : /\ (IF m.ptm.walked THEN i ELSE n) \in 1 .. n
                                   /\ w[i] = levels[IF m.ptm.walked THEN i ELSE n]
<1> DEFINE n == Len(levels)
<1>1. n \in Nat /\ n \in 1 .. n /\ levels[n] \in S
  BY LenProperties, ElementOfSeq
<1>2. CASE m.ptm.walked
  BY <1>1, <1>2 DEF Walked
<1>3. CASE ~m.ptm.walked
  BY <1>1, <1>3 DEF Walked
<1> QED BY <1>2, <1>3

\* The chain of a machine: a sound node for every level that is looked at.
LEMMA ChainShape ==
  ASSUME NEW m, MachineOK(m)
  PROVE  /\ Chain(m) \in Seq(Nodes)
         /\ Len(Chain(m)) = Len(LookedAt(m)) /\ Len(LookedAt(m)) >= 1
         /\ Len(LookedAt(m)) \in Nat /\ LookedAt(m) \in Seq(Devices)
         /\ LookedAt(m)[Len(LookedAt(m))] = m.ptm.path[Len(m.ptm.path)]
         /\ \A i \in 1 .. Len(LookedAt(m)) : Sound(Chain(m)[i], LookedAt(m)[i])
<1> DEFINE path == LookedAt(m)
           n == Len(m.ptm.path)
           at(i) == IF m.ptm.walked THEN i ELSE n
           node(i) == Overlay(ReadNode(path[i], Blocks(m)[i]), path[i],
                              Walked(m, m.ptm.hasFile)[i])
<1>1. /\ n \in Nat /\ n >= 1 /\ m.ptm.path \in Seq(Devices)
      /\ m.ptm.listing \in Seq(Listings) /\ Len(m.ptm.listing) = n
      /\ m.ptm.hasFile \in Seq(BOOLEAN) /\ Len(m.ptm.hasFile) = n
      /\ \A i \in 1 .. n : m.ptm.hasFile[i] => m.ptm.path[i].ptm
  BY PathShape
<1>2. /\ path \in Seq(Devices) /\ Len(path) = (IF m.ptm.walked THEN n ELSE 1)
      /\ path[Len(path)] = m.ptm.path[n]
      /\ \A i \in 1 .. Len(path) : at(i) \in 1 .. n /\ path[i] = m.ptm.path[at(i)]
  BY <1>1, WalkedShape DEF LookedAt
<1>3. /\ Len(Walked(m, m.ptm.listing)) = Len(path) /\ Len(Walked(m, m.ptm.hasFile)) = Len(path)
      /\ \A i \in 1 .. Len(path) : Walked(m, m.ptm.listing)[i] = m.ptm.listing[at(i)]
      /\ \A i \in 1 .. Len(path) : Walked(m, m.ptm.hasFile)[i] = m.ptm.hasFile[at(i)]
  <2>1. ASSUME NEW S, NEW levels \in Seq(S), Len(levels) = n
        PROVE  /\ Len(Walked(m, levels)) = (IF m.ptm.walked THEN n ELSE 1)
               /\ \A i \in 1 .. Len(Walked(m, levels)) : Walked(m, levels)[i] = levels[at(i)]
    <3>1. Len(levels) >= 1
      BY <1>1, <2>1
    <3> QED BY <2>1, <3>1, WalkedShape
  <2>2. /\ Len(Walked(m, m.ptm.listing)) = Len(path)
        /\ \A i \in 1 .. Len(path) : Walked(m, m.ptm.listing)[i] = m.ptm.listing[at(i)]
    <3> HIDE DEF at, n, path
    <3>1. m.ptm.listing \in Seq(Listings) /\ Len(m.ptm.listing) = n
      BY <1>1
    <3> QED BY <1>2, <2>1, <3>1
  <2>3. /\ Len(Walked(m, m.ptm.hasFile)) = Len(path)
        /\ \A i \in 1 .. Len(path) : Walked(m, m.ptm.hasFile)[i] = m.ptm.hasFile[at(i)]
    <3> HIDE DEF at, n, path
    <3>1. m.ptm.hasFile \in Seq(BOOLEAN) /\ Len(m.ptm.hasFile) = n
      BY <1>1
    <3> QED BY <1>2, <2>1, <3>1
  <2> QED BY <2>2, <2>3
<1>4. ASSUME NEW i \in 1 .. Len(path) PROVE Sound(node(i), path[i])
  <2> DEFINE listing == Blocks(m)[i]
             file == Walked(m, m.ptm.hasFile)[i]
  <2>1. at(i) \in 1 .. n /\ path[i] = m.ptm.path[at(i)] /\ file = m.ptm.hasFile[at(i)]
        /\ Walked(m, m.ptm.listing)[i] = m.ptm.listing[at(i)]
    BY <1>2, <1>3
  <2>2. listing = IF m.ptm.scan = "ok" THEN m.ptm.listing[at(i)] ELSE "missing"
    BY <2>1 DEF Blocks
  <2> HIDE DEF at, n
  <2>3. /\ m.ptm.listing[at(i)] \in Listings
        /\ file \in BOOLEAN
        /\ path[i] \in Devices
        /\ file => path[i].ptm
    <3>1. m.ptm.listing[at(i)] \in Listings
      BY <1>1, <2>1 DEF n
    <3>2. m.ptm.hasFile[at(i)] \in BOOLEAN
      BY <1>1, <2>1 DEF n
    <3>3. path[i] \in Devices
      BY <1>2
    <3>4. m.ptm.hasFile[at(i)] => m.ptm.path[at(i)].ptm
      BY <1>1, <2>1, Zenon DEF n
    <3> HIDE DEF file, path
    <3> QED BY <2>1, <3>1, <3>2, <3>3, <3>4, Zenon
  <2>4. listing \in Listings
    BY <2>2, <2>3 DEF Listings
  <2> HIDE DEF listing, file, path
  <2>5. Sound(ReadNode(path[i], listing), path[i])
    BY <2>3, <2>4, ReadSound
  <2>6. Sound(Overlay(ReadNode(path[i], listing), path[i], file), path[i])
    BY <2>3, <2>5, OverlaySound
  <2> QED BY <2>6 DEF listing, file
<1>5. Chain(m) = [i \in 1 .. Len(path) |-> node(i)]
  BY DEF Chain
<1>6. \A i \in 1 .. Len(path) : node(i) \in Nodes
  BY <1>4 DEF Sound
<1>7. Len(path) \in Nat /\ Len(path) >= 1
  BY <1>1, <1>2
<1> HIDE DEF node, path, n
<1>8. Chain(m) \in Seq(Nodes) /\ Len(Chain(m)) = Len(path)
      /\ \A i \in 1 .. Len(path) : Chain(m)[i] = node(i)
  BY <1>5, <1>6, <1>7
<1> QED BY <1>2, <1>4, <1>7, <1>8 DEF path, n

\* No branch of the chain rule leaves the three answers.
LEMMA ChainOkType ==
  ASSUME NEW nodes \in Seq(Nodes)
  PROVE  ChainOk(nodes) \in Tri
<1> DEFINE n == Len(nodes)
           stops == {i \in 1 .. n - 1 : nodes[i].responder # "yes"}
<1>1. n \in Nat /\ (n # 0 => n \in 1 .. n) /\ \A i \in 1 .. n : nodes[i] \in Nodes
  BY LenProperties, ElementOfSeq
<1>2. stops # {} => First(stops) \in stops
  <2>1. stops \subseteq Nat
    BY <1>1
  <2> HIDE DEF stops
  <2> QED BY <2>1, FirstOf
<1>3. n # 0 => nodes[n].requester \in Tri
  BY <1>1 DEF Nodes
<1>4. stops # {} => nodes[First(stops)].responder \in Tri
  BY <1>1, <1>2 DEF Nodes
<1>5. \A b \in BOOLEAN : AsTri(b) \in Tri
  BY DEF AsTri, Tri
<1>6. "yes" \in Tri /\ "no" \in Tri /\ "unknown" \in Tri
  BY DEF Tri
<1>7. (\E i \in 1 .. n : nodes[i].root = "yes") \in BOOLEAN
  OBVIOUS
<1> QED BY <1>3, <1>4, <1>5, <1>6, <1>7, Zenon DEF ChainOk

\* Every row is one of the four results.
LEMMA RowsType ==
  ASSUME NEW f \in Facts, NEW plan \in Plans
  PROVE  Rows(f, plan) \in [RowNames -> Results]
<1>1. Endpoint(f).requester \in Tri /\ Endpoint(f).enabled \in Tri
  <2>1. f.chain \in Seq(Nodes)
    BY DEF Facts
  <2>2. f.chain # << >> => f.chain[Len(f.chain)] \in Nodes
    BY <2>1
  <2> QED BY <2>2 DEF Endpoint, UnknownNode, Nodes, Tri
<1>2. f.chainOk \in Tri /\ f.degraded \in Tri
  BY DEF Facts
<1>3. \A tri \in Tri : Optional(tri) \in Results
  BY DEF Optional, Results, Tri
<1>4. \A k : Counted(k) \in Results
  BY DEF Counted, Results
<1>5. \A found, some : Listed(f, found, some) \in Results
  BY DEF Listed, Results
<1>6. LinkSpeed(f, plan) \in Results
  BY DEF LinkSpeed, Results
<1>7. ASSUME NEW r \in RowNames PROVE Row(r, f, plan) \in Results
  BY <1>1, <1>2, <1>3, <1>4, <1>5, <1>6, SMTT(30) DEF Row, RowNames, Results
<1> QED BY <1>7 DEF Rows

\* What is known of the parts of a machine.
LEMMA MachineParts ==
  ASSUME NEW m, MachineOK(m)
  PROVE  /\ m.link.state \in {"up", "down"} /\ m.link.speed \in Speeds
         /\ m.link.speed # -1 /\ m.link.plan \in Plans
         /\ m.stamp.phc \in {"unread", "none", "some"} /\ m.stamp.tx \in SUBSET TxTypes
         /\ m.stamp.rx \in SUBSET RxFilters
         /\ m.clock.ext \in Counts /\ m.clock.per \in Counts
         /\ m.clock.toldExt \in Counts /\ m.clock.toldPer \in Counts
         /\ m.clock.cross \in {"precise", "claimed", "extended"}
         /\ m.clock.ioctl \in {"off", "denied", "silent", "no caps", "runs"}
         /\ m.firmware.device \in Entries /\ m.firmware.rule \in Entries
         /\ m.numa \in {"unread", "no mask", "single", "same", "remote"}
<1>1. /\ m.stamp \in Stamps /\ m.clock \in Clocks /\ m.link \in LinkFacts
      /\ m.firmware \in Firmwares
      /\ m.numa \in {"unread", "no mask", "single", "same", "remote"}
  BY Zenon DEF MachineOK
<1>2. /\ m.link.state \in {"up", "down"} /\ m.link.speed \in {100, 1000}
      /\ m.link.plan \in Plans
  BY <1>1 DEF LinkFacts
<1>3. /\ m.stamp.phc \in {"unread", "none", "some"} /\ m.stamp.tx \in SUBSET TxTypes
      /\ m.stamp.rx \in SUBSET RxFilters
  BY <1>1 DEF Stamps
<1>4. /\ m.clock.ext \in 0 .. 1 /\ m.clock.per \in 0 .. 1
      /\ m.clock.toldExt \in Counts /\ m.clock.toldPer \in Counts
      /\ m.clock.cross \in {"precise", "claimed", "extended"}
      /\ m.clock.ioctl \in {"off", "denied", "silent", "no caps", "runs"}
  BY <1>1 DEF Clocks
<1>5. m.firmware.device \in Entries /\ m.firmware.rule \in Entries
  BY <1>1 DEF Firmwares
<1>6. m.link.speed \in Speeds /\ m.link.speed # -1
  BY <1>2 DEF Speeds
<1>7. m.clock.ext \in Counts /\ m.clock.per \in Counts
  <2>1. m.clock.ext \in 0 .. 1 /\ m.clock.per \in 0 .. 1
    BY <1>4
  <2> QED BY <2>1 DEF Counts
<1> QED BY <1>1, <1>2, <1>3, <1>4, <1>5, <1>6, <1>7

\* Whatever a source leaves in the facts is a fact.
LEMMA FactsType ==
  ASSUME NEW m, MachineOK(m), NEW f \in Facts
  PROVE  /\ FromSysfs(m, f) \in Facts /\ FromSettings(m, f) \in Facts
         /\ FromStamp(m, f) \in Facts /\ FromPtp(m, f) \in Facts
         /\ FromLspci(m, f) \in Facts
         /\ [f EXCEPT !.firmware = FirmwareVerdict(m)] \in Facts
<1>1. \A b : AsTri(b) \in Tri
  BY DEF AsTri, Tri
<1>2. f.speed \in Speeds /\ f.degraded \in Tri
  BY DEF Facts
<1>3. -1 \in Speeds /\ -1 \in Counts /\ "unknown" \in Tri
  BY DEF Speeds, Counts, Tri
<1>4. FromSysfs(m, f) \in Facts
  <2> DEFINE state == IF m.link.operstate THEN m.link.state ELSE "unread"
             speed == IF m.link.sysfs THEN m.link.speed ELSE -1
             degraded == IF m.ptm.pci /\ m.pcie.sysfs THEN AsTri(m.pcie.narrow) ELSE "unknown"
             numa == IF m.ptm.pci THEN m.numa ELSE "unread"
  <2>1. speed \in Speeds /\ degraded \in Tri
    BY <1>1, <1>3, MachineParts
  <2>2. numa \in {"unread", "no mask", "single", "same", "remote"}
    BY MachineParts
  <2>3. FromSysfs(m, f) = [f EXCEPT !.state = state, !.speed = speed,
                                    !.degraded = degraded, !.numa = numa]
    BY DEF FromSysfs
  <2>4. state \in {"unread", "up", "down"}
    BY MachineParts
  <2> HIDE DEF state, speed, degraded, numa
  <2> QED BY <2>1, <2>2, <2>3, <2>4 DEF Facts
<1>5. FromSettings(m, f) \in Facts
  <2> DEFINE speed == IF m.link.settings /\ f.speed = -1 THEN m.link.speed ELSE f.speed
  <2>1. speed \in Speeds
    BY <1>2, MachineParts
  <2>2. FromSettings(m, f) = [f EXCEPT !.speed = speed]
    BY DEF FromSettings
  <2> HIDE DEF speed
  <2> QED BY <2>1, <2>2 DEF Facts
<1>6. FromStamp(m, f) \in Facts
  BY MachineParts DEF FromStamp, Facts
<1>7. FromPtp(m, f) \in Facts
  <2> DEFINE ext == IF m.clock.ioctl = "runs" THEN m.clock.ext ELSE m.clock.toldExt
             per == IF m.clock.ioctl = "runs" THEN m.clock.per ELSE m.clock.toldPer
             cross == Cross(m.clock)
  <2>1. cross \in {"unread", "unknown", "precise", "claimed", "extended"}
    BY MachineParts DEF Cross
  <2>2. ext \in Counts /\ per \in Counts
    BY MachineParts
  <2>3. FromPtp(m, f) = IF ~HasClock(f) \/ ~m.clock.entry THEN f
                        ELSE [f EXCEPT !.ext = ext, !.per = per, !.cross = cross]
    BY DEF FromPtp
  <2>5. CASE ~HasClock(f) \/ ~m.clock.entry
    BY <2>3, <2>5
  <2>6. CASE HasClock(f) /\ m.clock.entry
    <3>1. FromPtp(m, f) = [f EXCEPT !.ext = ext, !.per = per, !.cross = cross]
      BY <2>3, <2>6
    <3> HIDE DEF cross, ext, per
    <3> QED BY <2>1, <2>2, <3>1 DEF Facts
  <2> QED BY <2>5, <2>6
<1>8. FromLspci(m, f) \in Facts
  <2> DEFINE degraded == IF f.degraded = "unknown" /\ CardListed(m) THEN AsTri(m.pcie.narrow)
                         ELSE f.degraded
  <2>1. Chain(m) \in Seq(Nodes) /\ ChainOk(Chain(m)) \in Tri
    BY ChainShape, ChainOkType
  <2>2. degraded \in Tri
    BY <1>1, <1>2
  <2>3. FromLspci(m, f) = IF ~m.ptm.pci THEN f
                          ELSE [f EXCEPT !.chain = Chain(m), !.chainOk = ChainOk(Chain(m)),
                                         !.degraded = degraded]
    BY DEF FromLspci
  <2> HIDE DEF degraded
  <2> QED BY <2>1, <2>2, <2>3 DEF Facts
<1>9. FirmwareVerdict(m) \in {"good", "old", "other", "unknown"}
  <2>1. DeviceNote(m) \in Entries
    BY MachineParts DEF DeviceNote
  <2> QED BY <2>1 DEF FirmwareVerdict, Entries
<1>10. [f EXCEPT !.firmware = FirmwareVerdict(m)] \in Facts
  BY <1>9 DEF Facts
<1> QED BY <1>4, <1>5, <1>6, <1>7, <1>8, <1>10

\* What a source leaves alone.
LEMMA FactsKept ==
  ASSUME NEW m, NEW f \in Facts
  PROVE  /\ FromSysfs(m, f).chain = f.chain /\ FromSysfs(m, f).phc = f.phc
         /\ FromSysfs(m, f).ext = f.ext /\ FromSysfs(m, f).per = f.per
         /\ FromSettings(m, f).chain = f.chain /\ FromSettings(m, f).phc = f.phc
         /\ FromSettings(m, f).ext = f.ext /\ FromSettings(m, f).per = f.per
         /\ FromStamp(m, f).chain = f.chain
         /\ FromStamp(m, f).ext = f.ext /\ FromStamp(m, f).per = f.per
         /\ FromPtp(m, f).chain = f.chain /\ FromPtp(m, f).phc = f.phc
         /\ ~HasClock(f) => FromPtp(m, f) = f
         /\ FromLspci(m, f).phc = f.phc
         /\ FromLspci(m, f).ext = f.ext /\ FromLspci(m, f).per = f.per
         /\ m.ptm.pci => /\ FromLspci(m, f).chain = Chain(m)
                         /\ FromLspci(m, f).chainOk = ChainOk(Chain(m))
         /\ ~m.ptm.pci => FromLspci(m, f) = f
<1>1. /\ FromSysfs(m, f).chain = f.chain /\ FromSysfs(m, f).phc = f.phc
      /\ FromSysfs(m, f).ext = f.ext /\ FromSysfs(m, f).per = f.per
  BY DEF FromSysfs, Facts
<1>2. /\ FromSettings(m, f).chain = f.chain /\ FromSettings(m, f).phc = f.phc
      /\ FromSettings(m, f).ext = f.ext /\ FromSettings(m, f).per = f.per
  BY DEF FromSettings, Facts
<1>3. /\ FromStamp(m, f).chain = f.chain
      /\ FromStamp(m, f).ext = f.ext /\ FromStamp(m, f).per = f.per
  BY DEF FromStamp, Facts
<1>4. /\ FromPtp(m, f).chain = f.chain /\ FromPtp(m, f).phc = f.phc
      /\ ~HasClock(f) => FromPtp(m, f) = f
  BY DEF FromPtp, Facts
<1>5. /\ FromLspci(m, f).phc = f.phc
      /\ FromLspci(m, f).ext = f.ext /\ FromLspci(m, f).per = f.per
      /\ m.ptm.pci => FromLspci(m, f).chain = Chain(m)
      /\ m.ptm.pci => FromLspci(m, f).chainOk = ChainOk(Chain(m))
      /\ ~m.ptm.pci => FromLspci(m, f) = f
  BY DEF FromLspci, Facts
<1> QED BY <1>1, <1>2, <1>3, <1>4, <1>5

LEMMA PortInit == Init => PortInv
<1> SUFFICES ASSUME Init PROVE PortInv
    OBVIOUS
<1>1. MachineOK(machine)
  BY PortAssumption DEF Init
<1>2. Empty \in Facts
  BY EmptySeq DEF Empty, Facts, Counts, Speeds, Tri
<1>3. NoRows \in [RowNames -> Results]
  BY DEF NoRows, Results
<1> QED BY <1>1, <1>2, <1>3 DEF Init, PortInv, TypeOK, Empty

LEMMA ProblemAdds ==
  ASSUME NEW source, NEW happens, Problem(source, happens)
  PROVE  errors' \subseteq errors \cup {source}
BY DEF Problem

LEMMA PortStep == PortInv /\ [Next]_vars => PortInv'
<1> SUFFICES ASSUME PortInv, [Next]_vars PROVE PortInv'
    OBVIOUS
<1>1. MachineOK(machine) /\ step \in 0 .. 7 /\ facts \in Facts /\ errors \subseteq Sources
      /\ rows \in [RowNames -> Results]
  BY DEF PortInv, TypeOK
<1>2. CASE UNCHANGED vars
  BY <1>2 DEF PortInv, TypeOK, vars
<1>3. CASE Sysfs
  <2>1. /\ step = 0 /\ step' = 1 /\ machine' = machine /\ facts' = FromSysfs(machine, facts)
        /\ errors' = errors /\ rows' = rows
    BY <1>3 DEF Sysfs, Move
  <2>2. /\ facts' \in Facts /\ facts'.chain = facts.chain
        /\ facts'.ext = facts.ext /\ facts'.per = facts.per
    BY <1>1, <2>1, FactsType, FactsKept
  <2> QED BY <1>1, <2>1, <2>2 DEF PortInv, TypeOK
<1>4. CASE DriverInfo
  <2>1. /\ step = 1 /\ step' = 2 /\ machine' = machine /\ facts' = facts /\ rows' = rows
        /\ errors' \subseteq errors \cup {"ethtool_i"}
    BY <1>4, ProblemAdds DEF DriverInfo, Move
  <2>2. errors' \subseteq Sources
    BY <1>1, <2>1 DEF Sources
  <2>3. TypeOK'
    BY <1>1, <2>1, <2>2 DEF TypeOK
  <2> QED BY <2>1, <2>3 DEF PortInv
<1>5. CASE Settings
  <2>1. /\ step = 2 /\ step' = 3 /\ machine' = machine /\ facts' = FromSettings(machine, facts)
        /\ errors' \subseteq errors \cup {"ethtool"} /\ rows' = rows
    BY <1>5, ProblemAdds DEF Settings, Move
  <2>2. /\ facts' \in Facts /\ facts'.chain = facts.chain
        /\ facts'.ext = facts.ext /\ facts'.per = facts.per
    BY <1>1, <2>1, FactsType, FactsKept
  <2>3. errors' \subseteq Sources
    BY <1>1, <2>1 DEF Sources
  <2>4. TypeOK'
    BY <1>1, <2>1, <2>2, <2>3 DEF TypeOK
  <2> QED BY <2>1, <2>2, <2>4 DEF PortInv
<1>6. CASE Timestamping
  <2>1. /\ step = 3 /\ step' = 4 /\ machine' = machine /\ facts' = FromStamp(machine, facts)
        /\ errors' \subseteq errors \cup {"ethtool_T"} /\ rows' = rows
    BY <1>6, ProblemAdds DEF Timestamping, Move
  <2>2. /\ facts' \in Facts /\ facts'.chain = facts.chain
        /\ facts'.ext = facts.ext /\ facts'.per = facts.per
    BY <1>1, <2>1, FactsType, FactsKept
  <2>3. errors' \subseteq Sources
    BY <1>1, <2>1 DEF Sources
  <2>4. TypeOK'
    BY <1>1, <2>1, <2>2, <2>3 DEF TypeOK
  <2> QED BY <2>1, <2>2, <2>4 DEF PortInv
<1>7. CASE PtpCollect
  <2>1. /\ step = 4 /\ step' = 5 /\ machine' = machine /\ facts' = FromPtp(machine, facts)
        /\ errors' \subseteq errors \cup {"ptp", "ioctl"} /\ rows' = rows
    BY <1>7 DEF PtpCollect, Move, Problem
  <2>2. /\ facts' \in Facts /\ facts'.chain = facts.chain /\ facts'.phc = facts.phc
        /\ facts.phc # "some" => facts' = facts
    BY <1>1, <2>1, FactsType, FactsKept DEF HasClock
  <2>3. errors' \subseteq Sources
    BY <1>1, <2>1 DEF Sources
  <2>4. TypeOK'
    BY <1>1, <2>1, <2>2, <2>3 DEF TypeOK
  <2> QED BY <2>1, <2>2, <2>4 DEF PortInv
<1>8. CASE Annotate
  <2>1. /\ step = 5 /\ step' = 6 /\ machine' = machine /\ facts' = FromLspci(machine, facts)
        /\ errors' \subseteq errors \cup {"lspci"} /\ rows' = rows
    BY <1>8, ProblemAdds DEF Annotate, Move
  <2>2. /\ facts' \in Facts /\ facts'.phc = facts.phc
        /\ facts'.ext = facts.ext /\ facts'.per = facts.per
        /\ machine.ptm.pci => facts'.chain = Chain(machine) /\ facts'.chainOk = ChainOk(Chain(machine))
        /\ ~machine.ptm.pci => facts' = facts
    BY <1>1, <2>1, FactsType, FactsKept
  <2>3. errors' \subseteq Sources
    BY <1>1, <2>1 DEF Sources
  <2>4. TypeOK'
    BY <1>1, <2>1, <2>2, <2>3 DEF TypeOK
  <2> QED BY <2>1, <2>2, <2>4 DEF PortInv
<1>9. CASE Evaluate
  <2>1. /\ step = 6 /\ step' = 7 /\ machine' = machine /\ errors' = errors
        /\ facts' = [facts EXCEPT !.firmware = FirmwareVerdict(machine)]
        /\ rows' = Rows(facts', machine.link.plan)
    BY <1>9 DEF Evaluate, Move
  <2>2. facts' \in Facts
    BY <1>1, <2>1, FactsType
  <2>3. /\ facts'.chain = facts.chain /\ facts'.chainOk = facts.chainOk
        /\ facts'.phc = facts.phc /\ facts'.ext = facts.ext /\ facts'.per = facts.per
    BY <1>1, <2>1 DEF Facts
  <2>4. rows' \in [RowNames -> Results]
    BY <1>1, <2>1, <2>2, RowsType, MachineParts
  <2> QED BY <1>1, <2>1, <2>2, <2>3, <2>4 DEF PortInv, TypeOK
<1> QED BY <1>2, <1>3, <1>4, <1>5, <1>6, <1>7, <1>8, <1>9 DEF Next

LEMMA PortInvariant == Spec => []PortInv
BY PortInit, PortStep, PTL DEF Spec

\* Every machine goes through the steps with values of the right kind.
THEOREM PortTypeCorrect == Spec => []TypeOK
<1>1. PortInv => TypeOK
  BY DEF PortInv
<1> QED BY <1>1, PortInvariant, PTL

\* README.md:132-134 and readiness.py:178-191, for every path: what the chain row
\* says is so, and the level it names lacks what it is said to lack.
THEOREM ChainVerdictHolds == Spec => []ChainVerdict
<1>1. PortInv => ChainVerdict
  <2> SUFFICES ASSUME PortInv, Done, machine.ptm.pci PROVE ChainVerdict
      BY DEF ChainVerdict
  <2>1. MachineOK(machine) /\ facts.chain = Chain(machine) /\ facts.chainOk = ChainOk(Chain(machine))
    BY DEF PortInv, TypeOK, Done
  <2>2. facts.chainOk = "yes" => Carries(LookedAt(machine))
    BY <2>1, ChainShape, ChainSound
  <2>3. facts.chainOk = "no" => ~Carries(LookedAt(machine))
    BY <2>1, ChainShape, ChainSound
  <2>4. facts.chainOk = "no" => TrueBreak(LookedAt(machine), BrokenLink(facts.chain))
    BY <2>1, ChainShape, BlameSound
  <2> QED BY <2>2, <2>3, <2>4 DEF ChainVerdict
<1> QED BY <1>1, PortInvariant, PTL

\* readiness.py:194-215, for every path: the capability is blamed for a PTM that
\* is off exactly when the card lacks it.
THEOREM OffReasonHolds == Spec => []OffReason
<1>1. PortInv => OffReason
  <2> SUFFICES ASSUME PortInv, Done, machine.ptm.pci, rows["ptm_enabled"] = "warn"
               PROVE  WhyOff(facts, machine.ptm.kernel) = "no capability"
                        <=> ~machine.ptm.path[Len(machine.ptm.path)].ptm
      BY DEF OffReason
  <2> DEFINE n == Len(LookedAt(machine))
             card == LookedAt(machine)[n]
             node == Chain(machine)[n]
  <2>1. MachineOK(machine) /\ facts.chain = Chain(machine) /\ rows = Rows(facts, machine.link.plan)
    BY DEF PortInv, TypeOK, Done
  <2>2. Chain(machine) \in Seq(Nodes) /\ Len(Chain(machine)) = n /\ n >= 1 /\ n \in Nat
        /\ card \in Devices /\ Sound(node, card)
        /\ card = machine.ptm.path[Len(machine.ptm.path)]
    BY <2>1, ChainShape, LenProperties, ElementOfSeq
  <2>3. Chain(machine) # << >> /\ Endpoint(facts) = node
    BY <2>1, <2>2 DEF Endpoint
  <2>4. rows["ptm_enabled"] = Optional(node.enabled)
    BY <2>1, <2>3 DEF Rows, Row, RowNames
  <2>5. node.enabled = "no"
    BY <2>4 DEF Optional
  <2>6. node.present = AsTri(card.ptm) /\ card.ptm \in BOOLEAN
    BY <2>2, <2>5 DEF Sound, Devices
  <2> QED BY <2>2, <2>3, <2>6 DEF WhyOff, AsTri
<1> QED BY <1>1, PortInvariant, PTL

\* readiness.py:347-367 and linuxptp.py:121-198, for every machine: a command or a
\* section that is drafted has the rows that it needs, and a port that is left out
\* is left out for the reason its rows give.
THEOREM DraftsHold == Spec => []DraftsFollowRows
<1>1. PortInv => DraftsFollowRows
  <2> SUFFICES ASSUME PortInv, Done PROVE DraftsFollowRows
      BY DEF DraftsFollowRows
  <2> DEFINE f == facts
  <2>1. /\ f \in Facts /\ rows = Rows(f, machine.link.plan)
        /\ f.phc # "some" => f.ext = -1 /\ f.per = -1
    BY DEF PortInv, TypeOK, Done
  <2>2. /\ f.ext \in Counts /\ f.per \in Counts /\ f.chainOk \in Tri
        /\ f.phc \in {"unread", "none", "some"}
    BY <2>1 DEF Facts
  <2> HIDE DEF f
  <2>3. /\ rows["phc_present"] = CASE f.phc = "unread" -> "unknown" [] f.phc = "none" -> "fail"
                                   [] OTHER -> "pass"
        /\ rows["hw_tx_timestamp"] = Listed(f, f.tx, "on" \in f.tx)
        /\ rows["hw_rx_filter"] = Listed(f, f.rx, f.rx \cap {"ptp", "all"} # {})
        /\ rows["one_step"] = IF f.tx = {} THEN "unknown"
                              ELSE IF f.tx \cap {"one-step-sync", "one-step-p2p"} # {}
                                THEN "pass" ELSE "warn"
    BY <2>1 DEF Rows, Row, RowNames
  <2>4. /\ rows["pps_input"] = Counted(f.ext) /\ rows["pps_output"] = Counted(f.per)
        /\ rows["ptm_chain"] = Optional(f.chainOk)
    BY <2>1 DEF Rows, Row, RowNames
  <2>5. /\ \A k \in Counts : Counted(k) = "pass" <=> k > 0
        /\ \A tri \in Tri : Optional(tri) = "warn" <=> tri = "no"
    BY DEF Counted, Counts, Optional, Tri
  <2>6. /\ Commands(f) # {} => f.phc = "some"
        /\ "ts2phc" \in Commands(f) <=> f.phc = "some" /\ f.ext > 0
        /\ "pps_out" \in Commands(f) <=> f.phc = "some" /\ f.per > 0
    BY DEF Commands
  <2>7. /\ Commands(f) # {} => rows["phc_present"] = "pass"
        /\ "ts2phc" \in Commands(f) <=> rows["pps_input"] = "pass"
        /\ "pps_out" \in Commands(f) <=> rows["pps_output"] = "pass"
        /\ TakesPps(f) <=> "ts2phc" \in Commands(f)
    BY <2>1, <2>2, <2>3, <2>4, <2>5, <2>6 DEF TakesPps
  <2>8. ASSUME CanStamp(f)
        PROVE  /\ rows["phc_present"] = "pass" /\ rows["hw_tx_timestamp"] = "pass"
               /\ rows["hw_rx_filter"] = "pass" \/ "filter" \in Warnings(f)
               /\ OneStepFile({f}) => rows["one_step"] = "pass"
               /\ "chain" \in Warnings(f) <=> rows["ptm_chain"] = "warn"
    <3>1. f.phc = "some" /\ "on" \in f.tx /\ f.tx # {} /\ f.rx # {}
      BY <2>8 DEF CanStamp
    <3>2. rows["phc_present"] = "pass" /\ rows["hw_tx_timestamp"] = "pass"
      BY <2>3, <3>1 DEF Listed
    <3>3. rows["hw_rx_filter"] = "pass" \/ "filter" \in Warnings(f)
      BY <2>3, <3>1 DEF Listed, Warnings
    <3>4. OneStepFile({f}) => rows["one_step"] = "pass"
      BY <2>3, <3>1 DEF OneStepFile
    <3>5. "chain" \in Warnings(f) <=> rows["ptm_chain"] = "warn"
      BY <2>2, <2>4, <2>5 DEF Warnings
    <3> QED BY <3>2, <3>3, <3>4, <3>5
  <2>9. ASSUME ~CanStamp(f)
        PROVE  /\ WhyNot(f) = "no answer" => rows["phc_present"] = "unknown"
               /\ WhyNot(f) = "no PHC" => rows["phc_present"] = "fail"
               /\ WhyNot(f) = "no transmit mode" => rows["hw_tx_timestamp"] = "fail"
               /\ WhyNot(f) = "no receive filter" => rows["hw_rx_filter"] = "fail"
               /\ WhyNot(f) \in {"no answer", "no PHC", "no transmit mode", "no receive filter"}
    BY <2>2, <2>3, <2>9 DEF CanStamp, WhyNot, Listed
  <2> QED BY <2>7, <2>8, <2>9 DEF DraftsFollowRows, f
<1> QED BY <1>1, PortInvariant, PTL

\* format.py:77-87, dot.py:82-87 and topology.py:62-66, for every path: a word or
\* a colour that the screens put on PTM is true of the device it is put on.
THEOREM ScreensHonestHolds == Spec => []ScreensHonest
<1>1. PortInv => ScreensHonest
  <2> SUFFICES ASSUME PortInv, Done, machine.ptm.pci PROVE ScreensHonest
      BY DEF ScreensHonest
  <2> DEFINE path == LookedAt(machine)
             n == Len(path)
             card == path[n]
             nodes == Chain(machine)
  <2>1. MachineOK(machine) /\ facts.chain = nodes /\ facts.chainOk = ChainOk(nodes)
    BY DEF PortInv, TypeOK, Done
  <2>2. /\ nodes \in Seq(Nodes) /\ Len(nodes) = n /\ n >= 1 /\ path \in Seq(Devices)
        /\ \A i \in 1 .. n : Sound(nodes[i], path[i])
    BY <2>1, ChainShape
  <2>3. n \in Nat /\ n \in 1 .. n /\ nodes # << >>
    BY <2>2, LenProperties
  <2>4. facts.chainOk = "yes" => Carries(path)
    BY <2>1, <2>2, ChainSound
  <2>5. /\ \A i \in 1 .. n : path[i] \in Devices /\ nodes[i] \in Nodes
    BY <2>2, ElementOfSeq
  <2>6. Endpoint(facts) = nodes[n]
    BY <2>1, <2>2, <2>3 DEF Endpoint
  <2> HIDE DEF nodes, path, n
  <2>7. /\ PtmCell(facts) = "on" => card.enabled /\ Carries(path)
        /\ PtmCell(facts) = "on?" => card.enabled
        /\ PtmCell(facts) = "off" => card.requester /\ ~card.enabled
        /\ PtmCell(facts) = "no" => ~card.requester
    <3> DEFINE node == nodes[n]
    <3>1. Sound(node, card) /\ card \in Devices /\ node \in Nodes
      BY <2>2, <2>3, <2>5
    <3>2. /\ node.enabled = "yes" => card.enabled
          /\ node.requester = "yes" => card.requester
          /\ node.requester = "no" => ~card.requester
          /\ node.requester = "yes" /\ node.enabled # "yes" => ~card.enabled
      BY <3>1 DEF Sound, Devices, Nodes, AsTri, Tri
    <3>3. node.requester \in {"yes", "no", "unknown"}
      BY <3>1 DEF Nodes, Tri
    <3> HIDE DEF node, card
    <3>4. /\ PtmCell(facts) = "on" => node.enabled = "yes" /\ facts.chainOk = "yes"
          /\ PtmCell(facts) = "on?" => node.enabled = "yes"
          /\ PtmCell(facts) = "off" => node.enabled # "yes" /\ node.requester = "yes"
          /\ PtmCell(facts) = "no" => node.enabled # "yes" /\ node.requester = "no"
      BY <2>6, <3>3 DEF PtmCell, node
    <3> QED BY <2>4, <3>2, <3>4
  <2>8. ASSUME NEW i \in 1 .. n
        PROVE  /\ Colour(nodes[i]) = "green" => path[i].enabled
               /\ Colour(nodes[i]) = "yellow" => path[i].ptm /\ ~path[i].enabled
               /\ TopologyNote(nodes[i]) = "no PTM capability" => ~path[i].ptm
    <3>1. Sound(nodes[i], path[i]) /\ path[i] \in Devices /\ nodes[i] \in Nodes
      BY <2>2, <2>5
    <3> QED BY <3>1 DEF Colour, TopologyNote, Sound, Devices, Nodes, AsTri, Tri
  <2> QED BY <2>1, <2>7, <2>8 DEF ScreensHonest, path, n
<1> QED BY <1>1, PortInvariant, PTL

-----------------------------------------------------------------------------
(* The readiness table never guesses: the facts at the end of a collection *)
(* are compared, field by field, with those of the same machine with every *)
(* source answering.                                                       *)

\* The facts after each step, as a function of the machine alone.
After(k, m) ==
  CASE k = 0 -> Empty
    [] k \in {1, 2} -> FromSysfs(m, Empty)
    [] k = 3 -> FromSettings(m, FromSysfs(m, Empty))
    [] k = 4 -> FromStamp(m, FromSettings(m, FromSysfs(m, Empty)))
    [] k = 5 -> FromPtp(m, FromStamp(m, FromSettings(m, FromSysfs(m, Empty))))
    [] k = 6 -> FromLspci(m, FromPtp(m, FromStamp(m, FromSettings(m, FromSysfs(m, Empty)))))
    [] k = 7 -> FactsOf(m)

GuessInv == PortInv /\ facts = After(step, machine)

LEMMA GuessInit == Init => GuessInv
BY PortInit DEF Init, GuessInv, After

LEMMA GuessStep == GuessInv /\ [Next]_vars => GuessInv'
<1> SUFFICES ASSUME GuessInv, [Next]_vars PROVE GuessInv'
    OBVIOUS
<1>1. PortInv /\ PortInv' /\ facts = After(step, machine)
  BY PortStep DEF GuessInv
<1>2. facts' = After(step', machine')
  <2>1. CASE UNCHANGED vars
    BY <1>1, <2>1 DEF vars
  <2>2. CASE Sysfs
    BY <1>1, <2>2 DEF Sysfs, Move, After
  <2>3. CASE DriverInfo
    BY <1>1, <2>3 DEF DriverInfo, Move, After
  <2>4. CASE Settings
    BY <1>1, <2>4 DEF Settings, Move, After
  <2>5. CASE Timestamping
    BY <1>1, <2>5 DEF Timestamping, Move, After
  <2>6. CASE PtpCollect
    BY <1>1, <2>6 DEF PtpCollect, Move, After
  <2>7. CASE Annotate
    BY <1>1, <2>7 DEF Annotate, Move, After
  <2>8. CASE Evaluate
    BY <1>1, <2>8 DEF Evaluate, Move, After, FactsOf
  <2> QED BY <2>1, <2>2, <2>3, <2>4, <2>5, <2>6, <2>7, <2>8 DEF Next
<1> QED BY <1>1, <1>2 DEF GuessInv

LEMMA GuessInvariant == Spec => []GuessInv
BY GuessInit, GuessStep, PTL DEF Spec

-----------------------------------------------------------------------------
(* The fields at the end                                                   *)

\* `ethtool -T` answered and showed a clock; the clock answered.
Clocked(m) == m.stamp.answers /\ m.stamp.phc = "some" /\ m.clock.entry
\* The count that a clock ends with: the ioctl's, or the one that sysfs told.
Count(clock, told, is) == IF clock.ioctl = "runs" THEN is ELSE told

LEMMA EmptyIsFacts == Empty \in Facts
BY EmptySeq DEF Empty, Facts, Counts, Speeds, Tri

\* What each source leaves in every field.
LEMMA SettingsFields ==
  ASSUME NEW m, NEW f \in Facts, NEW g, g = FromSettings(m, f)
  PROVE  /\ g.speed = IF m.link.settings /\ f.speed = -1 THEN m.link.speed ELSE f.speed
         /\ g.phc = f.phc /\ g.tx = f.tx /\ g.rx = f.rx /\ g.ext = f.ext /\ g.per = f.per
         /\ g.cross = f.cross /\ g.chain = f.chain /\ g.chainOk = f.chainOk
         /\ g.state = f.state /\ g.degraded = f.degraded /\ g.numa = f.numa
<1>1. g.speed = IF m.link.settings /\ f.speed = -1 THEN m.link.speed ELSE f.speed
  BY DEF FromSettings, Facts
<1>2. g.phc = f.phc /\ g.tx = f.tx /\ g.rx = f.rx /\ g.ext = f.ext /\ g.per = f.per
  BY DEF FromSettings, Facts
<1>3. /\ g.cross = f.cross /\ g.chain = f.chain /\ g.chainOk = f.chainOk
      /\ g.state = f.state /\ g.degraded = f.degraded /\ g.numa = f.numa
  BY DEF FromSettings, Facts
<1> QED BY <1>1, <1>2, <1>3

LEMMA StampFields ==
  ASSUME NEW m, NEW f \in Facts, NEW g, g = FromStamp(m, f)
  PROVE  /\ m.stamp.answers => g.phc = m.stamp.phc /\ g.tx = m.stamp.tx /\ g.rx = m.stamp.rx
         /\ ~m.stamp.answers => g = f
         /\ g.speed = f.speed /\ g.ext = f.ext /\ g.per = f.per
         /\ g.cross = f.cross /\ g.chain = f.chain /\ g.chainOk = f.chainOk
         /\ g.state = f.state /\ g.degraded = f.degraded /\ g.numa = f.numa
<1>1. /\ m.stamp.answers => g.phc = m.stamp.phc /\ g.tx = m.stamp.tx /\ g.rx = m.stamp.rx
      /\ ~m.stamp.answers => g = f
  BY DEF FromStamp, Facts
<1>2. g.speed = f.speed /\ g.ext = f.ext /\ g.per = f.per
  BY DEF FromStamp, Facts
<1>3. /\ g.cross = f.cross /\ g.chain = f.chain /\ g.chainOk = f.chainOk
      /\ g.state = f.state /\ g.degraded = f.degraded /\ g.numa = f.numa
  BY DEF FromStamp, Facts
<1> QED BY <1>1, <1>2, <1>3

LEMMA PtpFields ==
  ASSUME NEW m, NEW f \in Facts, NEW g, g = FromPtp(m, f)
  PROVE  /\ ~(HasClock(f) /\ m.clock.entry) => g = f
         /\ HasClock(f) /\ m.clock.entry =>
              /\ g.ext = Count(m.clock, m.clock.toldExt, m.clock.ext)
              /\ g.per = Count(m.clock, m.clock.toldPer, m.clock.per)
              /\ g.cross = Cross(m.clock)
         /\ g.phc = f.phc /\ g.tx = f.tx /\ g.rx = f.rx
         /\ g.speed = f.speed /\ g.chain = f.chain /\ g.chainOk = f.chainOk
         /\ g.state = f.state /\ g.degraded = f.degraded /\ g.numa = f.numa
<1>1. ~(HasClock(f) /\ m.clock.entry) => g = f
  BY DEF FromPtp
<1>2. HasClock(f) /\ m.clock.entry => g.ext = Count(m.clock, m.clock.toldExt, m.clock.ext)
  BY DEF FromPtp, Facts, Count
<1>3. HasClock(f) /\ m.clock.entry => g.per = Count(m.clock, m.clock.toldPer, m.clock.per)
  BY DEF FromPtp, Facts, Count
<1>4. HasClock(f) /\ m.clock.entry => g.cross = Cross(m.clock)
  BY DEF FromPtp, Facts
<1>5. g.phc = f.phc /\ g.tx = f.tx /\ g.rx = f.rx
  BY DEF FromPtp, Facts
<1>6. g.speed = f.speed /\ g.chain = f.chain /\ g.chainOk = f.chainOk
  BY DEF FromPtp, Facts
<1>7. g.state = f.state /\ g.degraded = f.degraded /\ g.numa = f.numa
  BY DEF FromPtp, Facts
<1> QED BY <1>1, <1>2, <1>3, <1>4, <1>5, <1>6, <1>7

LEMMA LspciFields ==
  ASSUME NEW m, NEW f \in Facts, NEW g, g = FromLspci(m, f)
  PROVE  /\ ~m.ptm.pci => g = f
         /\ m.ptm.pci => g.chain = Chain(m) /\ g.chainOk = ChainOk(Chain(m))
         /\ m.ptm.pci => g.degraded = IF f.degraded = "unknown" /\ CardListed(m)
                                        THEN AsTri(m.pcie.narrow) ELSE f.degraded
         /\ g.phc = f.phc /\ g.tx = f.tx /\ g.rx = f.rx /\ g.ext = f.ext /\ g.per = f.per
         /\ g.speed = f.speed /\ g.cross = f.cross /\ g.state = f.state /\ g.numa = f.numa
<1>1. ~m.ptm.pci => g = f
  BY DEF FromLspci
<1>2. m.ptm.pci => g.chain = Chain(m) /\ g.chainOk = ChainOk(Chain(m))
  BY DEF FromLspci, Facts
<1>3. m.ptm.pci => g.degraded = IF f.degraded = "unknown" /\ CardListed(m)
                                 THEN AsTri(m.pcie.narrow) ELSE f.degraded
  BY DEF FromLspci, Facts
<1>4. g.phc = f.phc /\ g.tx = f.tx /\ g.rx = f.rx /\ g.ext = f.ext /\ g.per = f.per
  BY DEF FromLspci, Facts
<1>5. g.speed = f.speed /\ g.cross = f.cross /\ g.state = f.state /\ g.numa = f.numa
  BY DEF FromLspci, Facts
<1> QED BY <1>1, <1>2, <1>3, <1>4, <1>5

LEMMA FirmwareField ==
  ASSUME NEW v, NEW f \in Facts, NEW g, g = [f EXCEPT !.firmware = v]
  PROVE  /\ g.firmware = v
         /\ g.phc = f.phc /\ g.tx = f.tx /\ g.rx = f.rx /\ g.ext = f.ext /\ g.per = f.per
         /\ g.speed = f.speed /\ g.cross = f.cross /\ g.state = f.state /\ g.numa = f.numa
         /\ g.degraded = f.degraded /\ g.chain = f.chain /\ g.chainOk = f.chainOk
<1>1. g.firmware = v /\ g.phc = f.phc /\ g.tx = f.tx /\ g.rx = f.rx
  BY DEF Facts
<1>2. g.ext = f.ext /\ g.per = f.per /\ g.speed = f.speed /\ g.cross = f.cross
  BY DEF Facts
<1>3. /\ g.state = f.state /\ g.numa = f.numa
      /\ g.degraded = f.degraded /\ g.chain = f.chain /\ g.chainOk = f.chainOk
  BY DEF Facts
<1> QED BY <1>1, <1>2, <1>3

LEMMA FinalFacts ==
  ASSUME NEW m, MachineOK(m)
  PROVE  LET f == FactsOf(m) IN
         /\ f \in Facts
         /\ f.phc = IF m.stamp.answers THEN m.stamp.phc ELSE "unread"
         /\ f.tx = IF m.stamp.answers THEN m.stamp.tx ELSE {}
         /\ f.rx = IF m.stamp.answers THEN m.stamp.rx ELSE {}
         /\ f.ext = IF Clocked(m) THEN Count(m.clock, m.clock.toldExt, m.clock.ext) ELSE -1
         /\ f.per = IF Clocked(m) THEN Count(m.clock, m.clock.toldPer, m.clock.per) ELSE -1
         /\ f.cross = IF Clocked(m) THEN Cross(m.clock) ELSE "unread"
         /\ f.state = IF m.link.operstate THEN m.link.state ELSE "unread"
         /\ f.speed = IF m.link.sysfs \/ m.link.settings THEN m.link.speed ELSE -1
         /\ f.degraded = IF m.ptm.pci /\ (m.pcie.sysfs \/ CardListed(m))
                           THEN AsTri(m.pcie.narrow) ELSE "unknown"
         /\ f.numa = IF m.ptm.pci THEN m.numa ELSE "unread"
         /\ f.firmware = FirmwareVerdict(m)
         /\ f.chain = IF m.ptm.pci THEN Chain(m) ELSE << >>
         /\ f.chainOk = IF m.ptm.pci THEN ChainOk(Chain(m)) ELSE "unknown"
<1> DEFINE a == FromSysfs(m, Empty)
           b == FromSettings(m, a)
           c == FromStamp(m, b)
           d == FromPtp(m, c)
           e == FromLspci(m, d)
           f == FactsOf(m)
<1>1. a \in Facts /\ b \in Facts /\ c \in Facts /\ d \in Facts /\ e \in Facts /\ f \in Facts
  <2>1. a \in Facts
    BY EmptyIsFacts, FactsType
  <2>2. b \in Facts
    BY <2>1, FactsType
  <2>3. c \in Facts
    BY <2>2, FactsType
  <2>4. d \in Facts
    BY <2>3, FactsType
  <2>5. e \in Facts
    BY <2>4, FactsType
  <2>6. f \in Facts
    BY <2>5, FactsType DEF FactsOf
  <2> QED BY <2>1, <2>2, <2>3, <2>4, <2>5, <2>6
<1>2. /\ a.phc = "unread" /\ a.tx = {} /\ a.rx = {} /\ a.ext = -1 /\ a.per = -1
      /\ a.cross = "unread" /\ a.chain = << >> /\ a.chainOk = "unknown"
      /\ a.state = IF m.link.operstate THEN m.link.state ELSE "unread"
      /\ a.speed = IF m.link.sysfs THEN m.link.speed ELSE -1
      /\ a.degraded = IF m.ptm.pci /\ m.pcie.sysfs THEN AsTri(m.pcie.narrow) ELSE "unknown"
      /\ a.numa = IF m.ptm.pci THEN m.numa ELSE "unread"
  BY DEF FromSysfs, Empty
<1>3. /\ b.speed = IF m.link.settings /\ a.speed = -1 THEN m.link.speed ELSE a.speed
      /\ b.phc = a.phc /\ b.tx = a.tx /\ b.rx = a.rx /\ b.ext = a.ext /\ b.per = a.per
      /\ b.cross = a.cross /\ b.chain = a.chain /\ b.chainOk = a.chainOk
      /\ b.state = a.state /\ b.degraded = a.degraded /\ b.numa = a.numa
  <2> HIDE DEF a
  <2>1. b = FromSettings(m, a)
    OBVIOUS
  <2> HIDE DEF b
  <2> QED BY <1>1, <2>1, SettingsFields
<1>4. /\ m.stamp.answers => c.phc = m.stamp.phc /\ c.tx = m.stamp.tx /\ c.rx = m.stamp.rx
      /\ ~m.stamp.answers => c.phc = b.phc /\ c.tx = b.tx /\ c.rx = b.rx
      /\ c.speed = b.speed /\ c.ext = b.ext /\ c.per = b.per
      /\ c.cross = b.cross /\ c.chain = b.chain /\ c.chainOk = b.chainOk
      /\ c.state = b.state /\ c.degraded = b.degraded /\ c.numa = b.numa
  <2> HIDE DEF b
  <2>1. c = FromStamp(m, b)
    OBVIOUS
  <2> HIDE DEF c
  <2> QED BY <1>1, <2>1, StampFields
<1>5. /\ d.phc = c.phc /\ d.tx = c.tx /\ d.rx = c.rx
      /\ d.speed = c.speed /\ d.chain = c.chain /\ d.chainOk = c.chainOk
      /\ d.state = c.state /\ d.degraded = c.degraded /\ d.numa = c.numa
      /\ ~HasClock(c) \/ ~m.clock.entry => d.ext = c.ext /\ d.per = c.per /\ d.cross = c.cross
      /\ HasClock(c) /\ m.clock.entry =>
           /\ d.ext = Count(m.clock, m.clock.toldExt, m.clock.ext)
           /\ d.per = Count(m.clock, m.clock.toldPer, m.clock.per)
           /\ d.cross = Cross(m.clock)
  <2> HIDE DEF c
  <2>1. d = FromPtp(m, c)
    OBVIOUS
  <2> HIDE DEF d
  <2> QED BY <1>1, <2>1, PtpFields
<1>6. /\ e.phc = d.phc /\ e.tx = d.tx /\ e.rx = d.rx /\ e.ext = d.ext /\ e.per = d.per
      /\ e.speed = d.speed /\ e.cross = d.cross /\ e.state = d.state /\ e.numa = d.numa
      /\ ~m.ptm.pci => e = d
      /\ m.ptm.pci =>
           /\ e.chain = Chain(m) /\ e.chainOk = ChainOk(Chain(m))
           /\ e.degraded = IF d.degraded = "unknown" /\ CardListed(m) THEN AsTri(m.pcie.narrow)
                           ELSE d.degraded
  <2> HIDE DEF d
  <2>1. e = FromLspci(m, d)
    OBVIOUS
  <2> HIDE DEF e
  <2> QED BY <1>1, <2>1, LspciFields
<1>7. /\ f.firmware = FirmwareVerdict(m)
      /\ f.phc = e.phc /\ f.tx = e.tx /\ f.rx = e.rx /\ f.ext = e.ext /\ f.per = e.per
      /\ f.speed = e.speed /\ f.cross = e.cross /\ f.state = e.state /\ f.numa = e.numa
      /\ f.degraded = e.degraded /\ f.chain = e.chain /\ f.chainOk = e.chainOk
  <2>1. f = [e EXCEPT !.firmware = FirmwareVerdict(m)]
    BY DEF FactsOf
  <2> HIDE DEF e, f
  <2> QED BY <1>1, <2>1, FirmwareField
<1>8. HasClock(c) <=> m.stamp.answers /\ m.stamp.phc = "some"
  BY <1>2, <1>3, <1>4 DEF HasClock
<1>9. m.link.speed # -1 /\ \A x : AsTri(x) # "unknown"
  BY MachineParts DEF AsTri
<1> HIDE DEF a, b, c, d, e, f
<1>10. /\ f.phc = IF m.stamp.answers THEN m.stamp.phc ELSE "unread"
       /\ f.tx = IF m.stamp.answers THEN m.stamp.tx ELSE {}
       /\ f.rx = IF m.stamp.answers THEN m.stamp.rx ELSE {}
  <2>1. f.phc = c.phc /\ f.tx = c.tx /\ f.rx = c.rx
    BY <1>5, <1>6, <1>7, Zenon
  <2>2. b.phc = "unread" /\ b.tx = {} /\ b.rx = {}
    BY <1>2, <1>3, Zenon
  <2> QED BY <1>4, <2>1, <2>2, Zenon
<1>11. /\ f.ext = IF Clocked(m) THEN Count(m.clock, m.clock.toldExt, m.clock.ext) ELSE -1
       /\ f.per = IF Clocked(m) THEN Count(m.clock, m.clock.toldPer, m.clock.per) ELSE -1
       /\ f.cross = IF Clocked(m) THEN Cross(m.clock) ELSE "unread"
  BY <1>2, <1>3, <1>4, <1>5, <1>6, <1>7, <1>8 DEF Clocked
<1>12. /\ f.state = IF m.link.operstate THEN m.link.state ELSE "unread"
       /\ f.numa = IF m.ptm.pci THEN m.numa ELSE "unread"
       /\ f.chain = IF m.ptm.pci THEN Chain(m) ELSE << >>
       /\ f.chainOk = IF m.ptm.pci THEN ChainOk(Chain(m)) ELSE "unknown"
  BY <1>2, <1>3, <1>4, <1>5, <1>6, <1>7
<1>13. f.speed = IF m.link.sysfs \/ m.link.settings THEN m.link.speed ELSE -1
  BY <1>2, <1>3, <1>4, <1>5, <1>6, <1>7, <1>9
<1>14. f.degraded = IF m.ptm.pci /\ (m.pcie.sysfs \/ CardListed(m))
                      THEN AsTri(m.pcie.narrow) ELSE "unknown"
  BY <1>2, <1>3, <1>4, <1>5, <1>6, <1>7, <1>9
<1> QED BY <1>1, <1>7, <1>10, <1>11, <1>12, <1>13, <1>14 DEF f

-----------------------------------------------------------------------------
(* The same machine with every source answering                            *)

\* A link that answers is a link; a record of good parts is a record.
LEMMA LinkAnswers ==
  ASSUME NEW x \in LinkFacts
  PROVE  /\ [x EXCEPT !.operstate = TRUE, !.sysfs = TRUE, !.settings = TRUE] \in LinkFacts
         /\ [x EXCEPT !.operstate = TRUE, !.sysfs = TRUE, !.settings = TRUE].operstate
         /\ [x EXCEPT !.operstate = TRUE, !.sysfs = TRUE, !.settings = TRUE].sysfs
         /\ [x EXCEPT !.operstate = TRUE, !.sysfs = TRUE, !.settings = TRUE].state = x.state
         /\ [x EXCEPT !.operstate = TRUE, !.sysfs = TRUE, !.settings = TRUE].speed = x.speed
<1> DEFINE S == {"up", "down"}
           V == {100, 1000}
<1>1. LinkFacts = [state : S, operstate : BOOLEAN, speed : V,
                   sysfs : BOOLEAN, settings : BOOLEAN, plan : Plans]
  BY DEF LinkFacts
<1> HIDE DEF S, V
<1> QED BY <1>1

LEMMA FirmwareAnswers ==
  ASSUME NEW x \in Firmwares, NEW y,
         y = [x EXCEPT !.answers = TRUE, !.ids = TRUE, !.revision = TRUE]
  PROVE  /\ y \in Firmwares /\ y.answers /\ y.ids /\ y.revision
         /\ y.reported = x.reported /\ y.list = x.list
         /\ y.device = x.device /\ y.rule = x.rule
<1> DEFINE L == {"none", "in", "out"}
<1>1. Firmwares = [answers : BOOLEAN, reported : BOOLEAN, ids : BOOLEAN, revision : BOOLEAN,
                   list : L, device : Entries, rule : Entries]
  BY DEF Firmwares
<1> HIDE DEF L
<1> QED BY <1>1

Printed(x, l) == [x EXCEPT !.walked = TRUE, !.scan = "ok", !.listing = l]

LEMMA PtmAnswers ==
  ASSUME NEW x \in PtmFacts, NEW l \in Seq(Listings), NEW y, y = Printed(x, l)
  PROVE  /\ y \in PtmFacts /\ y.walked /\ y.scan = "ok" /\ y.listing = l
         /\ y.pci = x.pci /\ y.path = x.path /\ y.hasFile = x.hasFile
<1> DEFINE S == {"ok", "failed", "disabled", "empty"}
           D == Seq(Devices)
           L == Seq(Listings)
           B == Seq(BOOLEAN)
<1>1. PtmFacts = [pci : BOOLEAN, walked : BOOLEAN, scan : S, path : D, listing : L,
                  hasFile : B, kernel : Tri]
  BY DEF PtmFacts
<1>2. "ok" \in S /\ l \in L
  OBVIOUS
<1> HIDE DEF S, D, L, B
<1> QED BY <1>1, <1>2 DEF Printed

LEMMA PartsMakeMachine ==
  ASSUME NEW S, NEW C, NEW L, NEW F, NEW P, NEW Q, NEW N,
         NEW s \in S, NEW c \in C, NEW l \in L, NEW f \in F, NEW p \in P, NEW q \in Q, NEW n \in N
  PROVE  [stamp |-> s, clock |-> c, link |-> l, firmware |-> f, pcie |-> p, ptm |-> q, numa |-> n]
           \in [stamp : S, clock : C, link : L, firmware : F, pcie : P, ptm : Q, numa : N]
OBVIOUS

LEMMA Revealed ==
  ASSUME NEW m, MachineOK(m), NEW t, t = Reveal(m)
  PROVE  /\ MachineOK(t)
         /\ t.stamp.answers /\ t.clock.entry /\ t.clock.ioctl = "runs"
         /\ t.link.operstate /\ t.link.sysfs /\ t.pcie.sysfs
         /\ t.firmware.answers /\ t.ptm.scan = "ok"
         /\ t.stamp.phc = m.stamp.phc /\ t.stamp.tx = m.stamp.tx /\ t.stamp.rx = m.stamp.rx
         /\ t.clock.ext = m.clock.ext /\ t.clock.per = m.clock.per /\ t.clock.cross = m.clock.cross
         /\ t.link.state = m.link.state /\ t.link.speed = m.link.speed
         /\ t.pcie.narrow = m.pcie.narrow /\ t.numa = m.numa
         /\ t.firmware.reported = m.firmware.reported /\ t.firmware.list = m.firmware.list
         /\ t.firmware.device = m.firmware.device /\ t.firmware.rule = m.firmware.rule
         /\ t.firmware.ids /\ t.firmware.revision /\ t.ptm.walked
         /\ t.ptm.pci = m.ptm.pci /\ t.ptm.path = m.ptm.path /\ t.ptm.hasFile = m.ptm.hasFile
         /\ Len(t.ptm.listing) = Len(m.ptm.path)
         /\ \A i \in 1 .. Len(m.ptm.path) : t.ptm.listing[i] = "full"
<1> DEFINE stamp == [m.stamp EXCEPT !.answers = TRUE]
           clock == [m.clock EXCEPT !.entry = TRUE, !.ioctl = "runs"]
           link == [m.link EXCEPT !.operstate = TRUE, !.sysfs = TRUE, !.settings = TRUE]
           firmware == [m.firmware EXCEPT !.answers = TRUE, !.ids = TRUE, !.revision = TRUE]
           pcie == [m.pcie EXCEPT !.sysfs = TRUE]
           listing == [i \in 1 .. Len(m.ptm.listing) |-> "full"]
           ptm == [m.ptm EXCEPT !.walked = TRUE, !.scan = "ok", !.listing = listing]
<1>1. /\ m.stamp \in Stamps /\ m.clock \in Clocks /\ m.link \in LinkFacts
      /\ m.firmware \in Firmwares /\ m.pcie \in PcieFacts /\ m.ptm \in PtmFacts
      /\ m.numa \in {"unread", "no mask", "single", "same", "remote"}
  BY Zenon DEF MachineOK
<1>2. /\ t.stamp = stamp /\ t.clock = clock /\ t.link = link /\ t.firmware = firmware
      /\ t.pcie = pcie /\ t.ptm = ptm /\ t.numa = m.numa
  BY Zenon DEF Reveal
<1>3. stamp \in Stamps /\ stamp.answers /\ stamp.phc = m.stamp.phc /\ stamp.tx = m.stamp.tx
      /\ stamp.rx = m.stamp.rx
  BY <1>1 DEF Stamps
<1>4. clock \in Clocks /\ clock.entry /\ clock.ioctl = "runs"
      /\ clock.ext = m.clock.ext /\ clock.per = m.clock.per /\ clock.cross = m.clock.cross
  BY <1>1 DEF Clocks
<1>5. link \in LinkFacts /\ link.operstate /\ link.sysfs
      /\ link.state = m.link.state /\ link.speed = m.link.speed
  BY <1>1, LinkAnswers, Zenon
<1>6. /\ firmware \in Firmwares /\ firmware.answers /\ firmware.ids /\ firmware.revision
      /\ firmware.reported = m.firmware.reported /\ firmware.list = m.firmware.list
      /\ firmware.device = m.firmware.device /\ firmware.rule = m.firmware.rule
  BY <1>1, FirmwareAnswers, Zenon
<1>7. pcie \in PcieFacts /\ pcie.sysfs /\ pcie.narrow = m.pcie.narrow
  BY <1>1 DEF PcieFacts
<1>8. /\ m.ptm.listing \in Seq(Listings) /\ Len(m.ptm.listing) \in Nat
      /\ Len(m.ptm.listing) = Len(m.ptm.path)
  <2>1. m.ptm.listing \in Seq(Listings)
    BY <1>1 DEF PtmFacts
  <2>2. Len(m.ptm.listing) \in Nat
    BY <2>1, LenProperties
  <2>3. Len(m.ptm.listing) = Len(m.ptm.path)
    BY Zenon DEF MachineOK
  <2> QED BY <2>1, <2>2, <2>3, Zenon
<1>9. listing \in Seq(Listings) /\ Len(listing) = Len(m.ptm.path)
      /\ \A i \in 1 .. Len(m.ptm.path) : listing[i] = "full"
  BY <1>8 DEF Listings
<1>10. ptm \in PtmFacts /\ ptm.walked /\ ptm.scan = "ok" /\ ptm.listing = listing
       /\ ptm.pci = m.ptm.pci /\ ptm.path = m.ptm.path /\ ptm.hasFile = m.ptm.hasFile
  <2>1. m.ptm \in PtmFacts /\ listing \in Seq(Listings)
    BY <1>1, <1>9, Zenon
  <2>2. ptm = Printed(m.ptm, listing)
    BY Zenon DEF Printed
  <2> HIDE DEF listing, ptm
  <2> QED BY <2>1, <2>2, PtmAnswers, SMT
<1>11. t \in [stamp : Stamps, clock : Clocks, link : LinkFacts, firmware : Firmwares,
              pcie : PcieFacts, ptm : PtmFacts,
              numa : {"unread", "no mask", "single", "same", "remote"}]
  <2>1. t = [stamp |-> stamp, clock |-> clock, link |-> link, firmware |-> firmware,
             pcie |-> pcie, ptm |-> ptm, numa |-> m.numa]
    BY Zenon DEF Reveal
  <2>2. stamp \in Stamps /\ clock \in Clocks /\ link \in LinkFacts
        /\ firmware \in Firmwares /\ pcie \in PcieFacts /\ ptm \in PtmFacts
    BY <1>3, <1>4, <1>5, <1>6, <1>7, <1>10
  <2> HIDE DEF stamp, clock, link, firmware, pcie, ptm
  <2> HIDE DEF listing
  <2>3. [stamp |-> stamp, clock |-> clock, link |-> link, firmware |-> firmware,
         pcie |-> pcie, ptm |-> ptm, numa |-> m.numa]
          \in [stamp : Stamps, clock : Clocks, link : LinkFacts, firmware : Firmwares,
               pcie : PcieFacts, ptm : PtmFacts,
               numa : {"unread", "no mask", "single", "same", "remote"}]
    BY <1>1, <2>2, PartsMakeMachine, Zenon
  <2> QED BY <2>1, <2>3, Zenon
<1> HIDE DEF stamp, clock, link, firmware, pcie, ptm, listing
<1>12. MachineOK(t)
  <2>1. Len(m.ptm.path) >= 1 /\ Len(m.ptm.hasFile) = Len(m.ptm.path)
        /\ \A i \in 1 .. Len(m.ptm.path) : m.ptm.hasFile[i] => m.ptm.path[i].ptm
    BY Zenon DEF MachineOK
  <2> QED BY <1>2, <1>9, <1>10, <1>11, <2>1 DEF MachineOK
<1> QED BY <1>2, <1>3, <1>4, <1>5, <1>6, <1>7, <1>9, <1>10, <1>12

-----------------------------------------------------------------------------
(* What is known is what is so                                             *)

\* The chain rule decides every path whose roles are all known.
LEMMA ChainDecides ==
  ASSUME NEW nodes \in Seq(Nodes), Len(nodes) >= 1,
         \A i \in 1 .. Len(nodes) : /\ nodes[i].requester # "unknown"
                                    /\ nodes[i].responder # "unknown"
                                    /\ nodes[i].root # "unknown"
  PROVE  ChainOk(nodes) \in {"yes", "no"}
<1> DEFINE n == Len(nodes)
           stops == {i \in 1 .. n - 1 : nodes[i].responder # "yes"}
<1>1. n \in Nat /\ n # 0 /\ n \in 1 .. n /\ 1 \in 1 .. n /\ \A i \in 1 .. n - 1 : i \in 1 .. n
  BY LenProperties
<1>2. \A i \in 1 .. n : nodes[i].requester \in {"yes", "no"} /\ nodes[i].responder \in {"yes", "no"}
  <2>1. ASSUME NEW i \in 1 .. n
        PROVE  nodes[i].requester \in Tri /\ nodes[i].responder \in Tri
    <3>1. nodes[i] \in Nodes
      BY ElementOfSeq
    <3> QED BY <3>1 DEF Nodes
  <2> QED BY <2>1 DEF Tri
<1>3. CASE nodes[n].requester # "yes"
  BY <1>1, <1>2, <1>3 DEF ChainOk
<1>4. CASE nodes[n].requester = "yes" /\ stops # {}
  <2>1. stops \subseteq 1 .. n /\ stops \subseteq Nat
    BY <1>1
  <2>2. ChainOk(nodes) = nodes[First(stops)].responder
    BY <1>1, <1>4 DEF ChainOk
  <2>3. First(stops) \in stops
    <3> HIDE DEF stops
    <3> QED BY <1>4, <2>1, FirstOf
  <2> QED BY <1>2, <2>1, <2>2, <2>3
<1>5. CASE nodes[n].requester = "yes" /\ stops = {}
  <2>1. ~(\A i \in 1 .. n : nodes[i].root = "unknown")
    BY <1>1
  <2>2. ChainOk(nodes) = AsTri(\E i \in 1 .. n : nodes[i].root = "yes")
    BY <1>1, <1>5, <2>1, Zenon DEF ChainOk
  <2> QED BY <2>2 DEF AsTri
<1> QED BY <1>3, <1>4, <1>5

\* What is printed in full is known in full.
LEMMA FullChain ==
  ASSUME NEW m, MachineOK(m), m.ptm.scan = "ok", NEW path, path = LookedAt(m),
         \A i \in 1 .. Len(path) : Walked(m, m.ptm.listing)[i] = "full"
  PROVE  /\ \A i \in 1 .. Len(path) :
               /\ Chain(m)[i].requester = AsTri(path[i].requester)
               /\ Chain(m)[i].enabled = AsTri(path[i].enabled)
         /\ ChainOk(Chain(m)) \in {"yes", "no"}
<1>1. /\ Chain(m) \in Seq(Nodes) /\ Len(Chain(m)) = Len(path) /\ Len(path) >= 1
      /\ path \in Seq(Devices) /\ Len(path) \in Nat
  BY ChainShape
<1>2. ASSUME NEW i \in 1 .. Len(path)
      PROVE  /\ Chain(m)[i].requester = AsTri(path[i].requester)
             /\ Chain(m)[i].responder = AsTri(path[i].responder)
             /\ Chain(m)[i].root = AsTri(path[i].root)
             /\ Chain(m)[i].enabled = AsTri(path[i].enabled)
  <2>1. Blocks(m)[i] = "full"
    BY DEF Blocks
  <2>2. Chain(m)[i] = Overlay(ReadNode(path[i], "full"), path[i], Walked(m, m.ptm.hasFile)[i])
    BY <2>1 DEF Chain
  <2> QED BY <2>2 DEF Overlay, ReadNode
<1>3. \A i \in 1 .. Len(Chain(m)) : /\ Chain(m)[i].requester # "unknown"
                                    /\ Chain(m)[i].responder # "unknown"
                                    /\ Chain(m)[i].root # "unknown"
  BY <1>1, <1>2 DEF AsTri
<1>4. ChainOk(Chain(m)) \in {"yes", "no"}
  BY <1>1, <1>3, ChainDecides
<1> QED BY <1>2, <1>4

\* With every answer, the whole path is looked at and printed in full.
LEMMA RevealedPath ==
  ASSUME NEW m, MachineOK(m), NEW t, t = Reveal(m)
  PROVE  /\ LookedAt(t) = m.ptm.path
         /\ \A i \in 1 .. Len(m.ptm.path) : Walked(t, t.ptm.listing)[i] = "full"
         /\ m.ptm.walked \/ Len(m.ptm.path) = 1 => LookedAt(m) = m.ptm.path
<1>1. /\ t.ptm.walked /\ t.ptm.path = m.ptm.path
      /\ \A i \in 1 .. Len(m.ptm.path) : t.ptm.listing[i] = "full"
  BY Revealed
<1>2. Len(m.ptm.path) = 1 => <<m.ptm.path[Len(m.ptm.path)]>> = m.ptm.path
  BY PathShape
<1> QED BY <1>1, <1>2 DEF LookedAt, Walked

\* The chain of the path: what is known of it is what a full listing shows; what the
\* rule makes of it too, if the path was looked at and not only the card.
LEMMA ChainAgrees ==
  ASSUME NEW m, MachineOK(m), NEW t, t = Reveal(m)
  PROVE  LET k == Len(Chain(m))
             n == Len(Chain(t)) IN
         /\ k \in Nat /\ k >= 1 /\ n \in Nat /\ n >= 1
         /\ Chain(m)[k].requester \in {"unknown", Chain(t)[n].requester}
         /\ Chain(m)[k].enabled \in {"unknown", Chain(t)[n].enabled}
         /\ m.ptm.walked \/ Len(m.ptm.path) = 1 =>
              ChainOk(Chain(m)) \in {"unknown", ChainOk(Chain(t))}
<1> DEFINE looked == LookedAt(m)
           k == Len(looked)
           path == m.ptm.path
           n == Len(path)
<1>1. MachineOK(t) /\ t.ptm.scan = "ok"
  BY Revealed
<1>2. /\ LookedAt(t) = path
      /\ \A i \in 1 .. n : Walked(t, t.ptm.listing)[i] = "full"
      /\ m.ptm.walked \/ n = 1 => looked = path
  BY RevealedPath
<1>3. /\ Chain(m) \in Seq(Nodes) /\ Len(Chain(m)) = k /\ k >= 1 /\ k \in Nat
      /\ looked \in Seq(Devices) /\ looked[k] = path[n]
      /\ \A i \in 1 .. k : Sound(Chain(m)[i], looked[i])
  BY ChainShape
<1>4. /\ Chain(t) \in Seq(Nodes) /\ Len(Chain(t)) = n /\ n >= 1 /\ n \in Nat
      /\ path \in Seq(Devices)
      /\ \A i \in 1 .. n : Sound(Chain(t)[i], path[i])
  BY <1>1, <1>2, ChainShape
<1>5. /\ \A i \in 1 .. n : /\ Chain(t)[i].requester = AsTri(path[i].requester)
                          /\ Chain(t)[i].enabled = AsTri(path[i].enabled)
      /\ ChainOk(Chain(t)) \in {"yes", "no"}
  BY <1>1, <1>2, FullChain
<1>6. /\ ChainOk(Chain(t)) = "yes" => Carries(path)
      /\ ChainOk(Chain(t)) = "no" => ~Carries(path)
  BY <1>4, ChainSound
<1>7. /\ ChainOk(Chain(m)) = "yes" => Carries(looked)
      /\ ChainOk(Chain(m)) = "no" => ~Carries(looked)
  BY <1>3, ChainSound
<1> HIDE DEF looked, k, path, n
<1>8. Sound(Chain(m)[k], path[n])
  BY <1>3
<1>9. n \in 1 .. n
  BY <1>4
<1>10. /\ Chain(m)[k].requester \in {"unknown", Chain(t)[n].requester}
       /\ Chain(m)[k].enabled \in {"unknown", Chain(t)[n].enabled}
  BY <1>5, <1>8, <1>9 DEF Sound
<1>11. ChainOk(Chain(m)) \in {"yes", "no", "unknown"}
  BY <1>3, ChainOkType DEF Tri
<1>12. looked = path => ChainOk(Chain(m)) \in {"unknown", ChainOk(Chain(t))}
  BY <1>5, <1>6, <1>7, <1>11, Zenon
<1> QED BY <1>2, <1>3, <1>4, <1>10, <1>12 DEF k, n, path

\* Field by field, the facts at the end are those that a machine with every
\* answer shows, or they are not known.
Agree(m, f, g) ==
  /\ \/ f.phc = g.phc /\ f.tx = g.tx /\ f.rx = g.rx
     \/ f.phc = "unread" /\ f.tx = {} /\ f.rx = {}
  /\ m.clock.ioctl = "runs" \/ m.clock.toldExt = m.clock.ext => f.ext \in {-1, g.ext}
  /\ m.clock.ioctl = "runs" \/ m.clock.toldPer = m.clock.per => f.per \in {-1, g.per}
  /\ f.cross \in {"unread", "unknown", g.cross}
  /\ m.link.operstate => f.state = g.state
  /\ f.speed \in {-1, g.speed}
  /\ f.degraded \in {"unknown", g.degraded}
  /\ f.numa = g.numa
  /\ m.firmware.revision \/ m.firmware.device = m.firmware.rule =>
       f.firmware \in {"unknown", g.firmware}
  /\ Endpoint(f).requester \in {"unknown", Endpoint(g).requester}
  /\ Endpoint(f).enabled \in {"unknown", Endpoint(g).enabled}
  /\ m.ptm.walked \/ Len(m.ptm.path) = 1 => f.chainOk \in {"unknown", g.chainOk}

LEMMA FactsAgree ==
  ASSUME NEW m, MachineOK(m), NEW t, t = Reveal(m), NEW f, f = FactsOf(m), NEW g, g = FactsOf(t)
  PROVE  Agree(m, f, g)
<1>1. /\ MachineOK(t)
      /\ t.stamp.answers /\ t.clock.entry /\ t.clock.ioctl = "runs"
      /\ t.link.operstate /\ t.link.sysfs /\ t.pcie.sysfs
      /\ t.firmware.answers
      /\ t.stamp.phc = m.stamp.phc /\ t.stamp.tx = m.stamp.tx /\ t.stamp.rx = m.stamp.rx
      /\ t.clock.ext = m.clock.ext /\ t.clock.per = m.clock.per /\ t.clock.cross = m.clock.cross
      /\ t.link.state = m.link.state /\ t.link.speed = m.link.speed
      /\ t.pcie.narrow = m.pcie.narrow /\ t.numa = m.numa
      /\ t.firmware.reported = m.firmware.reported /\ t.firmware.list = m.firmware.list
      /\ t.firmware.device = m.firmware.device /\ t.firmware.rule = m.firmware.rule
      /\ t.firmware.ids /\ t.firmware.revision
      /\ t.ptm.pci = m.ptm.pci
  BY Revealed
<1>2. /\ f.phc = IF m.stamp.answers THEN m.stamp.phc ELSE "unread"
      /\ f.tx = IF m.stamp.answers THEN m.stamp.tx ELSE {}
      /\ f.rx = IF m.stamp.answers THEN m.stamp.rx ELSE {}
      /\ f.ext = IF Clocked(m) THEN Count(m.clock, m.clock.toldExt, m.clock.ext) ELSE -1
      /\ f.per = IF Clocked(m) THEN Count(m.clock, m.clock.toldPer, m.clock.per) ELSE -1
      /\ f.cross = IF Clocked(m) THEN Cross(m.clock) ELSE "unread"
      /\ f.state = IF m.link.operstate THEN m.link.state ELSE "unread"
      /\ f.speed = IF m.link.sysfs \/ m.link.settings THEN m.link.speed ELSE -1
      /\ f.degraded = IF m.ptm.pci /\ (m.pcie.sysfs \/ CardListed(m))
                        THEN AsTri(m.pcie.narrow) ELSE "unknown"
      /\ f.numa = IF m.ptm.pci THEN m.numa ELSE "unread"
      /\ f.firmware = FirmwareVerdict(m)
      /\ f.chain = IF m.ptm.pci THEN Chain(m) ELSE << >>
      /\ f.chainOk = IF m.ptm.pci THEN ChainOk(Chain(m)) ELSE "unknown"
  BY FinalFacts, Zenon
<1>3. /\ g.phc = m.stamp.phc /\ g.tx = m.stamp.tx /\ g.rx = m.stamp.rx
      /\ g.state = m.link.state /\ g.speed = m.link.speed
      /\ g.degraded = IF m.ptm.pci THEN AsTri(m.pcie.narrow) ELSE "unknown"
      /\ g.numa = IF m.ptm.pci THEN m.numa ELSE "unread"
      /\ g.firmware = FirmwareVerdict(t)
      /\ g.chain = IF m.ptm.pci THEN Chain(t) ELSE << >>
      /\ g.chainOk = IF m.ptm.pci THEN ChainOk(Chain(t)) ELSE "unknown"
  <2>1. MachineOK(t)
    BY <1>1
  <2>2. /\ g.phc = IF t.stamp.answers THEN t.stamp.phc ELSE "unread"
        /\ g.tx = IF t.stamp.answers THEN t.stamp.tx ELSE {}
        /\ g.rx = IF t.stamp.answers THEN t.stamp.rx ELSE {}
        /\ g.state = IF t.link.operstate THEN t.link.state ELSE "unread"
        /\ g.speed = IF t.link.sysfs \/ t.link.settings THEN t.link.speed ELSE -1
        /\ g.degraded = IF t.ptm.pci /\ (t.pcie.sysfs \/ CardListed(t))
                          THEN AsTri(t.pcie.narrow) ELSE "unknown"
        /\ g.numa = IF t.ptm.pci THEN t.numa ELSE "unread"
        /\ g.firmware = FirmwareVerdict(t)
        /\ g.chain = IF t.ptm.pci THEN Chain(t) ELSE << >>
        /\ g.chainOk = IF t.ptm.pci THEN ChainOk(Chain(t)) ELSE "unknown"
    BY <2>1, FinalFacts, Zenon
  <2>3. g.phc = m.stamp.phc /\ g.tx = m.stamp.tx /\ g.rx = m.stamp.rx
    BY <1>1, <2>2, Zenon
  <2>4. g.state = m.link.state /\ g.speed = m.link.speed
    BY <1>1, <2>2, Zenon
  <2>5. g.degraded = IF m.ptm.pci THEN AsTri(m.pcie.narrow) ELSE "unknown"
    BY <1>1, <2>2, Zenon
  <2>6. g.numa = IF m.ptm.pci THEN m.numa ELSE "unread"
    BY <1>1, <2>2, Zenon
  <2>7. /\ g.firmware = FirmwareVerdict(t)
        /\ g.chain = IF m.ptm.pci THEN Chain(t) ELSE << >>
        /\ g.chainOk = IF m.ptm.pci THEN ChainOk(Chain(t)) ELSE "unknown"
    BY <1>1, <2>2, Zenon
  <2> QED BY <2>3, <2>4, <2>5, <2>6, <2>7
<1>4. m.stamp.phc = "some" => g.ext = m.clock.ext /\ g.per = m.clock.per
                              /\ g.cross = m.clock.cross
  <2>1. /\ g.ext = IF Clocked(t) THEN Count(t.clock, t.clock.toldExt, t.clock.ext) ELSE -1
        /\ g.per = IF Clocked(t) THEN Count(t.clock, t.clock.toldPer, t.clock.per) ELSE -1
        /\ g.cross = IF Clocked(t) THEN Cross(t.clock) ELSE "unread"
    BY <1>1, FinalFacts, Zenon
  <2>2. m.stamp.phc = "some" => Clocked(t)
    BY <1>1 DEF Clocked
  <2>3. Cross(t.clock) = m.clock.cross
    BY <1>1 DEF Cross
  <2> QED BY <1>1, <2>1, <2>2, <2>3 DEF Count
<1>5. Clocked(m) => m.stamp.phc = "some"
  BY DEF Clocked
<1>6. /\ m.clock.ioctl = "runs" \/ m.clock.toldExt = m.clock.ext => f.ext \in {-1, g.ext}
      /\ m.clock.ioctl = "runs" \/ m.clock.toldPer = m.clock.per => f.per \in {-1, g.per}
  BY <1>2, <1>4, <1>5 DEF Count
<1>7. f.cross \in {"unread", "unknown", g.cross}
  <2>1. Cross(m.clock) \in {"unread", "unknown", m.clock.cross}
    BY MachineParts DEF Cross
  <2> QED BY <1>2, <1>4, <1>5, <2>1
<1>8. m.firmware.revision \/ m.firmware.device = m.firmware.rule =>
        f.firmware \in {"unknown", g.firmware}
  <2>1. m.firmware.revision \/ m.firmware.device = m.firmware.rule =>
          DeviceNote(m) = DeviceNote(t)
    BY <1>1 DEF DeviceNote
  <2> QED BY <1>1, <1>2, <1>3, <2>1 DEF FirmwareVerdict
<1>9. /\ Endpoint(f).requester \in {"unknown", Endpoint(g).requester}
      /\ Endpoint(f).enabled \in {"unknown", Endpoint(g).enabled}
      /\ m.ptm.walked \/ Len(m.ptm.path) = 1 => f.chainOk \in {"unknown", g.chainOk}
  <2>1. CASE m.ptm.pci
    <3> DEFINE k == Len(Chain(m))
               n == Len(Chain(t))
    <3>1. /\ k \in Nat /\ k >= 1 /\ n \in Nat /\ n >= 1
          /\ Chain(m)[k].requester \in {"unknown", Chain(t)[n].requester}
          /\ Chain(m)[k].enabled \in {"unknown", Chain(t)[n].enabled}
          /\ m.ptm.walked \/ Len(m.ptm.path) = 1 =>
               ChainOk(Chain(m)) \in {"unknown", ChainOk(Chain(t))}
      BY ChainAgrees, Zenon
    <3>2. f.chain = Chain(m) /\ g.chain = Chain(t)
      BY <1>2, <1>3, <2>1
    <3>3. Chain(m) # << >> /\ Chain(t) # << >>
      BY <3>1
    <3>4. Endpoint(f) = Chain(m)[k] /\ Endpoint(g) = Chain(t)[n]
      BY <3>1, <3>2, <3>3, Zenon DEF Endpoint
    <3> QED BY <1>2, <1>3, <2>1, <3>1, <3>4, Zenon
  <2>2. CASE ~m.ptm.pci
    <3>1. f.chain = << >> /\ g.chain = << >> /\ f.chainOk = "unknown"
      BY <1>2, <1>3, <2>2
    <3> QED BY <3>1, Zenon DEF Endpoint
  <2> QED BY <2>1, <2>2
<1>10. /\ \/ f.phc = g.phc /\ f.tx = g.tx /\ f.rx = g.rx
          \/ f.phc = "unread" /\ f.tx = {} /\ f.rx = {}
       /\ m.link.operstate => f.state = g.state
       /\ f.numa = g.numa
  BY <1>2, <1>3, Zenon
<1>11. f.speed \in {-1, g.speed} /\ f.degraded \in {"unknown", g.degraded}
  BY <1>2, <1>3
<1> QED BY <1>6, <1>7, <1>8, <1>9, <1>10, <1>11, Zenon DEF Agree

\* Facts that agree up to what is not known make rows that do.
LEMMA RowsAgree ==
  ASSUME NEW f \in Facts, NEW g \in Facts, NEW plan, NEW r \in RowNames,
         \/ f.phc = g.phc /\ f.tx = g.tx /\ f.rx = g.rx
         \/ f.phc = "unread" /\ f.tx = {} /\ f.rx = {},
         r = "pps_input" => f.ext \in {-1, g.ext},
         r = "pps_output" => f.per \in {-1, g.per},
         f.cross \in {"unread", "unknown", g.cross},
         r = "link_speed" => f.state = g.state,
         f.speed \in {-1, g.speed}, f.degraded \in {"unknown", g.degraded},
         f.numa = g.numa, r = "firmware" => f.firmware \in {"unknown", g.firmware},
         Endpoint(f).requester \in {"unknown", Endpoint(g).requester},
         Endpoint(f).enabled \in {"unknown", Endpoint(g).enabled},
         r = "ptm_chain" => f.chainOk \in {"unknown", g.chainOk}
  PROVE  Row(r, f, plan) \in {"unknown", Row(r, g, plan)}
<1>1. CASE r = "phc_present"
  BY <1>1 DEF Row
<1>2. CASE r = "hw_tx_timestamp"
  BY <1>2 DEF Row, Listed
<1>3. CASE r = "hw_rx_filter"
  BY <1>3 DEF Row, Listed
<1>4. CASE r = "one_step"
  BY <1>4 DEF Row
<1>5. CASE r = "pps_input"
  BY <1>5 DEF Row, Counted
<1>6. CASE r = "pps_output"
  BY <1>6 DEF Row, Counted
<1>7. CASE r = "ptm_endpoint"
  BY <1>7 DEF Row, Optional
<1>8. CASE r = "ptm_chain"
  BY <1>8 DEF Row, Optional
<1>9. CASE r = "ptm_enabled"
  BY <1>9 DEF Row, Optional
<1>10. CASE r = "cross_timestamp"
  BY <1>10 DEF Row
<1>11. CASE r = "link_speed"
  BY <1>11 DEF Row, LinkSpeed
<1>12. CASE r = "pcie_link"
  BY <1>12 DEF Row
<1>13. CASE r = "firmware"
  BY <1>13 DEF Row
<1>14. CASE r = "numa"
  BY <1>14 DEF Row
<1> QED BY <1>1, <1>2, <1>3, <1>4, <1>5, <1>6, <1>7, <1>8, <1>9, <1>10, <1>11, <1>12, <1>13, <1>14
        DEF RowNames

\* For every machine and whatever did not answer, a row says what a run with
\* every answer says, or that it does not know; the rows that Guess are the
\* only exceptions.
THEOREM NeverGuessesHolds == Spec => []NeverGuesses
<1>1. ASSUME GuessInv PROVE NeverGuesses
  <2> SUFFICES ASSUME Done, NEW r \in RowNames
               PROVE  rows[r] \in {"unknown", TruthOf(machine)[r]} \/ Guesses(r)
      BY DEF NeverGuesses
  <2> DEFINE t == Reveal(machine)
             f == FactsOf(machine)
             g == FactsOf(t)
             plan == machine.link.plan
  <2>1. MachineOK(machine) /\ rows = Rows(facts, plan) /\ facts = f
    BY <1>1 DEF GuessInv, PortInv, TypeOK, Done, After
  <2>2. rows[r] = Row(r, f, plan) /\ TruthOf(machine)[r] = Row(r, g, plan)
    BY <2>1 DEF Rows, TruthOf
  <2>3. MachineOK(t)
    BY <2>1, Revealed
  <2>4. f \in Facts /\ g \in Facts
    BY <2>1, <2>3, FinalFacts, Zenon
  <2> HIDE DEF t, f, g, plan
  <2>5. CASE Guesses(r)
    BY <2>5
  <2>6. CASE ~Guesses(r)
    <3>1. t = Reveal(machine) /\ f = FactsOf(machine) /\ g = FactsOf(t)
      BY Zenon DEF t, f, g
    <3>2. Agree(machine, f, g)
      BY <2>1, <3>1, FactsAgree, Zenon
    <3>3. Len(machine.ptm.path) > 1 \/ Len(machine.ptm.path) = 1
      BY <2>1, PathLength, Zenon
    <3>4. /\ r = "link_speed" => f.state = g.state
          /\ r = "pps_input" => f.ext \in {-1, g.ext}
          /\ r = "pps_output" => f.per \in {-1, g.per}
          /\ r = "firmware" => f.firmware \in {"unknown", g.firmware}
          /\ r = "ptm_chain" => f.chainOk \in {"unknown", g.chainOk}
      BY <2>6, <3>2, <3>3, Zenon DEF Guesses, Agree
    <3> QED BY <2>2, <2>4, <3>2, <3>4, RowsAgree DEF Agree
  <2> QED BY <2>5, <2>6
<1> QED BY <1>1, GuessInvariant, PTL

-----------------------------------------------------------------------------
(* What is not known has a reason                                          *)

\* Every source that was asked and did not answer is in the errors.
Reported ==
  /\ step > 1 /\ ~machine.firmware.answers => "ethtool_i" \in errors
  /\ step > 2 /\ ~machine.link.settings => "ethtool" \in errors
  /\ step > 3 /\ ~machine.stamp.answers => "ethtool_T" \in errors
  /\ step > 4 /\ HasClock(facts) /\ ~machine.clock.entry => "ptp" \in errors
  /\ step > 4 /\ HasClock(facts) /\ machine.clock.entry /\ machine.clock.ioctl = "denied" =>
       "ioctl" \in errors
  /\ step > 5 /\ machine.ptm.pci /\ machine.ptm.scan \in {"failed", "disabled"} =>
       "lspci" \in errors

ReportInv == GuessInv /\ Reported

LEMMA ReportStep == ReportInv /\ [Next]_vars => ReportInv'
<1> SUFFICES ASSUME ReportInv, [Next]_vars PROVE Reported'
    BY GuessStep DEF ReportInv
<1>1. step \in 0 .. 7 /\ facts \in Facts /\ Reported
  BY DEF ReportInv, GuessInv, PortInv, TypeOK
<1>2. CASE UNCHANGED vars
  BY <1>1, <1>2 DEF Reported, vars, HasClock
<1>3. CASE Sysfs
  BY <1>1, <1>3 DEF Sysfs, Move, Reported
<1>4. CASE DriverInfo
  <2>1. step = 1 /\ step' = 2 /\ machine' = machine /\ (~machine.firmware.answers => "ethtool_i" \in errors')
    BY <1>4, SMT DEF DriverInfo, Move, Problem
  <2> QED BY <2>1 DEF Reported
<1>5. CASE Settings
  <2>1. /\ step = 2 /\ step' = 3 /\ machine' = machine /\ errors \subseteq errors'
        /\ ~machine.link.settings => "ethtool" \in errors'
    BY <1>5, SMT DEF Settings, Move, Problem
  <2> QED BY <1>1, <2>1 DEF Reported
<1>6. CASE Timestamping
  <2>1. /\ step = 3 /\ step' = 4 /\ machine' = machine /\ errors \subseteq errors'
        /\ ~machine.stamp.answers => "ethtool_T" \in errors'
    BY <1>6, SMT DEF Timestamping, Move, Problem
  <2> QED BY <1>1, <2>1 DEF Reported
<1>7. CASE PtpCollect
  <2>1. /\ step = 4 /\ step' = 5 /\ machine' = machine /\ facts' = FromPtp(machine, facts)
    BY <1>7 DEF PtpCollect, Move
  <2>2. errors \subseteq errors'
    BY <1>7 DEF PtpCollect, Problem
  <2>3. HasClock(facts) /\ ~machine.clock.entry => "ptp" \in errors'
    BY <1>7 DEF PtpCollect, Problem
  <2>4. HasClock(facts) /\ machine.clock.entry /\ machine.clock.ioctl = "denied" =>
          "ioctl" \in errors'
    BY <1>7 DEF PtpCollect, Problem
  <2>5. facts'.phc = facts.phc
    BY <1>1, <2>1, FactsKept
  <2> QED BY <1>1, <2>1, <2>2, <2>3, <2>4, <2>5 DEF Reported, HasClock
<1>8. CASE Annotate
  <2>1. /\ step = 5 /\ step' = 6 /\ machine' = machine /\ facts' = FromLspci(machine, facts)
        /\ errors \subseteq errors'
        /\ machine.ptm.pci /\ machine.ptm.scan \in {"failed", "disabled"} => "lspci" \in errors'
    BY <1>8, SMT DEF Annotate, Move, Problem
  <2>2. facts'.phc = facts.phc
    BY <1>1, <2>1, FactsKept
  <2> QED BY <1>1, <2>1, <2>2 DEF Reported, HasClock
<1>9. CASE Evaluate
  <2>1. /\ step = 6 /\ step' = 7 /\ machine' = machine /\ errors' = errors
        /\ facts' = [facts EXCEPT !.firmware = FirmwareVerdict(machine)]
    BY <1>9 DEF Evaluate, Move
  <2>2. facts'.phc = facts.phc
    BY <1>1, <2>1, FirmwareField
  <2> QED BY <1>1, <2>1, <2>2 DEF Reported, HasClock
<1> QED BY <1>2, <1>3, <1>4, <1>5, <1>6, <1>7, <1>8, <1>9 DEF Next

LEMMA ReportInvariant == Spec => []ReportInv
<1>1. Init => ReportInv
  BY GuessInit DEF Init, ReportInv, Reported
<1> QED BY <1>1, ReportStep, PTL DEF Spec

\* model.py:6-7, for every machine: a row that is unknown and need not be has the
\* error of a source that it waits for, but for the reads that report nothing.
THEOREM UnknownSaysWhyHolds == Spec => []UnknownSaysWhy
<1>1. ASSUME ReportInv PROVE UnknownSaysWhy
  <2> SUFFICES ASSUME Done, NEW r \in RowNames, rows[r] = "unknown",
                      TruthOf(machine)[r] # "unknown", ~Silent(r)
               PROVE  SourcesOf(r) \cap errors # {}
      BY DEF UnknownSaysWhy
  <2> DEFINE m == machine
             t == Reveal(machine)
             f == FactsOf(machine)
             g == FactsOf(t)
             plan == machine.link.plan
  <2>1. /\ MachineOK(m) /\ rows = Rows(facts, plan) /\ facts = f /\ step = 7
    BY <1>1 DEF ReportInv, GuessInv, PortInv, TypeOK, Done, After
  <2>2. /\ rows[r] = Row(r, f, plan) /\ TruthOf(m)[r] = Row(r, g, plan)
    BY <2>1 DEF Rows, TruthOf
  <2>3. Row(r, f, plan) = "unknown" /\ Row(r, g, plan) # "unknown"
    BY <2>2
  <2>4. /\ ~m.firmware.answers => "ethtool_i" \in errors
        /\ ~m.link.settings => "ethtool" \in errors
        /\ ~m.stamp.answers => "ethtool_T" \in errors
        /\ f.phc = "some" /\ ~m.clock.entry => "ptp" \in errors
        /\ f.phc = "some" /\ m.clock.entry /\ m.clock.ioctl = "denied" => "ioctl" \in errors
        /\ m.ptm.pci /\ m.ptm.scan \in {"failed", "disabled"} => "lspci" \in errors
    BY <1>1, <2>1 DEF ReportInv, Reported, HasClock
  <2>5. /\ f.phc = IF m.stamp.answers THEN m.stamp.phc ELSE "unread"
        /\ f.tx = IF m.stamp.answers THEN m.stamp.tx ELSE {}
        /\ f.rx = IF m.stamp.answers THEN m.stamp.rx ELSE {}
        /\ f.ext = IF Clocked(m) THEN Count(m.clock, m.clock.toldExt, m.clock.ext) ELSE -1
        /\ f.per = IF Clocked(m) THEN Count(m.clock, m.clock.toldPer, m.clock.per) ELSE -1
        /\ f.cross = IF Clocked(m) THEN Cross(m.clock) ELSE "unread"
        /\ f.speed = IF m.link.sysfs \/ m.link.settings THEN m.link.speed ELSE -1
        /\ f.degraded = IF m.ptm.pci /\ (m.pcie.sysfs \/ CardListed(m))
                          THEN AsTri(m.pcie.narrow) ELSE "unknown"
        /\ f.numa = IF m.ptm.pci THEN m.numa ELSE "unread"
        /\ f.firmware = FirmwareVerdict(m)
        /\ f.chain = IF m.ptm.pci THEN Chain(m) ELSE << >>
        /\ f.chainOk = IF m.ptm.pci THEN ChainOk(Chain(m)) ELSE "unknown"
    BY <2>1, FinalFacts, Zenon
  <2>6. /\ MachineOK(t) /\ t.stamp.answers /\ t.clock.entry
        /\ t.stamp.phc = m.stamp.phc /\ t.stamp.tx = m.stamp.tx /\ t.stamp.rx = m.stamp.rx
        /\ t.numa = m.numa /\ t.ptm.pci = m.ptm.pci /\ t.firmware.answers
        /\ t.firmware.reported = m.firmware.reported /\ t.firmware.list = m.firmware.list
        /\ t.firmware.device = m.firmware.device /\ t.firmware.rule = m.firmware.rule
        /\ t.firmware.ids /\ t.firmware.revision
    BY <2>1, Revealed
  <2>7. /\ g.phc = IF t.stamp.answers THEN t.stamp.phc ELSE "unread"
        /\ g.tx = IF t.stamp.answers THEN t.stamp.tx ELSE {}
        /\ g.rx = IF t.stamp.answers THEN t.stamp.rx ELSE {}
        /\ g.ext = IF Clocked(t) THEN Count(t.clock, t.clock.toldExt, t.clock.ext) ELSE -1
        /\ g.per = IF Clocked(t) THEN Count(t.clock, t.clock.toldPer, t.clock.per) ELSE -1
        /\ g.cross = IF Clocked(t) THEN Cross(t.clock) ELSE "unread"
        /\ g.degraded = IF t.ptm.pci /\ (t.pcie.sysfs \/ CardListed(t))
                          THEN AsTri(t.pcie.narrow) ELSE "unknown"
        /\ g.numa = IF t.ptm.pci THEN t.numa ELSE "unread"
        /\ g.firmware = FirmwareVerdict(t)
        /\ g.chain = IF t.ptm.pci THEN Chain(t) ELSE << >>
        /\ g.chainOk = IF t.ptm.pci THEN ChainOk(Chain(t)) ELSE "unknown"
    BY <2>6, FinalFacts, Zenon
  <2>8. /\ m.clock.ioctl \in {"off", "denied", "silent", "no caps", "runs"}
        /\ m.ptm.scan \in {"ok", "failed", "disabled", "empty"} /\ m.link.speed # -1
    <3>1. m.ptm \in PtmFacts
      BY <2>1, Zenon DEF MachineOK
    <3> QED BY <2>1, <3>1, MachineParts DEF PtmFacts
  <2> HIDE DEF m, t, f, g, plan
  <2>9. CASE r \in {"phc_present", "hw_tx_timestamp", "hw_rx_filter", "one_step"}
    <3>1. m.stamp.answers => f.phc = g.phc /\ f.tx = g.tx /\ f.rx = g.rx
      BY <2>5, <2>6, <2>7
    <3>2. f.phc = g.phc /\ f.tx = g.tx /\ f.rx = g.rx => Row(r, f, plan) = Row(r, g, plan)
      BY <2>9 DEF Row, Listed
    <3> QED BY <2>3, <2>4, <2>9, <3>1, <3>2 DEF SourcesOf
  <2>10. ASSUME NEW x
         PROVE  /\ r = "pps_input" => Row(r, x, plan) = Counted(x.ext)
                /\ r = "pps_output" => Row(r, x, plan) = Counted(x.per)
                /\ r = "cross_timestamp" =>
                     Row(r, x, plan) = IF x.cross \in {"unread", "unknown"} THEN "unknown"
                                       ELSE IF x.cross = "precise" THEN "pass" ELSE "warn"
    BY DEF Row
  <2>11. CASE r \in {"pps_input", "pps_output", "cross_timestamp"}
    <3>1. m.clock.ioctl \in {"denied", "runs"}
      BY <2>8, <2>11 DEF Silent, m
    <3>2. m.stamp.phc = "some"
      <4>1. SUFFICES ASSUME m.stamp.phc # "some" PROVE Row(r, g, plan) = "unknown"
        BY <2>3
      <4>2. g.ext = -1 /\ g.per = -1 /\ g.cross = "unread"
        BY <2>6, <2>7, <4>1 DEF Clocked
      <4> QED BY <2>11, <2>10, <4>2 DEF Counted
    <3>3. ~(Clocked(m) /\ m.clock.ioctl = "runs")
      <4>1. SUFFICES ASSUME Clocked(m), m.clock.ioctl = "runs"
                     PROVE  Row(r, f, plan) # "unknown"
        BY <2>3
      <4>2. f.ext \in 0 .. 1 /\ f.per \in 0 .. 1 /\ f.cross \in {"precise", "claimed", "extended"}
        <5>1. m.clock \in Clocks
          BY <2>1, Zenon DEF MachineOK
        <5> QED BY <2>5, <4>1, <5>1 DEF Clocks, Count, Cross
      <4> QED BY <2>11, <2>10, <4>2 DEF Counted
    <3>4. {"ethtool_T", "ptp", "ioctl"} \cap errors # {}
      BY <2>4, <2>5, <2>8, <3>1, <3>2, <3>3 DEF Clocked
    <3> QED BY <2>11, <3>4 DEF SourcesOf
  <2>12. CASE r \in {"ptm_endpoint", "ptm_chain", "ptm_enabled", "pcie_link"}
    <3> DEFINE looked == LookedAt(m)
               k == Len(looked)
               levels == Walked(m, m.ptm.listing)
    <3>1. /\ levels[Len(levels)] = m.ptm.listing[Len(m.ptm.path)] /\ Len(levels) = k
          /\ Chain(m) \in Seq(Nodes) /\ Len(Chain(m)) = k /\ k \in Nat /\ k >= 1
      <4>1. MachineOK(m)
        BY <2>1
      <4>2. Chain(m) \in Seq(Nodes) /\ Len(Chain(m)) = k /\ k \in Nat /\ k >= 1
        BY <4>1, ChainShape
      <4>3. /\ m.ptm.listing \in Seq(Listings) /\ Len(m.ptm.listing) = Len(m.ptm.path)
            /\ m.ptm.path \in Seq(Devices) /\ Len(m.ptm.path) >= 1
        BY <4>1, PathShape
      <4>4. Len(levels) = (IF m.ptm.walked THEN Len(m.ptm.listing) ELSE 1)
            /\ levels[Len(levels)] = m.ptm.listing[Len(m.ptm.listing)]
        BY <4>3, WalkedShape
      <4>5. k = IF m.ptm.walked THEN Len(m.ptm.path) ELSE 1
        BY <4>3, WalkedShape DEF LookedAt
      <4> QED BY <4>2, <4>3, <4>4, <4>5
    <3>2. /\ m.ptm.scan # "empty"
          /\ r = "ptm_chain" => \A i \in 1 .. k : levels[i] = "full"
          /\ r # "ptm_chain" => levels[k] = "full"
      BY <2>12, <3>1 DEF Silent, m
    <3>3. m.ptm.pci
      <4>1. SUFFICES ASSUME ~m.ptm.pci PROVE Row(r, g, plan) = "unknown"
        BY <2>3
      <4>2. g.chain = << >> /\ g.chainOk = "unknown" /\ g.degraded = "unknown"
        BY <2>6, <2>7, <4>1
      <4> QED BY <2>12, <4>2 DEF Row, Optional, Endpoint, UnknownNode
    <3>4. m.ptm.scan # "ok"
      <4>1. SUFFICES ASSUME m.ptm.scan = "ok" PROVE Row(r, f, plan) # "unknown"
        BY <2>3
      <4>2. CASE r = "ptm_chain"
        <5>1. f.chainOk \in {"yes", "no"}
          BY <2>1, <2>5, <3>2, <3>3, <4>1, <4>2, FullChain
        <5> QED BY <4>2, <5>1 DEF Row, Optional
      <4>3. CASE r \in {"ptm_endpoint", "ptm_enabled"}
        <5>1. Blocks(m)[k] = "full"
          BY <3>1, <3>2, <4>1, <4>3 DEF Blocks
        <5>2. Chain(m)[k] = Overlay(ReadNode(looked[k], "full"), looked[k],
                                    Walked(m, m.ptm.hasFile)[k])
          BY <3>1, <5>1 DEF Chain
        <5>3. Chain(m)[k].requester \in {"yes", "no"} /\ Chain(m)[k].enabled \in {"yes", "no"}
          BY <5>2 DEF Overlay, ReadNode, AsTri
        <5>4. Endpoint(f) = Chain(m)[k]
          BY <2>5, <3>1, <3>3 DEF Endpoint
        <5> QED BY <4>3, <5>3, <5>4 DEF Row, Optional
      <4>4. CASE r = "pcie_link"
        <5>1. CardListed(m)
          BY <3>1, <3>2, <4>1, <4>4 DEF CardListed
        <5>2. f.degraded \in {"yes", "no"}
          BY <2>5, <3>3, <5>1 DEF AsTri
        <5> QED BY <4>4, <5>2 DEF Row
      <4> QED BY <2>12, <4>2, <4>3, <4>4
    <3> QED BY <2>4, <2>8, <2>12, <3>2, <3>3, <3>4 DEF SourcesOf
  <2>13. CASE r = "link_speed"
    <3>1. f.speed = -1
      BY <2>3, <2>13 DEF Row, LinkSpeed
    <3>2. ~m.link.settings
      BY <2>5, <2>8, <3>1
    <3> QED BY <2>4, <2>13, <3>2 DEF SourcesOf
  <2>14. CASE r = "firmware"
    <3>1. m.firmware.answers => f.firmware = g.firmware
      <4>1. m.firmware.ids /\ m.firmware.revision
        BY <2>14 DEF Silent, m
      <4>2. DeviceNote(m) = DeviceNote(t)
        BY <2>6, <4>1 DEF DeviceNote
      <4> QED BY <2>5, <2>6, <2>7, <4>1, <4>2 DEF FirmwareVerdict
    <3>2. f.firmware = g.firmware => Row(r, f, plan) = Row(r, g, plan)
      BY <2>14 DEF Row
    <3> QED BY <2>3, <2>4, <2>14, <3>1, <3>2 DEF SourcesOf
  <2>15. CASE r = "numa"
    <3>1. f.numa = g.numa
      BY <2>5, <2>6, <2>7
    <3> QED BY <2>3, <2>15, <3>1 DEF Row
  <2> QED BY <2>9, <2>11, <2>12, <2>13, <2>14, <2>15 DEF RowNames
<1> QED BY <1>1, ReportInvariant, PTL
=============================================================================
