---------------------------- MODULE ParserProof ----------------------------
(***************************************************************************)
(* Proofs about the two line parsers, modules Lspci and StampText.         *)
(*                                                                         *)
(* Lspci: the records that parse() holds are, at every moment, a function  *)
(* of what was printed (RecordOf).  That needs the context to be right     *)
(* between the lines: the device that is open is the one being printed,    *)
(* and in_ptm is set exactly below the heading of the PTM capability.      *)
(*                                                                         *)
(* StampText: the open list is the one whose heading is being printed.     *)
(***************************************************************************)
EXTENDS Lspci, StampText, TLAPS

-----------------------------------------------------------------------------
(* Lspci: the invariant                                                    *)

\* The record of a device c of which the kinds of lines s were printed.
ToldNode(c, s) ==
  [present |-> IF "precision" \in s THEN "yes" ELSE "unknown",
   requester |-> IF "PTMCap" \in s THEN AsTri(c.dev.requester) ELSE "unknown",
   responder |-> IF "PTMCap" \in s THEN AsTri(c.dev.responder) ELSE "unknown",
   root |-> IF "PTMCap" \in s THEN AsTri(c.dev.root) ELSE "unknown",
   enabled |-> IF "PTMControl" \in s THEN AsTri(c.dev.enabled) ELSE "unknown"]
ToldNumbers(c, s) == [k \in NumberKinds |-> IF k \in s THEN c.numbers[k] ELSE NoReading]
ToldMarks(s) ==
  {"listed"} \cup (IF "precision" \in s THEN {"block"} ELSE {})
             \cup (IF "denied" \in s THEN {"denied"} ELSE {})
RecordOf(c, s) == [marks |-> ToldMarks(s), node |-> ToldNode(c, s), numbers |-> ToldNumbers(c, s)]

\* What parse() holds of the device a.
RecordAt(a) ==
  IF a \notin begun THEN NoRecord
  ELSE RecordOf(hardware[a], IF a = open THEN said ELSE Due(hardware[a]))
RecordsTold == devices = [a \in Addresses |-> RecordAt(a)]

\* The context that parse() carries is that of the line being printed.
ContextRight ==
  /\ \A a \in begun : hardware[a].listing # "missing"
  /\ open # None => open \in begun /\ current = open /\ section # "message"
  /\ open # None => \A kind \in said : Prints(hardware[open], kind)
  /\ open = None => said = {}
  /\ section = "message" => current = None
  /\ inPtm <=> section = "ptm"
  /\ section = "ptm" => "precision" \in said

LspciInv == LspciTypeOK /\ ContextRight /\ RecordsTold

-----------------------------------------------------------------------------
(* Lspci: what a line does to a record                                     *)

\* A device is a case; what it prints are lines of the known kinds.
LEMMA CaseShape ==
  ASSUME NEW c \in Cases
  PROVE /\ c.dev \in Devices /\ c.listing \in Listings /\ c.numbers \in Numbers
        /\ Due(c) \subseteq Kinds
        /\ \A kind \in Due(c) : Prints(c, kind)
BY LspciAssumption DEF Due

LEMMA RecordShape ==
  ASSUME NEW c \in Cases, NEW s
  PROVE RecordOf(c, s) \in Records
<1>1. c.numbers \in Numbers /\ c.dev \in Devices
  BY CaseShape
<1>2. ToldNumbers(c, s) \in Numbers
  BY <1>1 DEF Numbers, ToldNumbers
<1>3. ToldNode(c, s) \in Nodes
  BY <1>1 DEF ToldNode, Nodes, Tri, AsTri, Devices
<1>4. "block" \in ToldMarks(s) <=> ToldNode(c, s).present = "yes"
  BY DEF ToldNode, ToldMarks
<1>5. ToldMarks(s) \subseteq Marks
  BY DEF ToldMarks, Marks
<1> QED
  BY <1>2, <1>3, <1>4, <1>5 DEF RecordOf, Records

LEMMA NoRecordShape == NoRecord \in Records
BY DEF NoRecord, Records, Nodes, UnknownNode, Tri, Numbers, NoNumbers

\* Kinds without a reading may be printed or not: the record is the same.
LEMMA RecordComplete ==
  ASSUME NEW c \in Cases, NEW s, \A kind \in s : Prints(c, kind), s \subseteq Kinds,
         Due(c) \subseteq s
  PROVE RecordOf(c, s) = RecordOf(c, Due(c))
<1>1. \A kind \in {"precision", "denied", "PTMCap", "PTMControl"} :
        kind \in s <=> kind \in Due(c)
  BY DEF Due, NumberKinds, Kinds
<1>2. \A k \in NumberKinds :
        (IF k \in s THEN c.numbers[k] ELSE NoReading)
          = IF k \in Due(c) THEN c.numbers[k] ELSE NoReading
  BY DEF Due, NumberKinds, Kinds
<1>3. ToldNumbers(c, s) = ToldNumbers(c, Due(c))
  BY <1>2 DEF ToldNumbers
<1>4. ToldNode(c, s) = ToldNode(c, Due(c))
  BY <1>1 DEF ToldNode
<1>5. ToldMarks(s) = ToldMarks(Due(c))
  BY <1>1 DEF ToldMarks
<1> QED
  BY <1>3, <1>4, <1>5 DEF RecordOf

\* An update of one field of a record.
LEMMA OneField ==
  ASSUME NEW m, NEW n, NEW u, NEW x, NEW r, r = [marks |-> m, node |-> n, numbers |-> u]
  PROVE /\ [r EXCEPT !.marks = x] = [marks |-> x, node |-> n, numbers |-> u]
        /\ [r EXCEPT !.node = x] = [marks |-> m, node |-> x, numbers |-> u]
        /\ [r EXCEPT !.numbers = x] = [marks |-> m, node |-> n, numbers |-> x]
        /\ r.marks = m /\ r.node = n /\ r.numbers = u
OBVIOUS

LEMMA ThreeRoles ==
  ASSUME NEW n, NEW d,
         n = [present |-> n.present, requester |-> n.requester, responder |-> n.responder,
              root |-> n.root, enabled |-> n.enabled]
  PROVE [n EXCEPT !.requester = AsTri(d.requester), !.responder = AsTri(d.responder),
                  !.root = AsTri(d.root)]
          = [present |-> n.present, requester |-> AsTri(d.requester),
             responder |-> AsTri(d.responder), root |-> AsTri(d.root), enabled |-> n.enabled]
<1> DEFINE n1 == [n EXCEPT !.requester = AsTri(d.requester)]
           n2 == [n1 EXCEPT !.responder = AsTri(d.responder)]
<1>1. n1 = [present |-> n.present, requester |-> AsTri(d.requester),
            responder |-> n.responder, root |-> n.root, enabled |-> n.enabled]
  OBVIOUS
<1>2. n2 = [present |-> n.present, requester |-> AsTri(d.requester),
            responder |-> AsTri(d.responder), root |-> n.root, enabled |-> n.enabled]
  <2> HIDE DEF n1
  <2> QED
    BY <1>1
<1>3. [n2 EXCEPT !.root = AsTri(d.root)]
        = [present |-> n.present, requester |-> AsTri(d.requester),
           responder |-> AsTri(d.responder), root |-> AsTri(d.root), enabled |-> n.enabled]
  <2> HIDE DEF n2
  <2> QED
    BY <1>2
<1> QED
  BY <1>3

LEMMA OpenedIs ==
  ASSUME NEW c, NEW s
  PROVE Opened(RecordOf(c, s))
          = [marks |-> ToldMarks(s) \cup {"block"},
             node |-> [ToldNode(c, s) EXCEPT !.present = "yes"],
             numbers |-> ToldNumbers(c, s)]
<1> DEFINE r0 == RecordOf(c, s)
           r1 == [r0 EXCEPT !.marks = r0.marks \cup {"block"}]
<1>1. Opened(r0) = [r1 EXCEPT !.node = [r1.node EXCEPT !.present = "yes"]]
  BY DEF Opened
<1>2. r0 = [marks |-> ToldMarks(s), node |-> ToldNode(c, s), numbers |-> ToldNumbers(c, s)]
  BY DEF RecordOf
<1> HIDE DEF r0
<1>3. r1 = [marks |-> ToldMarks(s) \cup {"block"}, node |-> ToldNode(c, s),
            numbers |-> ToldNumbers(c, s)]
  BY <1>2, OneField
<1> HIDE DEF r1
<1>4. Opened(r0) = [marks |-> ToldMarks(s) \cup {"block"},
                    node |-> [ToldNode(c, s) EXCEPT !.present = "yes"],
                    numbers |-> ToldNumbers(c, s)]
  BY <1>1, <1>3, OneField
<1> QED
  BY <1>4 DEF r0

\* A line of the section changes nothing once the section has begun.
LEMMA OpenedAgain ==
  ASSUME NEW c, NEW s, "precision" \in s
  PROVE Opened(RecordOf(c, s)) = RecordOf(c, s)
<1>1. [ToldNode(c, s) EXCEPT !.present = "yes"] = ToldNode(c, s)
  BY DEF ToldNode
<1>2. ToldMarks(s) \cup {"block"} = ToldMarks(s)
  BY DEF ToldMarks
<1> QED
  BY <1>1, <1>2, OpenedIs DEF RecordOf

\* The header of a device, and nothing below it yet.
LEMMA FreshRecord ==
  ASSUME NEW c
  PROVE [NoRecord EXCEPT !.marks = {"listed"}] = RecordOf(c, {})
<1>1. ToldNumbers(c, {}) = NoNumbers
  BY DEF NoNumbers, ToldNumbers
<1>2. ToldNode(c, {}) = UnknownNode
  BY DEF ToldNode, UnknownNode
<1>3. ToldMarks({}) = {"listed"}
  BY DEF ToldMarks
<1> QED
  BY <1>1, <1>2, <1>3 DEF NoRecord, RecordOf

\* One line more, one kind more in the record.
LEMMA RecordGrows ==
  ASSUME NEW c, NEW s, NEW kind \in Kinds,
         kind \in PtmKinds => "precision" \in s,
         inPtm => "precision" \in s
  PROVE Noted(IF OpensSection(kind) THEN Opened(RecordOf(c, s)) ELSE RecordOf(c, s), kind, c)
          = RecordOf(c, s \cup {kind})
<1> DEFINE r == IF OpensSection(kind) THEN Opened(RecordOf(c, s)) ELSE RecordOf(c, s)
           u == s \cup {kind}
<1>1. kind \notin {"precision", "denied"} => ToldMarks(u) = ToldMarks(s)
  BY DEF ToldMarks
<1>3. kind \notin NumberKinds => ToldNumbers(c, u) = ToldNumbers(c, s)
  BY DEF ToldNumbers
<1>4. kind \in NumberKinds \cup {"denied"} => ToldNode(c, u) = ToldNode(c, s)
  BY DEF ToldNode, NumberKinds
<1>5. CASE kind = "precision"
  <2>1. [ToldNode(c, s) EXCEPT !.present = "yes"] = ToldNode(c, u)
    BY <1>5 DEF ToldNode
  <2>2. Noted(r, kind, c) = Opened(RecordOf(c, s))
    BY <1>5 DEF Noted, OpensSection, NumberKinds
  <2>3. ToldMarks(u) = ToldMarks(s) \cup {"block"}
    BY <1>5 DEF ToldMarks
  <2>4. ToldNumbers(c, u) = ToldNumbers(c, s)
    BY <1>3, <1>5 DEF NumberKinds
  <2>5. Opened(RecordOf(c, s)) = RecordOf(c, u)
    BY <2>1, <2>3, <2>4, OpenedIs DEF RecordOf
  <2> QED
    BY <2>2, <2>5
<1>6. CASE kind # "precision"
  <2>1. r = RecordOf(c, s)
    BY <1>6, OpenedAgain DEF OpensSection
  <2>2. /\ RecordOf(c, s).node = ToldNode(c, s) /\ RecordOf(c, s).marks = ToldMarks(s)
        /\ RecordOf(c, s).numbers = ToldNumbers(c, s)
    BY DEF RecordOf
  <2>3. CASE kind \in {"PTMCap", "PTMControl"}
    <3>1. ToldNumbers(c, u) = ToldNumbers(c, s) /\ ToldMarks(u) = ToldMarks(s)
      BY <1>1, <1>3, <2>3 DEF NumberKinds
    <3>2. Noted(RecordOf(c, s), kind, c) = [RecordOf(c, s) EXCEPT !.node = ToldNode(c, u)]
      <4>1. CASE kind = "PTMCap"
        <5>1. [ToldNode(c, s) EXCEPT !.requester = AsTri(c.dev.requester),
                 !.responder = AsTri(c.dev.responder), !.root = AsTri(c.dev.root)]
                = ToldNode(c, u)
          <6> DEFINE n == ToldNode(c, s)
          <6>1. n = [present |-> n.present, requester |-> n.requester,
                     responder |-> n.responder, root |-> n.root, enabled |-> n.enabled]
            BY DEF ToldNode
          <6>2. ToldNode(c, u)
                  = [present |-> n.present, requester |-> AsTri(c.dev.requester),
                     responder |-> AsTri(c.dev.responder), root |-> AsTri(c.dev.root),
                     enabled |-> n.enabled]
            BY <4>1 DEF ToldNode
          <6> HIDE DEF n
          <6>3. [n EXCEPT !.requester = AsTri(c.dev.requester),
                   !.responder = AsTri(c.dev.responder), !.root = AsTri(c.dev.root)]
                  = ToldNode(c, u)
            BY <6>1, <6>2, ThreeRoles
          <6> QED
            BY <6>3 DEF n
        <5> QED
          BY <2>2, <4>1, <5>1 DEF Noted, NumberKinds
      <4>2. CASE kind = "PTMControl"
        <5>1. [ToldNode(c, s) EXCEPT !.enabled = AsTri(c.dev.enabled)] = ToldNode(c, u)
          BY <4>2 DEF ToldNode
        <5> QED
          BY <2>2, <4>2, <5>1 DEF Noted, NumberKinds
      <4> QED
        BY <2>3, <4>1, <4>2
    <3> QED
      BY <2>1, <3>1, <3>2, OneField DEF RecordOf
  <2>4. CASE kind = "denied"
    <3>1. ToldNumbers(c, u) = ToldNumbers(c, s)
      BY <1>3, <2>4 DEF NumberKinds
    <3>2. ToldMarks(u) = ToldMarks(s) \cup {"denied"}
      BY <2>4 DEF ToldMarks
    <3>3. Noted(RecordOf(c, s), kind, c) = [RecordOf(c, s) EXCEPT !.marks = ToldMarks(u)]
      BY <2>2, <2>4, <3>2 DEF Noted, NumberKinds
    <3> QED
      BY <1>4, <2>1, <2>4, <3>1, <3>3, OneField DEF RecordOf
  <2>5. CASE kind \in NumberKinds
    <3>1. [ToldNumbers(c, s) EXCEPT ![kind] = c.numbers[kind]] = ToldNumbers(c, u)
      BY <2>5 DEF ToldNumbers
    <3>2. ToldMarks(u) = ToldMarks(s)
      BY <1>1, <2>5 DEF NumberKinds
    <3>3. Noted(RecordOf(c, s), kind, c) = [RecordOf(c, s) EXCEPT !.numbers[kind] = c.numbers[kind]]
      BY <2>5 DEF Noted, NumberKinds
    <3> QED
      BY <1>4, <2>1, <2>5, <3>1, <3>2, <3>3 DEF RecordOf
  <2> QED
    BY <1>6, <2>3, <2>4, <2>5 DEF Kinds, PtmKinds, LinkKinds, NumberKinds
<1> QED
  BY <1>5, <1>6

\* A line that says nothing adds nothing.
LEMMA NothingNoted ==
  ASSUME NEW c, NEW s, NEW kind \in {"capability", "other"}, inPtm => "precision" \in s
  PROVE Noted(IF OpensSection(kind) THEN Opened(RecordOf(c, s)) ELSE RecordOf(c, s), kind, c)
          = RecordOf(c, s)
<1>1. (IF OpensSection(kind) THEN Opened(RecordOf(c, s)) ELSE RecordOf(c, s)) = RecordOf(c, s)
  BY OpenedAgain DEF OpensSection, PtmKinds
<1>2. \A r : Noted(r, kind, c) = r
  BY DEF Noted, NumberKinds
<1> QED
  BY <1>1, <1>2

-----------------------------------------------------------------------------
(* Lspci: every line keeps the invariant                                   *)

LEMMA LspciStarts == LspciInit => LspciInv
<1> SUFFICES ASSUME LspciInit PROVE LspciInv
    OBVIOUS
<1>1. LspciTypeOK
  BY NoRecordShape DEF LspciInit, LspciTypeOK
<1>2. ContextRight
  BY DEF LspciInit, ContextRight
<1>3. RecordsTold
  BY DEF LspciInit, RecordsTold, RecordAt
<1> QED
  BY <1>1, <1>2, <1>3 DEF LspciInv

\* The device whose block is being printed.
LEMMA OpenDevice ==
  ASSUME LspciInv, open # None
  PROVE /\ open \in Addresses /\ open \in begun /\ hardware[open] \in Cases
        /\ current = open /\ devices[open] = RecordOf(hardware[open], said)
        /\ inPtm => "precision" \in said
<1>1. open \in Addresses /\ open \in begun /\ hardware[open] \in Cases /\ current = open
  BY DEF LspciInv, LspciTypeOK, ContextRight
<1>2. RecordAt(open) = RecordOf(hardware[open], said)
  BY <1>1 DEF RecordAt
<1> QED
  BY <1>1, <1>2 DEF LspciInv, ContextRight, RecordsTold

\* A turn of the loop that leaves the record as the lines printed so far tell.
LEMMA Rewritten ==
  ASSUME LspciInv, open # None, UNCHANGED <<hardware, open, begun>>,
         devices' = [devices EXCEPT ![open] = RecordOf(hardware[open], said')]
  PROVE devices' \in [Addresses -> Records] /\ RecordsTold'
<1>1. open \in Addresses /\ open \in begun /\ hardware[open] \in Cases
  BY OpenDevice
<1>2. devices \in [Addresses -> Records]
  BY DEF LspciInv, LspciTypeOK
<1>3. RecordOf(hardware[open], said') \in Records
  BY <1>1, RecordShape
<1>4. devices' \in [Addresses -> Records]
  BY <1>1, <1>2, <1>3
<1>5. \A a \in Addresses : devices'[a] = RecordAt(a)'
  <2> TAKE a \in Addresses
  <2>1. devices[a] = RecordAt(a)
    BY DEF LspciInv, RecordsTold
  <2>2. CASE a = open
    BY <1>1, <1>2, <2>2 DEF RecordAt
  <2>3. CASE a # open
    BY <1>1, <1>2, <2>1, <2>3 DEF RecordAt
  <2> QED
    BY <2>2, <2>3
<1>6. RecordsTold'
  BY <1>4, <1>5 DEF RecordsTold
<1> QED
  BY <1>4, <1>6

LEMMA HeaderStep ==
  ASSUME LspciInv, NEW a \in Addresses, Header(a)
  PROVE LspciInv'
<1>1. /\ open = None /\ said = {} /\ said' = {} /\ a \notin begun
      /\ open' = a /\ begun' = begun \cup {a} /\ hardware' = hardware
      /\ devices' = [devices EXCEPT ![a] = RecordOf(hardware[a], {})]
  BY FreshRecord DEF Header, LspciInv, ContextRight
<1>2. hardware[a] \in Cases /\ devices \in [Addresses -> Records]
  BY DEF LspciInv, LspciTypeOK
<1>3. LspciTypeOK'
  <2>1. devices' \in [Addresses -> Records]
    BY <1>1, <1>2, RecordShape
  <2> QED
    BY <2>1 DEF Header, LspciInv, LspciTypeOK
<1>4. ContextRight'
  BY LspciAssumption DEF Header, LspciInv, LspciTypeOK, ContextRight
<1>5. \A b \in Addresses : devices'[b] = RecordAt(b)'
  <2> TAKE b \in Addresses
  <2>1. devices[b] = RecordAt(b) /\ b # None
    BY LspciAssumption DEF LspciInv, RecordsTold
  <2>2. CASE b = a
    BY <1>1, <1>2, <2>2 DEF RecordAt
  <2>3. CASE b # a
    BY <1>1, <1>2, <2>1, <2>3 DEF RecordAt
  <2> QED
    BY <2>2, <2>3
<1>6. RecordsTold'
  BY <1>3, <1>5 DEF RecordsTold, LspciTypeOK
<1> QED
  BY <1>3, <1>4, <1>6 DEF LspciInv

LEMMA MessageStep ==
  ASSUME LspciInv, Message
  PROVE LspciInv'
<1>1. LspciTypeOK'
  BY DEF Message, LspciInv, LspciTypeOK
<1>2. ContextRight'
  BY DEF Message, LspciInv, ContextRight
<1>3. RecordsTold'
  BY DEF Message, LspciInv, RecordsTold, RecordAt
<1> QED
  BY <1>1, <1>2, <1>3 DEF LspciInv

LEMMA BlankStep ==
  ASSUME LspciInv, Blank
  PROVE LspciInv'
<1>1. LspciTypeOK'
  BY DEF Blank, LspciInv, LspciTypeOK
<1>2. ContextRight'
  BY DEF Blank, LspciInv, ContextRight
<1>3. \A a \in Addresses : RecordAt(a)' = RecordAt(a)
  <2> TAKE a \in Addresses
  <2>1. a # None /\ hardware' = hardware /\ begun' = begun /\ open' = None
    BY LspciAssumption DEF Blank
  <2>2. CASE a = open
    <3>1. a \in begun /\ hardware[a] \in Cases
      BY <2>1, <2>2, OpenDevice
    <3>2. /\ \A kind \in said : Prints(hardware[a], kind)
          /\ said \subseteq Kinds /\ Due(hardware[a]) \subseteq said
      BY <2>1, <2>2 DEF Blank, LspciInv, ContextRight, LspciTypeOK
    <3>3. RecordOf(hardware[a], said) = RecordOf(hardware[a], Due(hardware[a]))
      BY <3>1, <3>2, RecordComplete
    <3> QED
      BY <2>1, <2>2, <3>1, <3>3 DEF RecordAt
  <2>3. CASE a # open
    BY <2>1, <2>3 DEF RecordAt
  <2> QED
    BY <2>2, <2>3
<1>4. RecordsTold'
  BY <1>3 DEF Blank, LspciInv, RecordsTold
<1> QED
  BY <1>1, <1>2, <1>4 DEF LspciInv

\* A line that says something, below the heading it belongs to.
LEMMA SaysStep ==
  ASSUME LspciInv, NEW kind \in Kinds, Says(kind),
         kind \in PtmKinds => section = "ptm",
         kind = "precision" => section' = "ptm",
         kind = "denied" => section' = "other",
         kind \in PtmKinds \cup LinkKinds => section' = section
  PROVE LspciInv'
<1>1. /\ open # None /\ said' = said \cup {kind} /\ Prints(hardware[open], kind)
      /\ UNCHANGED <<hardware, open, begun, current>>
  BY DEF Says, Indented
<1>2. /\ current = open /\ devices[open] = RecordOf(hardware[open], said)
      /\ open \in Addresses /\ open \in begun
      /\ inPtm => "precision" \in said
  BY <1>1, OpenDevice
<1>3. kind \in PtmKinds => "precision" \in said
  BY DEF LspciInv, ContextRight
<1>4. Noted(IF OpensSection(kind) THEN Opened(RecordOf(hardware[open], said))
            ELSE RecordOf(hardware[open], said), kind, hardware[open])
        = RecordOf(hardware[open], said')
  BY <1>1, <1>2, <1>3, RecordGrows
<1>5. devices' = [devices EXCEPT ![open] = RecordOf(hardware[open], said')]
  BY <1>1, <1>2, <1>4 DEF Says, Indented
<1>6. devices' \in [Addresses -> Records] /\ RecordsTold'
  BY <1>1, <1>5, Rewritten
<1>7. inPtm' = Inside(kind)
  BY <1>1, <1>2 DEF Says, Indented
<1>8. inPtm' \in BOOLEAN /\ (inPtm' <=> section' = "ptm")
  <2>1. inPtm \in BOOLEAN /\ (inPtm <=> section = "ptm")
    BY DEF LspciInv, LspciTypeOK, ContextRight
  <2>2. CASE kind \in {"precision", "denied"}
    BY <1>7, <2>2 DEF Inside
  <2>3. CASE kind \in PtmKinds \cup LinkKinds
    BY <1>7, <2>1, <2>3 DEF Inside, PtmKinds, LinkKinds
  <2> QED
    BY <2>2, <2>3 DEF Kinds
<1>9. section' \in {"none", "header", "message", "ptm", "express", "other"} \ {"message"}
      \/ section' = section
  BY DEF Kinds
<1>10. LspciTypeOK'
  BY <1>1, <1>6, <1>8, <1>9 DEF LspciInv, LspciTypeOK
<1>11. ContextRight'
  BY <1>1, <1>2, <1>3, <1>8, <1>9 DEF LspciInv, ContextRight, Kinds
<1> QED
  BY <1>6, <1>10, <1>11 DEF LspciInv

\* A line that says nothing: a heading, or a line of a section.
LEMMA QuietStep ==
  ASSUME LspciInv, open # None, NEW kind \in {"capability", "other"}, UNCHANGED said,
         Indented(kind, hardware[open]),
         kind = "capability" => section' \in {"express", "other"},
         kind = "other" => section' = section
  PROVE LspciInv'
<1>1. UNCHANGED <<hardware, open, begun, current>>
  BY DEF Indented
<1>2. /\ current = open /\ devices[open] = RecordOf(hardware[open], said)
      /\ open \in Addresses /\ open \in begun
      /\ inPtm => "precision" \in said
  BY OpenDevice
<1>3. Noted(IF OpensSection(kind) THEN Opened(RecordOf(hardware[open], said))
            ELSE RecordOf(hardware[open], said), kind, hardware[open])
        = RecordOf(hardware[open], said)
  BY <1>2, NothingNoted
<1>4. devices' = [devices EXCEPT ![open] = RecordOf(hardware[open], said')]
  BY <1>2, <1>3 DEF Indented
<1>5. devices' \in [Addresses -> Records] /\ RecordsTold'
  BY <1>1, <1>4, Rewritten
<1>6. inPtm' \in BOOLEAN /\ (inPtm' <=> section' = "ptm")
  BY <1>2 DEF Indented, Inside, LspciInv, LspciTypeOK, ContextRight
<1>7. LspciTypeOK'
  BY <1>1, <1>5, <1>6 DEF LspciInv, LspciTypeOK
<1>8. ContextRight'
  BY <1>1, <1>2, <1>6 DEF LspciInv, ContextRight
<1> QED
  BY <1>5, <1>7, <1>8 DEF LspciInv

\* A line that belongs to no header reaches no record.
LEMMA StrayStep ==
  ASSUME LspciInv, Stray
  PROVE LspciInv'
<1>1. current = None
  BY DEF Stray, LspciInv, ContextRight
<1>2. UNCHANGED lspciVars
  BY <1>1 DEF Stray, Indented, lspciVars, printed, parsed
<1> QED
  BY <1>2 DEF lspciVars, printed, parsed, LspciInv, LspciTypeOK, ContextRight, RecordsTold, RecordAt

LEMMA LspciStep == LspciInv /\ [LspciNext]_lspciVars => LspciInv'
<1> SUFFICES ASSUME LspciInv, [LspciNext]_lspciVars PROVE LspciInv'
    OBVIOUS
<1>1. CASE UNCHANGED lspciVars
  BY <1>1 DEF lspciVars, printed, parsed, LspciInv, LspciTypeOK, ContextRight, RecordsTold, RecordAt
<1>2. CASE \E a \in Addresses : Header(a)
  BY <1>2, HeaderStep
<1>3. CASE Message
  BY <1>3, MessageStep
<1>4. CASE Blank
  BY <1>4, BlankStep
<1>5. CASE Precision
  BY <1>5, SaysStep DEF Precision, Kinds, PtmKinds, LinkKinds
<1>6. CASE Denied
  BY <1>6, SaysStep DEF Denied, Kinds, PtmKinds, LinkKinds
<1>7. CASE PtmLine
  BY <1>7, SaysStep DEF PtmLine, Kinds, PtmKinds, LinkKinds
<1>8. CASE LinkLine
  BY <1>8, SaysStep DEF LinkLine, Kinds, PtmKinds, LinkKinds
<1>9. CASE Capability
  BY <1>9, QuietStep DEF Capability
<1>10. CASE Other
  BY <1>10, QuietStep DEF Other
<1>11. CASE Stray
  BY <1>11, StrayStep
<1> QED
  BY <1>1, <1>2, <1>3, <1>4, <1>5, <1>6, <1>7, <1>8, <1>9, <1>10, <1>11, Zenon DEF LspciNext

LEMMA LspciAlways == LspciSpec => []LspciInv
BY LspciStarts, LspciStep, PTL DEF LspciSpec

\* The records of parse() are well typed, and one that has a PTM section says
\* that the capability is there, for any devices and any order of their lines.
THEOREM LspciTypeCorrect == LspciSpec => []LspciTypeOK
BY LspciAlways, PTL DEF LspciInv

\* What annotate() makes of the record of a complete block.
LEMMA CompleteNode ==
  ASSUME NEW c \in Cases, c.listing # "missing"
  PROVE NodeOf(RecordOf(c, Due(c))) = ReadNode(c.dev, c.listing)
<1> DEFINE s == Due(c)
<1>1. c.dev \in Devices /\ c.listing \in Listings
  BY CaseShape
<1>2. /\ "precision" \in s <=> c.dev.ptm /\ c.listing \in {"full", "header"}
      /\ "PTMCap" \in s <=> c.dev.ptm /\ c.listing = "full"
      /\ "PTMControl" \in s <=> c.dev.ptm /\ c.listing = "full"
      /\ "denied" \in s <=> c.listing = "denied"
  BY DEF Due, Prints, Kinds, PtmKinds, LinkKinds, NumberKinds
<1>3. NodeOf(RecordOf(c, s))
        = IF "precision" \in s THEN ToldNode(c, s)
          ELSE IF "denied" \in s THEN UnknownNode
          ELSE [f \in DOMAIN UnknownNode |-> "no"]
  BY DEF NodeOf, RecordOf, ToldMarks
<1>4. CASE "precision" \in s
  <2>1. NodeOf(RecordOf(c, s)) = ToldNode(c, s)
    BY <1>3, <1>4
  <2>2. c.dev.ptm /\ "precision" \in s
    BY <1>2, <1>4
  <2>3. CASE c.listing = "full"
    <3>1. ToldNode(c, s)
            = [present |-> "yes", requester |-> AsTri(c.dev.requester),
               responder |-> AsTri(c.dev.responder), root |-> AsTri(c.dev.root),
               enabled |-> AsTri(c.dev.enabled)]
      BY <1>2, <2>2, <2>3 DEF ToldNode
    <3>2. AsTri(c.dev.ptm) = "yes"
      BY <2>2 DEF AsTri
    <3> QED
      BY <2>1, <2>3, <3>1, <3>2 DEF ReadNode
  <2>4. CASE c.listing = "header"
    <3>1. ToldNode(c, s) = [UnknownNode EXCEPT !.present = "yes"]
      BY <1>2, <2>2, <2>4 DEF ToldNode, UnknownNode
    <3> QED
      BY <2>1, <2>2, <2>4, <3>1 DEF ReadNode
  <2> QED
    BY <1>2, <1>4, <2>3, <2>4
<1>5. CASE "denied" \in s
  <2>1. c.listing = "denied" /\ "precision" \notin s
    BY <1>2, <1>5
  <2> QED
    BY <1>3, <1>5, <2>1 DEF ReadNode
<1>6. CASE "precision" \notin s /\ "denied" \notin s
  <2>1. NodeOf(RecordOf(c, s)) = [f \in DOMAIN UnknownNode |-> "no"]
    BY <1>3, <1>6
  <2>2. ~c.dev.ptm /\ (c.listing = "full" \/ c.listing = "header")
    BY <1>1, <1>2, <1>6 DEF Listings
  <2>3. ReadNode(c.dev, c.listing)
          = [present |-> "no", requester |-> "no", responder |-> "no", root |-> "no",
             enabled |-> "no"]
    BY <1>1, <2>2 DEF ReadNode, AsTri, Devices
  <2>4. [f \in DOMAIN UnknownNode |-> "no"]
          = [present |-> "no", requester |-> "no", responder |-> "no", root |-> "no",
             enabled |-> "no"]
    BY DEF UnknownNode
  <2> QED
    BY <2>1, <2>3, <2>4
<1> QED
  BY <1>4, <1>5, <1>6

LEMMA CompleteNumbers ==
  ASSUME NEW c \in Cases, NEW k \in NumberKinds
  PROVE RecordOf(c, Due(c)).numbers[k] = IF Prints(c, k) THEN c.numbers[k] ELSE NoReading
BY DEF RecordOf, ToldNumbers, Due, Kinds, NumberKinds, PtmKinds, LinkKinds

LEMMA ParsedFromInv == LspciInv => LspciParsed
<1> SUFFICES ASSUME LspciInv, NEW a \in Addresses, Printed(a)
             PROVE /\ NodeOf(devices[a]) = ReadNode(hardware[a].dev, hardware[a].listing)
                   /\ \A k \in NumberKinds :
                        devices[a].numbers[k]
                          = IF Prints(hardware[a], k) THEN hardware[a].numbers[k] ELSE NoReading
    BY DEF LspciParsed
<1>1. hardware[a] \in Cases /\ devices[a] = RecordAt(a)
  BY DEF LspciInv, LspciTypeOK, RecordsTold
<1>2. CASE a \in begun
  <2>1. devices[a] = RecordOf(hardware[a], Due(hardware[a])) /\ hardware[a].listing # "missing"
    BY <1>1, <1>2 DEF Printed, RecordAt, LspciInv, ContextRight
  <2> QED
    BY <1>1, <2>1, CompleteNode, CompleteNumbers
<1>3. CASE a \notin begun
  <2>1. hardware[a].listing = "missing" /\ devices[a] = NoRecord
    BY <1>1, <1>3 DEF Printed, RecordAt
  <2>2. NodeOf(NoRecord) = UnknownNode /\ NoRecord.numbers = NoNumbers
    BY DEF NodeOf, NoRecord
  <2>3. \A k \in NumberKinds : ~Prints(hardware[a], k)
    BY <2>1 DEF Prints, NumberKinds, LinkKinds, PtmKinds
  <2> QED
    BY <2>1, <2>2, <2>3 DEF ReadNode, NoNumbers
<1> QED
  BY <1>2, <1>3

\* For any devices, blocks in any order, lines of a block in any order and
\* messages between the blocks, what annotate() makes of the records is what was
\* printed of each device (lspci.py:55-124, 160-181).
THEOREM LspciParsedHolds == LspciSpec => []LspciParsed
BY LspciAlways, ParsedFromInv, PTL

-----------------------------------------------------------------------------
(* StampText: the invariant                                                *)

\* A list that is being printed was announced, and is the one that is open.
BucketRight ==
  /\ bucket = heading
  /\ heading # NoList => heading \notin todo /\ left \subseteq port.lists[heading]
  /\ heading = NoList => left = {}

StampInv == StampTypeOK /\ BucketRight /\ StampListsApart

LEMMA StampStarts == StampInit => StampInv
BY StampTextAssumption
   DEF StampInit, StampInv, StampTypeOK, BucketRight, StampListsApart, Lists, ClockTexts

LEMMA ClockStep ==
  ASSUME StampInv, Clock PROVE StampInv'
BY StampTextAssumption
   DEF Clock, Begins, StampInv, StampTypeOK, BucketRight, StampListsApart, Lists, ClockTexts

LEMMA UnknownStep ==
  ASSUME StampInv, Unknown PROVE StampInv'
BY StampTextAssumption
   DEF Unknown, Begins, StampInv, StampTypeOK, BucketRight, StampListsApart, Lists, ClockTexts

LEMMA InlineStep ==
  ASSUME NEW l \in Lists, StampInv, Inline(l) PROVE StampInv'
BY StampTextAssumption
   DEF Inline, Begins, StampInv, StampTypeOK, BucketRight, StampListsApart, Lists, ClockTexts

LEMMA BelowStep ==
  ASSUME NEW l \in Lists, StampInv, Below(l) PROVE StampInv'
BY StampTextAssumption
   DEF Below, Begins, StampInv, StampTypeOK, BucketRight, StampListsApart, Lists, ClockTexts

LEMMA TokenStep ==
  ASSUME NEW t \in Tokens, StampInv, Token(t) PROVE StampInv'
<1>1. /\ StampTypeOK /\ BucketRight /\ StampListsApart
      /\ UNCHANGED <<port, todo, heading, bucket, phc>> /\ bucket = heading
  BY DEF Token, StampInv, BucketRight
<1>2. CASE heading = NoList
  <2>1. left' = left /\ out' = out
    BY <1>1, <1>2 DEF Token
  <2> QED BY <1>1, <2>1 DEF StampInv, StampTypeOK, BucketRight, StampListsApart
<1>3. CASE heading # NoList
  <2>1. /\ t \in left /\ left' = left \ {t}
        /\ out' = [out EXCEPT ![heading] = out[heading] \cup {t}]
    BY <1>1, <1>3 DEF Token
  <2>2. heading \in Lists /\ heading \notin todo /\ left \subseteq port.lists[heading]
    BY <1>1, <1>3, StampTextAssumption DEF StampTypeOK, BucketRight
  <2>3. StampTypeOK'
    BY <1>1, <2>1, <2>2 DEF StampTypeOK
  <2>4. BucketRight'
    BY <1>1, <1>3, <2>1, <2>2 DEF BucketRight
  <2>5. StampListsApart'
    <3>1. \A l \in Lists : out'[l] = IF l = heading THEN out[l] \cup {t} ELSE out[l]
      BY <1>1, <2>1, <2>2 DEF StampTypeOK
    <3>2. out[heading] \cup {t} = port.lists[heading] \ left'
      BY <1>1, <2>1, <2>2 DEF StampListsApart
    <3> QED BY <1>1, <2>2, <3>1, <3>2 DEF StampListsApart
  <2> QED BY <2>3, <2>4, <2>5 DEF StampInv
<1> QED BY <1>2, <1>3

LEMMA StampStep == StampInv /\ [StampNext]_stampVars => StampInv'
<1> SUFFICES ASSUME StampInv, [StampNext]_stampVars PROVE StampInv'
    OBVIOUS
<1>1. CASE UNCHANGED stampVars
  BY <1>1 DEF stampVars, StampInv, StampTypeOK, BucketRight, StampListsApart
<1>2. CASE StampNext
  BY <1>2, ClockStep, UnknownStep, InlineStep, BelowStep, TokenStep, Zenon DEF StampNext
<1> QED
  BY <1>1, <1>2

LEMMA StampAlways == StampSpec => []StampInv
BY StampStarts, StampStep, PTL DEF StampSpec

\* What the parser of `ethtool -T` holds is well typed, for any tokens.
THEOREM StampTypeCorrect == StampSpec => []StampTypeOK
BY StampAlways, PTL DEF StampInv

\* Whatever the headings, their order and their form, every list gets its own
\* tokens and the clock is the one of the port (ethtool.py:184-245).
THEOREM StampListsApartHolds == StampSpec => []StampListsApart
BY StampAlways, PTL DEF StampInv
=============================================================================
