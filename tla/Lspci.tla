------------------------------- MODULE Lspci -------------------------------
(***************************************************************************)
(* lspci.parse: one pass over the lines of `lspci -D -vvv`, with the       *)
(* device that is open and whether its PTM capability is open carried from *)
(* line to line.                                                           *)
(*                                                                         *)
(* Each step is one line: what lspci prints next (external: blocks in any  *)
(* order, the capabilities of a block in any order, messages between       *)
(* blocks) and the turn of the loop that reads it.  A line is a kind; what *)
(* it says is what the device whose block is being printed has.            *)
(***************************************************************************)
EXTENDS PtmChain

CONSTANTS
  Addresses,  \* the devices of the machine
  None,       \* no device
  Readings,   \* numbers: a granularity, a speed with its width
  NoReading,  \* no number
  Cases       \* what a device is and how much of it is printed

\* The kinds of indented lines that say something.
PtmKinds == {"PTMCap", "PTMControl", "granularity"}
LinkKinds == {"LnkCap", "LnkSta"}
NumberKinds == {"granularity", "LnkCap", "LnkSta"}
Kinds == PtmKinds \cup LinkKinds \cup {"precision", "denied"}

Numbers == [NumberKinds -> Readings \cup {NoReading}]
NoNumbers == [k \in NumberKinds |-> NoReading]

ASSUME LspciAssumption ==
  /\ None \notin Addresses /\ NoReading \notin Readings
  /\ Cases \subseteq [dev : Devices, listing : Listings, numbers : Numbers]

VARIABLES
  hardware,  \* what each device is
  open,      \* the device whose block is being printed
  begun,     \* the devices whose header was printed
  said,      \* of the open block: the kinds of lines printed
  section,   \* of the open block: the heading of the capability; or a message
  devices,   \* of parse(): the records
  current,   \* of parse(): the device that is open
  inPtm      \* of parse(): in_ptm

printed == <<hardware, open, begun, said, section>>
parsed == <<devices, current, inPtm>>
lspciVars == <<printed, parsed>>

\* A device has a record; it has a PTM section; its access_denied is set.
Marks == {"listed", "block", "denied"}
NoRecord == [marks |-> {}, node |-> UnknownNode, numbers |-> NoNumbers]

\* A section, once begun, says that the capability is there.
Records ==
  {r \in [marks : SUBSET Marks, node : Nodes, numbers : Numbers] :
     "block" \in r.marks <=> r.node.present = "yes"}

LspciTypeOK ==
  /\ hardware \in [Addresses -> Cases]
  /\ open \in Addresses \cup {None} /\ begun \subseteq Addresses /\ said \subseteq Kinds
  /\ section \in {"none", "header", "message", "ptm", "express", "other"}
  /\ devices \in [Addresses -> Records]
  /\ current \in Addresses \cup {None} /\ inPtm \in BOOLEAN

LspciInit ==
  /\ hardware \in [Addresses -> Cases]
  /\ open = None /\ begun = {} /\ said = {} /\ section = "none"
  /\ devices = [a \in Addresses |-> NoRecord] /\ current = None /\ inPtm = FALSE

\* External: the lines that a block holds.  A number that is not known is not
\* printed, or as something that the expressions do not match.
Prints(c, kind) ==
  \/ kind = "denied" /\ c.listing = "denied"
  \/ kind \in LinkKinds /\ c.listing \in {"full", "header"}
  \/ kind = "precision" /\ c.dev.ptm /\ c.listing \in {"full", "header"}
  \/ kind \in PtmKinds /\ c.dev.ptm /\ c.listing = "full"
Due(c) ==
  {kind \in Kinds : Prints(c, kind) /\ (kind \in NumberKinds => c.numbers[kind] # NoReading)}

-----------------------------------------------------------------------------
(* Lines that are not indented                                             *)

\* The header of a device begins a new record.
Header(a) ==
  /\ open = None /\ a \notin begun /\ hardware[a].listing # "missing"
  /\ open' = a /\ begun' = begun \cup {a} /\ section' = "header"
  /\ devices' = [devices EXCEPT ![a] = [NoRecord EXCEPT !.marks = {"listed"}]]
  /\ current' = a /\ inPtm' = FALSE
  /\ UNCHANGED <<hardware, said>>

\* Deviation for a mutant: what is not a header is passed over.
Message_PassedOver ==
  /\ open = None /\ section' = "message" /\ inPtm' = FALSE
  /\ UNCHANGED <<hardware, open, begun, said, devices, current>>
\* Any other line closes the record: a message, or the header of a device whose
\* address is of another form.
Message ==
  /\ open = None /\ section' = "message"
  /\ current' = None /\ inPtm' = FALSE
  /\ UNCHANGED <<hardware, open, begun, said, devices>>

\* An empty line, between two blocks, leaves the record open.
Blank ==
  /\ open # None => Due(hardware[open]) \subseteq said
  /\ open' = None /\ said' = {} /\ section' = "none"
  /\ inPtm' = FALSE
  /\ UNCHANGED <<hardware, begun, devices, current>>

-----------------------------------------------------------------------------
(* Indented lines                                                          *)

Inside(kind) == CASE kind = "precision" -> TRUE
                  [] kind \in {"capability", "denied"} -> FALSE
                  [] OTHER -> inPtm

\* `current["ptm"] or {"present": True}`, for a line of the section.
OpensSection(kind) ==
  kind \in PtmKinds \cup {"precision"} \/ (inPtm /\ kind \notin {"capability", "denied"})
Opened(r) == [r EXCEPT !.marks = @ \cup {"block"}, !.node = [@ EXCEPT !.present = "yes"]]

\* What a line of the device c leaves in the record.
Noted(r, kind, c) ==
  CASE kind = "PTMCap" ->
         [r EXCEPT !.node = [@ EXCEPT !.requester = AsTri(c.dev.requester),
                                      !.responder = AsTri(c.dev.responder),
                                      !.root = AsTri(c.dev.root)]]
    [] kind = "PTMControl" -> [r EXCEPT !.node = [@ EXCEPT !.enabled = AsTri(c.dev.enabled)]]
    [] kind \in NumberKinds -> [r EXCEPT !.numbers[kind] = c.numbers[kind]]
    [] kind = "denied" -> [r EXCEPT !.marks = @ \cup {"denied"}]
    [] OTHER -> r

\* The turn of the loop; without a device that is open nothing happens.
Indented(kind, c) ==
  /\ inPtm' = IF current = None THEN inPtm ELSE Inside(kind)
  /\ devices' = IF current = None THEN devices
                ELSE [devices EXCEPT ![current] =
                        Noted(IF OpensSection(kind) THEN Opened(@) ELSE @, kind, c)]
  /\ UNCHANGED <<hardware, open, begun, current>>

\* A line of the open block.
Says(kind) ==
  /\ open # None /\ kind \notin said /\ Prints(hardware[open], kind)
  /\ said' = said \cup {kind} /\ Indented(kind, hardware[open])

\* "Capabilities: [...] Precision Time Measurement".
Precision == section' = "ptm" /\ Says("precision")
\* "Capabilities: <access denied>".
Denied == section' = "other" /\ Says("denied")
PtmLine == section = "ptm" /\ UNCHANGED section /\ \E kind \in PtmKinds : Says(kind)
LinkLine == section = "express" /\ UNCHANGED section /\ \E kind \in LinkKinds : Says(kind)
\* The heading of another capability.
Capability ==
  /\ open # None /\ hardware[open].listing \in {"full", "header"}
  /\ section' \in {"express", "other"} /\ UNCHANGED said
  /\ Indented("capability", hardware[open])
\* A line of the open block that says nothing.
Other == open # None /\ UNCHANGED <<said, section>> /\ Indented("other", hardware[open])
\* A line that belongs to no header, whatever it says.
Stray ==
  /\ open = None /\ section = "message" /\ UNCHANGED <<said, section>>
  /\ \E kind \in Kinds \cup {"capability", "other"}, c \in Cases : Indented(kind, c)

LspciNext ==
  \/ \E a \in Addresses : Header(a)
  \/ Message \/ Blank \/ Precision \/ Denied \/ Capability \/ PtmLine \/ LinkLine \/ Other \/ Stray

LspciSpec == LspciInit /\ [][LspciNext]_lspciVars

-----------------------------------------------------------------------------
(* What annotate() makes of a record                                       *)

NodeOf(record) ==
  IF "listed" \notin record.marks THEN UnknownNode
  ELSE IF "block" \in record.marks THEN record.node
  ELSE IF "denied" \in record.marks THEN UnknownNode
  ELSE [f \in DOMAIN UnknownNode |-> "no"]

\* The block of a device was printed, or it has none.
Printed(a) == a # open /\ (a \in begun \/ hardware[a].listing = "missing")

\* lspci.py:55-124: what annotate() makes of the records is what was printed of
\* each device, whatever was printed before and after its block: no answer, no
\* section, no number and no denial of one device reaches another one.
LspciParsed ==
  \A a \in Addresses : Printed(a) =>
    LET c == hardware[a]
    IN /\ NodeOf(devices[a]) = ReadNode(c.dev, c.listing)
       /\ \A k \in NumberKinds :
            devices[a].numbers[k] = IF Prints(c, k) THEN c.numbers[k] ELSE NoReading
=============================================================================
