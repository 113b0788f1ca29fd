----------------------------- MODULE StampText -----------------------------
(***************************************************************************)
(* ethtool._parse_timestamping_text: one pass over the lines of            *)
(* `ethtool -T`, with the list that is open carried from line to line.     *)
(*                                                                         *)
(* Each step is one line: what ethtool prints next (external: the headings *)
(* in any order, kernel builds differ in which they print, a list below    *)
(* its heading or behind it) and the turn of the loop that reads it.       *)
(***************************************************************************)
EXTENDS Integers

CONSTANTS
  Tokens,  \* what a list may hold
  NoList   \* no heading that the parser knows

\* Capabilities, transmit modes, receive filters.
Lists == {"caps", "tx_types", "rx_filters"}
ClockTexts == {"unread", "none", "some"}

ASSUME StampTextAssumption == NoList \notin Lists

VARIABLES
  port,    \* what ethtool knows: the clock, and the three lists
  todo,    \* what it has not printed yet
  heading, \* the heading of the lines that are being printed
  left,    \* of that list: what is not printed yet
  bucket,  \* of the parser: the list that is open
  phc,     \* of the parser: phc_index
  out      \* of the parser: the lists

stampVars == <<port, todo, heading, left, bucket, phc, out>>

StampTypeOK ==
  /\ port \in [clock : ClockTexts, lists : [Lists -> SUBSET Tokens]]
  /\ todo \subseteq Lists \cup {"clock"} /\ left \subseteq Tokens
  /\ heading \in Lists \cup {NoList} /\ bucket \in Lists \cup {NoList}
  /\ phc \in ClockTexts /\ out \in [Lists -> SUBSET Tokens]

StampInit ==
  /\ port \in [clock : ClockTexts, lists : [Lists -> SUBSET Tokens]]
  /\ todo = Lists \cup {"clock"} /\ heading = NoList /\ left = {}
  /\ bucket = NoList /\ phc = "unread" /\ out = [l \in Lists |-> {}]

\* A line that is not indented begins when the list above it is complete; the
\* parser closes what was open.
Begins(what) ==
  /\ left = {} /\ what \subseteq todo /\ todo' = todo \ what
  /\ UNCHANGED port

\* "PTP Hardware Clock:", "none" or a number; "unread" when it is neither.
Clock ==
  /\ Begins({"clock"}) /\ heading' = NoList /\ bucket' = NoList
  /\ phc' = port.clock
  /\ UNCHANGED <<left, out>>

\* A heading with "none" or the whole list behind it.
Inline(l) ==
  /\ Begins({l}) /\ heading' = NoList /\ bucket' = NoList
  /\ out' = [out EXCEPT ![l] = @ \cup port.lists[l]]
  /\ UNCHANGED <<left, phc>>

\* A heading with nothing behind it: the list follows.
Below(l) ==
  /\ Begins({l}) /\ heading' = l /\ bucket' = l
  /\ left' = port.lists[l]
  /\ UNCHANGED <<phc, out>>

\* Deviation for a mutant: only a heading that the parser knows closes a list.
Unknown_Leaks ==
  /\ Begins({}) /\ heading' = NoList
  /\ UNCHANGED <<left, bucket, phc, out>>
\* A line that the parser does not know, such as the first one; it may have
\* lines below it.
Unknown ==
  /\ Begins({}) /\ heading' = NoList /\ bucket' = NoList
  /\ UNCHANGED <<left, phc, out>>

\* An indented line: its first token goes to the list that is open.
Token(t) ==
  /\ IF heading = NoList THEN UNCHANGED left ELSE t \in left /\ left' = left \ {t}
  /\ out' = IF bucket = NoList THEN out ELSE [out EXCEPT ![bucket] = @ \cup {t}]
  /\ UNCHANGED <<port, todo, heading, bucket, phc>>

StampNext ==
  \/ Clock \/ Unknown
  \/ \E l \in Lists : Inline(l) \/ Below(l)
  \/ \E t \in Tokens : Token(t)

StampSpec == StampInit /\ [][StampNext]_stampVars

\* ethtool.py:184-245: a list that was printed is what the port has, in whatever
\* form and after whatever lines it was printed, and so is the clock; what was
\* not printed is empty, or unknown.
StampListsApart ==
  /\ \A l \in Lists :
       out[l] = IF l \in todo THEN {} ELSE IF l = heading THEN port.lists[l] \ left ELSE port.lists[l]
  /\ phc = IF "clock" \in todo THEN "unread" ELSE port.clock
=============================================================================
