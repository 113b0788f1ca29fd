----------------------------- MODULE LabelStore -----------------------------
(***************************************************************************)
(* labels.py: the label file, and the processes that load, change and save *)
(* it (the interface, and `nicscope --label`).                             *)
(*                                                                         *)
(* save() is three system calls that another process, or the end of this   *)
(* one, can come between: open(path.tmp, "w") truncates, close() flushes   *)
(* the text, os.replace() renames.  Files are inodes: a process keeps      *)
(* writing to the inode it opened, whatever its name has become.           *)
(*                                                                         *)
(* A file that is there may also fail to open or to read when a process    *)
(* starts (permissions, an I/O error, no handles left): load() takes that  *)
(* for a file without labels.                                              *)
(*                                                                         *)
(* Data: the text of a file is the entries it holds, or Torn when it is    *)
(* empty or does not parse, or Foreign when it is JSON but not an object.  *)
(***************************************************************************)
EXTENDS Naturals, FiniteSets

CONSTANTS
  Processes,   \* runs of the tool that may be up
  Keys,        \* permanent addresses
  Texts,       \* label texts that are not blank
  NoLabel,     \* the entry is absent (and a blank text)
  Inodes,      \* bound: inodes of the directory
  Torn,        \* a text that is empty or does not parse
  Foreign,     \* a text that is JSON but not an object
  Nothing,     \* there is no file
  Unread,      \* there is a file, and open() or read() failed
  Unpromised,  \* no save of this key was ever reported
  NoInode,     \* a name or a handle that refers to nothing
  Concurrent,  \* may a process start while another is up
  ReadFails,   \* may open() or read() fail on a file that is there
  FirstFile    \* what the file may hold at first: entries, Torn, Foreign, Nothing

Entries == [Keys -> Texts \cup {NoLabel}]
NoEntries == [k \in Keys |-> NoLabel]
Contents == Entries \cup {Torn, Foreign}

ASSUME LabelStoreAssumption ==
  /\ NoLabel \notin Texts /\ Unpromised \notin Texts \cup {NoLabel} /\ NoInode \notin Inodes
  /\ {Torn, Foreign} \cap Entries = {} /\ Torn # Foreign
  /\ {Nothing, Unread} \cap ({Torn, Foreign} \cup Entries) = {}
  /\ Concurrent \in BOOLEAN /\ ReadFails \in BOOLEAN
  /\ FirstFile \subseteq (Contents \cup {Nothing})

VARIABLES
  text,      \* content of each inode
  file,      \* inode named labels.json, or NoInode
  tmp,       \* inode named labels.json.tmp, or NoInode
  pc,        \* of each process
  mem,       \* of each process: Labels.entries
  fd,        \* of each process: the inode it has open for writing
  edited,    \* of each process: keys set since its last save
  promised,  \* key -> the text last reported as written, or Unpromised (history)
  blind,     \* processes that could not read the file, until their first save (history)
  voided     \* keys whose label such a save left out (history)

history == <<promised, blind, voided>>
vars == <<text, file, tmp, pc, mem, fd, edited, promised, blind, voided>>

PCs == {"down", "ready", "writing", "closed", "raised"}

TypeOK ==
  /\ text \in [Inodes -> Contents]
  /\ file \in Inodes \cup {NoInode} /\ tmp \in Inodes \cup {NoInode}
  /\ pc \in [Processes -> PCs]
  /\ mem \in [Processes -> Entries]
  /\ fd \in [Processes -> Inodes \cup {NoInode}]
  /\ edited \in [Processes -> SUBSET Keys]
  /\ promised \in [Keys -> Texts \cup {NoLabel, Unpromised}]
  /\ blind \subseteq Processes /\ voided \subseteq Keys

Init ==
  /\ \E first \in FirstFile, i \in Inodes :
       /\ file = IF first = Nothing THEN NoInode ELSE i
       /\ text = [j \in Inodes |-> IF j = i /\ first # Nothing THEN first ELSE Torn]
  /\ tmp = NoInode
  /\ pc = [p \in Processes |-> "down"]
  /\ mem = [p \in Processes |-> NoEntries]
  /\ fd = [p \in Processes |-> NoInode]
  /\ edited = [p \in Processes |-> {}]
  /\ promised = [k \in Keys |-> Unpromised]
  /\ blind = {} /\ voided = {}

-----------------------------------------------------------------------------
(* Labels                                                                  *)

Up(p) == pc[p] \notin {"down", "raised"}
FileText == IF file = NoInode THEN Nothing ELSE text[file]

\* Deviation for a mutant: a text that does not parse is kept.
Parsed_Raw(t) == t
\* What load() makes of the text: a missing file, one that cannot be read and one
\* that does not parse all count as no labels (OSError, ValueError).
Parsed(t) == IF t \in {Nothing, Unread, Torn} THEN NoEntries ELSE t

\* Deviation for a mutant: the process does not read what is stored.
Load_Nothing(p) ==
  /\ pc[p] = "down" /\ (Concurrent \/ \A q \in Processes : ~Up(q))
  /\ pc' = [pc EXCEPT ![p] = "ready"]
  /\ UNCHANGED <<text, file, tmp, mem, fd, edited, history>>
\* What a process gets that opens and reads the file.
Outcomes == {FileText} \cup (IF ReadFails /\ file # NoInode THEN {Unread} ELSE {})
\* Labels.load(): a new process.  raw.get() raises on JSON that is no object.
Load(p) ==
  /\ pc[p] = "down"
  /\ Concurrent \/ \A q \in Processes : ~Up(q)
  /\ \E got \in Outcomes :
       /\ IF got = Foreign
            THEN pc' = [pc EXCEPT ![p] = "raised"] /\ UNCHANGED mem
            ELSE /\ pc' = [pc EXCEPT ![p] = "ready"]
                 /\ mem' = [mem EXCEPT ![p] = Parsed(got)]
       /\ blind' = IF got = Unread THEN blind \cup {p} ELSE blind
  /\ UNCHANGED <<text, file, tmp, fd, edited, promised, voided>>

\* set(): a blank text removes the entry.  `--label` may set several ports
\* before it saves.
Set(p) ==
  /\ pc[p] = "ready"
  /\ \E k \in Keys, label \in Texts \cup {NoLabel} :
       /\ mem' = [mem EXCEPT ![p][k] = label]
       /\ edited' = [edited EXCEPT ![p] = @ \cup {k}]
  /\ UNCHANGED <<text, file, tmp, pc, fd, history>>

\* Deviation for a mutant: the text is written to the file itself.
SaveOpen_InPlace(p) ==
  /\ pc[p] = "ready" /\ edited[p] # {} /\ file # NoInode
  /\ fd' = [fd EXCEPT ![p] = file] /\ tmp' = file /\ text' = [text EXCEPT ![file] = Torn]
  /\ pc' = [pc EXCEPT ![p] = "writing"]
  /\ UNCHANGED <<file, mem, edited, history>>
\* open(temporary, "w"): truncates the file of that name, or makes one.
SaveOpen(p) ==
  /\ pc[p] = "ready" /\ edited[p] # {}
  /\ \E i \in Inodes :
       /\ IF tmp # NoInode THEN i = tmp
          ELSE i # file /\ \A q \in Processes : fd[q] # i
       /\ tmp' = i
       /\ text' = [text EXCEPT ![i] = Torn]
       /\ fd' = [fd EXCEPT ![p] = i]
  /\ pc' = [pc EXCEPT ![p] = "writing"]
  /\ UNCHANGED <<file, mem, edited, history>>

\* json.dump and the end of the `with` block.  Over the text of another writer
\* the longer of the two leaves its tail, and the result does not parse.
SaveClose(p) ==
  /\ pc[p] = "writing"
  /\ \E t \in {mem[p]} \cup (IF text[fd[p]] = Torn THEN {} ELSE {Torn}) :
       text' = [text EXCEPT ![fd[p]] = t]
  /\ fd' = [fd EXCEPT ![p] = NoInode]
  /\ pc' = [pc EXCEPT ![p] = "closed"]
  /\ UNCHANGED <<file, tmp, mem, edited, history>>

\* Deviation for a mutant: the rename comes before the text is out.
SaveReplace_Early(p) ==
  /\ pc[p] \in {"writing", "closed"} /\ tmp # NoInode
  /\ file' = tmp /\ tmp' = NoInode /\ pc' = [pc EXCEPT ![p] = "ready"]
  /\ edited' = [edited EXCEPT ![p] = {}] /\ fd' = [fd EXCEPT ![p] = NoInode]
  /\ UNCHANGED <<text, mem, history>>
\* os.replace(); the tool then reports the label as written.  It raises when
\* another process has renamed the temporary file away.
SaveReplace(p) ==
  /\ pc[p] = "closed"
  /\ IF tmp = NoInode
       THEN /\ pc' = [pc EXCEPT ![p] = "raised"]
            /\ UNCHANGED <<file, tmp, edited, history>>
       ELSE /\ file' = tmp /\ tmp' = NoInode
            /\ pc' = [pc EXCEPT ![p] = "ready"]
            /\ promised' = [k \in Keys |-> IF k \in edited[p] THEN mem[p][k] ELSE promised[k]]
            /\ voided' = IF p \in blind THEN Keys \ edited[p] ELSE voided \ edited[p]
            /\ blind' = blind \ {p}
            /\ edited' = [edited EXCEPT ![p] = {}]
  /\ UNCHANGED <<text, mem, fd>>

\* The process ends: q, a bad --label pair before the save, a signal or a kill
\* at any point.  Text that was not flushed is lost.
Exit(p) ==
  /\ pc[p] # "down"
  /\ pc' = [pc EXCEPT ![p] = "down"]
  /\ mem' = [mem EXCEPT ![p] = NoEntries]
  /\ fd' = [fd EXCEPT ![p] = NoInode]
  /\ edited' = [edited EXCEPT ![p] = {}]
  /\ blind' = blind \ {p}
  /\ UNCHANGED <<text, file, tmp, promised, voided>>

Next ==
  \E p \in Processes :
    Load(p) \/ Set(p) \/ SaveOpen(p) \/ SaveClose(p) \/ SaveReplace(p) \/ Exit(p)

Spec == Init /\ [][Next]_vars

-----------------------------------------------------------------------------
(* Properties                                                              *)

\* labels.py:53-57: whatever step a process dies at, a later one finds a label
\* file that parses (or none), never a truncated one.
NeverTorn == FileText # Torn

\* What a process that starts now would find.  A file of another shape stores
\* nothing: load() raises on it.
Stored == IF FileText = Foreign THEN NoEntries ELSE Parsed(FileText)

\* labels.py:1, "kept between runs": a label that was reported as written is in
\* the file until the same port is labelled again.  The one way to lose it is a
\* process that could not read the file when it began and saved all the same.
Kept ==
  \A k \in Keys \ voided : promised[k] # Unpromised => Stored[k] = promised[k]

\* The store implements the atomic one: what is stored is what the file parses
\* to, only the rename changes it, and a process begins with it or with nothing.
Atomic == INSTANCE AtomicLabels WITH stored <- Stored, up <- {p \in Processes : pc[p] # "down"}
ImplementsAtomic == Atomic!Spec
=============================================================================
