----------------------------- MODULE LabelProof -----------------------------
(***************************************************************************)
(* What holds of the label store for any number of processes, ports, texts *)
(* and inodes, while at most one process is up at a time: the file never   *)
(* holds a torn text, a label that was reported stays, and the three       *)
(* system calls of a save are together one atomic replacement.             *)
(***************************************************************************)
EXTENDS LabelStore, TLAPS

\* Processes take turns.
Alone == \A p, q \in Processes : Up(p) /\ Up(q) => p = q

\* The name labels.json never stands for the file that is being written, and
\* never for a torn one.
Apart == file # NoInode => file # tmp /\ text[file] # Torn

\* How far a save is.
Saving ==
  \A p \in Processes :
    /\ pc[p] = "writing" => fd[p] = tmp /\ tmp # NoInode /\ text[tmp] = Torn
    /\ pc[p] = "closed" => tmp # NoInode /\ text[tmp] = mem[p]
    /\ ~Up(p) => mem[p] = NoEntries

\* A file of another shape lets no process that reads it past load(), and stays
\* until one saves that could not read it.
Unloadable ==
  FileText = Foreign => /\ \A p \in Processes : Up(p) => p \in blind
                        /\ \A k \in Keys : promised[k] = Unpromised

\* The process that is up holds what was promised of the ports it did not edit,
\* if it could read the file when it began.
Holds ==
  \A p \in Processes \ blind : Up(p) =>
    \A k \in Keys \ (edited[p] \cup voided) :
      promised[k] # Unpromised => mem[p][k] = promised[k]

StoreInv == TypeOK /\ Alone /\ Apart /\ Saving /\ Unloadable /\ Holds /\ Kept

-----------------------------------------------------------------------------

USE LabelStoreAssumption

LEMMA NoEntriesIsEntries == NoEntries \in Entries
BY DEF NoEntries, Entries

LEMMA ParsedIsEntries ==
  ASSUME TypeOK, NEW got \in Outcomes, got # Foreign
  PROVE  Parsed(got) \in Entries
BY NoEntriesIsEntries DEF TypeOK, Parsed, Outcomes, FileText, Contents

LEMMA TypeInit == Init => TypeOK
<1> SUFFICES ASSUME Init PROVE TypeOK
    OBVIOUS
<1>1. PICK first \in FirstFile, i \in Inodes :
        /\ file = IF first = Nothing THEN NoInode ELSE i
        /\ text = [j \in Inodes |-> IF j = i /\ first # Nothing THEN first ELSE Torn]
  BY DEF Init
<1>2. text \in [Inodes -> Contents]
  BY <1>1 DEF Contents
<1> QED BY <1>1, <1>2, NoEntriesIsEntries DEF Init, TypeOK, PCs

\* Any step of any process, alone or not, keeps the types.
LEMMA TypeStep == TypeOK /\ [Next]_vars => TypeOK'
<1> SUFFICES ASSUME TypeOK, [Next]_vars PROVE TypeOK'
    OBVIOUS
<1>1. CASE UNCHANGED vars
  BY <1>1 DEF TypeOK, vars
<1>2. ASSUME NEW p \in Processes, Load(p) PROVE TypeOK'
  <2> PICK got \in Outcomes :
        /\ IF got = Foreign
             THEN pc' = [pc EXCEPT ![p] = "raised"] /\ UNCHANGED mem
             ELSE pc' = [pc EXCEPT ![p] = "ready"] /\ mem' = [mem EXCEPT ![p] = Parsed(got)]
        /\ blind' = IF got = Unread THEN blind \cup {p} ELSE blind
    BY <1>2 DEF Load
  <2>1. CASE got = Foreign
    BY <1>2, <2>1 DEF Load, TypeOK, PCs
  <2>2. CASE got # Foreign
    BY <1>2, <2>2, ParsedIsEntries DEF Load, TypeOK, PCs
  <2> QED BY <2>1, <2>2
<1>3. ASSUME NEW p \in Processes, Set(p) PROVE TypeOK'
  <2>1. PICK k \in Keys, label \in Texts \cup {NoLabel} :
          /\ mem' = [mem EXCEPT ![p][k] = label]
          /\ edited' = [edited EXCEPT ![p] = @ \cup {k}]
    BY <1>3 DEF Set
  <2>2. mem' \in [Processes -> Entries]
    BY <2>1 DEF TypeOK, Entries
  <2>3. edited' \in [Processes -> SUBSET Keys]
    BY <2>1 DEF TypeOK
  <2> QED BY <1>3, <2>2, <2>3 DEF Set, TypeOK, history
<1>4. ASSUME NEW p \in Processes, SaveOpen(p) PROVE TypeOK'
  BY <1>4 DEF SaveOpen, TypeOK, PCs, Contents, history
<1>5. ASSUME NEW p \in Processes, SaveClose(p) PROVE TypeOK'
  BY <1>5 DEF SaveClose, TypeOK, PCs, Contents, history
<1>6. ASSUME NEW p \in Processes, SaveReplace(p) PROVE TypeOK'
  <2>1. promised' \in [Keys -> Texts \cup {NoLabel, Unpromised}]
    BY <1>6 DEF SaveReplace, TypeOK, Entries, history
  <2>2. pc' \in [Processes -> PCs] /\ edited' \in [Processes -> SUBSET Keys]
    BY <1>6 DEF SaveReplace, TypeOK, PCs, history
  <2>3. blind' \subseteq Processes /\ voided' \subseteq Keys
    BY <1>6 DEF SaveReplace, TypeOK, history
  <2> QED BY <1>6, <2>1, <2>2, <2>3 DEF SaveReplace, TypeOK
<1>7. ASSUME NEW p \in Processes, Exit(p) PROVE TypeOK'
  BY <1>7, NoEntriesIsEntries DEF Exit, TypeOK, PCs
<1> QED BY <1>1, <1>2, <1>3, <1>4, <1>5, <1>6, <1>7 DEF Next

\* labels.py, whatever processes run at once and wherever they die: every
\* variable keeps its type.
THEOREM LabelTypeCorrect == Spec => []TypeOK
BY TypeInit, TypeStep, PTL DEF Spec

-----------------------------------------------------------------------------
(* One process at a time                                                   *)

LEMMA StoreInit ==
  ASSUME Torn \notin FirstFile
  PROVE  Init => StoreInv
<1> SUFFICES ASSUME Init PROVE StoreInv
    OBVIOUS
<1>1. PICK first \in FirstFile, i \in Inodes :
        /\ file = IF first = Nothing THEN NoInode ELSE i
        /\ text = [j \in Inodes |-> IF j = i /\ first # Nothing THEN first ELSE Torn]
  BY DEF Init
<1>2. \A p \in Processes : pc[p] = "down" /\ mem[p] = NoEntries
  BY DEF Init
<1>3. \A k \in Keys : promised[k] = Unpromised
  BY DEF Init
<1>4. Alone /\ Saving /\ Unloadable /\ Holds /\ Kept
  BY <1>2, <1>3 DEF Alone, Saving, Unloadable, Holds, Kept, Up
<1>5. Apart
  BY <1>1 DEF Init, Apart
<1> QED BY <1>4, <1>5, TypeInit DEF StoreInv

LEMMA LoadStep ==
  ASSUME ~Concurrent, StoreInv, TypeOK', NEW p \in Processes, Load(p)
  PROVE  StoreInv'
<1>1. TypeOK /\ ~Up(p) /\ \A q \in Processes : ~Up(q)
  BY DEF StoreInv, Load, Up
<1>2. UNCHANGED <<text, file, tmp, fd, edited, promised, voided>> /\ FileText' = FileText
  BY DEF Load, FileText
<1>3. Apart' /\ Kept'
  BY <1>2 DEF StoreInv, Apart, Kept, Stored, FileText
<1>4. PICK got \in Outcomes :
        /\ IF got = Foreign
             THEN pc' = [pc EXCEPT ![p] = "raised"] /\ UNCHANGED mem
             ELSE pc' = [pc EXCEPT ![p] = "ready"] /\ mem' = [mem EXCEPT ![p] = Parsed(got)]
        /\ blind' = IF got = Unread THEN blind \cup {p} ELSE blind
  BY DEF Load
<1>5. CASE got = Foreign
  <2>1. mem' = mem /\ pc' = [pc EXCEPT ![p] = "raised"] /\ blind' = blind
    BY <1>4, <1>5
  <2>2. \A q \in Processes : ~Up(q)' /\ pc'[q] \notin {"writing", "closed"}
    BY <1>1, <2>1 DEF Up, TypeOK
  <2>3. Alone' /\ Holds' /\ Unloadable'
    BY <1>2, <2>2 DEF StoreInv, Alone, Holds, Unloadable
  <2>4. Saving'
    BY <1>1, <2>1, <2>2 DEF StoreInv, Saving
  <2> QED BY <1>3, <2>3, <2>4 DEF StoreInv
<1>6. CASE got # Foreign
  <2>1. pc' = [pc EXCEPT ![p] = "ready"] /\ mem' = [mem EXCEPT ![p] = Parsed(got)]
    BY <1>4, <1>6
  <2>2. \A q \in Processes : q # p => ~Up(q)' /\ mem'[q] = mem[q]
    BY <1>1, <2>1 DEF Up, TypeOK
  <2>3. mem'[p] = Parsed(got) /\ pc'[p] = "ready"
    BY <1>1, <2>1 DEF TypeOK
  <2>4. p \in blind' \/ got = FileText
    BY <1>4 DEF Outcomes
  <2>5. Alone' /\ Unloadable'
    BY <1>2, <1>6, <2>2, <2>4 DEF StoreInv, Alone, Unloadable
  <2>6. Saving'
    BY <1>1, <2>2, <2>3 DEF StoreInv, Saving, Up
  <2>7. Holds'
    <3>1. CASE got = FileText
      <4>1. mem'[p] = Stored
        BY <1>6, <2>3, <3>1 DEF Stored
      <4> QED BY <1>2, <2>2, <4>1 DEF StoreInv, Holds, Kept
    <3>2. CASE p \in blind'
      BY <2>2, <3>2 DEF Holds
    <3> QED BY <2>4, <3>1, <3>2
  <2> QED BY <1>3, <2>5, <2>6, <2>7 DEF StoreInv
<1> QED BY <1>5, <1>6

LEMMA SetStep ==
  ASSUME StoreInv, TypeOK', NEW p \in Processes, Set(p)
  PROVE  StoreInv'
<1>1. PICK k \in Keys, label \in Texts \cup {NoLabel} :
        /\ mem' = [mem EXCEPT ![p][k] = label]
        /\ edited' = [edited EXCEPT ![p] = @ \cup {k}]
  BY DEF Set
<1>2. /\ TypeOK /\ pc[p] = "ready"
      /\ UNCHANGED <<text, file, tmp, pc, fd, promised, blind, voided>> /\ FileText' = FileText
  BY DEF StoreInv, Set, FileText, history
<1>3. \A q \in Processes : q # p => mem'[q] = mem[q] /\ edited'[q] = edited[q]
  BY <1>1, <1>2 DEF TypeOK
<1>4. edited'[p] = edited[p] \cup {k} /\ \A j \in Keys \ {k} : mem'[p][j] = mem[p][j]
  BY <1>1, <1>2 DEF TypeOK, Entries
<1>5. Alone' /\ Apart' /\ Kept' /\ Unloadable'
  BY <1>2 DEF StoreInv, Alone, Apart, Kept, Unloadable, Up, Stored, FileText
<1>6. Saving'
  BY <1>2, <1>3 DEF StoreInv, Saving, Up
<1>7. Holds'
  BY <1>2, <1>3, <1>4 DEF StoreInv, Holds, Up
<1> QED BY <1>5, <1>6, <1>7 DEF StoreInv

LEMMA SaveOpenStep ==
  ASSUME StoreInv, TypeOK', NEW p \in Processes, SaveOpen(p)
  PROVE  StoreInv' /\ FileText' = FileText
<1>1. PICK i \in Inodes :
        /\ IF tmp # NoInode THEN i = tmp ELSE i # file /\ \A q \in Processes : fd[q] # i
        /\ tmp' = i /\ text' = [text EXCEPT ![i] = Torn] /\ fd' = [fd EXCEPT ![p] = i]
  BY DEF SaveOpen
<1>2. /\ TypeOK /\ pc[p] = "ready" /\ pc' = [pc EXCEPT ![p] = "writing"]
      /\ UNCHANGED <<file, mem, edited, promised, blind, voided>>
  BY DEF StoreInv, SaveOpen, history
<1>3. i # file /\ i # NoInode
  BY <1>1 DEF StoreInv, Apart
<1>4. \A q \in Processes : Up(q)' <=> Up(q)
  BY <1>2 DEF Up, TypeOK
<1>5. \A q \in Processes : q # p => ~Up(q) /\ pc'[q] = pc[q]
  BY <1>2 DEF StoreInv, Alone, Up, TypeOK
<1>6. FileText' = FileText
  BY <1>1, <1>2, <1>3 DEF FileText, TypeOK
<1>7. Apart'
  BY <1>1, <1>2, <1>3 DEF StoreInv, Apart, TypeOK
<1>8. Saving'
  BY <1>1, <1>2, <1>3, <1>4, <1>5 DEF StoreInv, Saving, TypeOK, Up
<1>9. Alone' /\ Unloadable' /\ Holds'
  BY <1>2, <1>4, <1>6 DEF StoreInv, Alone, Unloadable, Holds
<1>10. Kept'
  BY <1>2, <1>6 DEF StoreInv, Kept, Stored
<1> QED BY <1>6, <1>7, <1>8, <1>9, <1>10 DEF StoreInv

LEMMA SaveCloseStep ==
  ASSUME StoreInv, TypeOK', NEW p \in Processes, SaveClose(p)
  PROVE  StoreInv' /\ FileText' = FileText
<1>1. /\ TypeOK /\ pc[p] = "writing" /\ pc' = [pc EXCEPT ![p] = "closed"]
      /\ fd' = [fd EXCEPT ![p] = NoInode] /\ UNCHANGED <<file, tmp, mem, edited, promised, blind, voided>>
  BY DEF StoreInv, SaveClose, history
<1>2. fd[p] = tmp /\ tmp # NoInode /\ text[tmp] = Torn /\ tmp \in Inodes
  BY <1>1 DEF StoreInv, Saving, TypeOK
<1>3. text' = [text EXCEPT ![tmp] = mem[p]]
  BY <1>2 DEF SaveClose
<1>4. \A q \in Processes : Up(q)' <=> Up(q)
  BY <1>1 DEF Up, TypeOK
<1>5. \A q \in Processes : q # p => ~Up(q) /\ pc'[q] = pc[q]
  BY <1>1 DEF StoreInv, Alone, Up, TypeOK
<1>6. FileText' = FileText
  BY <1>1, <1>2, <1>3 DEF StoreInv, Apart, FileText, TypeOK
<1>7. Apart'
  BY <1>1, <1>2, <1>3 DEF StoreInv, Apart, TypeOK
<1>8. Saving'
  <2>1. pc'[p] = "closed" /\ text'[tmp] = mem[p]
    BY <1>1, <1>2, <1>3 DEF TypeOK
  <2> QED BY <1>1, <1>2, <1>5, <2>1 DEF StoreInv, Saving, Up
<1>9. Alone' /\ Unloadable' /\ Holds'
  BY <1>1, <1>4, <1>6 DEF StoreInv, Alone, Unloadable, Holds
<1>10. Kept'
  BY <1>1, <1>6 DEF StoreInv, Kept, Stored
<1> QED BY <1>6, <1>7, <1>8, <1>9, <1>10 DEF StoreInv

\* The rename of a process that is alone does not fail, and stores its entries.
LEMMA SaveReplaceStep ==
  ASSUME StoreInv, TypeOK', NEW p \in Processes, SaveReplace(p)
  PROVE  StoreInv' /\ Stored' = mem[p] /\ pc' = [pc EXCEPT ![p] = "ready"]
<1>1. TypeOK /\ pc[p] = "closed" /\ tmp # NoInode /\ text[tmp] = mem[p] /\ mem[p] \in Entries
  BY DEF StoreInv, SaveReplace, Saving, TypeOK
<1>2. /\ file' = tmp /\ tmp' = NoInode /\ pc' = [pc EXCEPT ![p] = "ready"]
      /\ promised' = [k \in Keys |-> IF k \in edited[p] THEN mem[p][k] ELSE promised[k]]
      /\ edited' = [edited EXCEPT ![p] = {}] /\ UNCHANGED <<text, mem, fd>>
      /\ voided' = IF p \in blind THEN Keys \ edited[p] ELSE voided \ edited[p]
      /\ blind' = blind \ {p}
  BY <1>1 DEF SaveReplace
<1>3. \A q \in Processes : q # p => ~Up(q) /\ ~Up(q)' /\ pc'[q] = pc[q]
  BY <1>1, <1>2 DEF StoreInv, Alone, Up, TypeOK
<1>4. FileText' = mem[p] /\ mem[p] \notin {Torn, Foreign, Nothing, Unread}
  BY <1>1, <1>2 DEF FileText
<1>5. Stored' = mem[p]
  BY <1>4 DEF Stored, Parsed
<1>6. \A k \in Keys \ voided' : promised'[k] # Unpromised => mem[p][k] = promised'[k]
  <2>1. CASE p \in blind
    BY <1>2, <2>1
  <2>2. CASE p \notin blind
    BY <1>1, <1>2, <2>2 DEF StoreInv, Holds, Up
  <2> QED BY <2>1, <2>2
<1>7. Kept'
  BY <1>5, <1>6 DEF Kept
<1>8. Apart' /\ Alone' /\ Unloadable'
  BY <1>1, <1>2, <1>3, <1>4 DEF Apart, Alone, Unloadable
<1>9. Saving'
  <2>1. pc'[p] = "ready"
    BY <1>1, <1>2 DEF TypeOK
  <2> QED BY <1>2, <1>3, <2>1 DEF StoreInv, Saving, Up
<1>10. Holds'
  BY <1>2, <1>3, <1>6 DEF Holds
<1> QED BY <1>2, <1>5, <1>7, <1>8, <1>9, <1>10 DEF StoreInv

LEMMA ExitStep ==
  ASSUME StoreInv, TypeOK', NEW p \in Processes, Exit(p)
  PROVE  StoreInv' /\ FileText' = FileText
<1>1. /\ TypeOK /\ pc' = [pc EXCEPT ![p] = "down"] /\ mem' = [mem EXCEPT ![p] = NoEntries]
      /\ fd' = [fd EXCEPT ![p] = NoInode] /\ edited' = [edited EXCEPT ![p] = {}]
      /\ blind' = blind \ {p}
      /\ UNCHANGED <<text, file, tmp, promised, voided>> /\ FileText' = FileText
  BY DEF StoreInv, Exit, FileText
<1>2. pc'[p] = "down" /\ mem'[p] = NoEntries /\ ~Up(p)'
  BY <1>1 DEF TypeOK, Up
<1>3. \A q \in Processes : q # p =>
        /\ pc'[q] = pc[q] /\ mem'[q] = mem[q] /\ fd'[q] = fd[q] /\ edited'[q] = edited[q]
        /\ Up(q)' <=> Up(q)
  BY <1>1 DEF TypeOK, Up
<1>4. Alone' /\ Unloadable'
  BY <1>1, <1>2, <1>3 DEF StoreInv, Alone, Unloadable
<1>5. Apart' /\ Kept'
  BY <1>1 DEF StoreInv, Apart, Kept, Stored
<1>6. Saving'
  BY <1>1, <1>2, <1>3 DEF StoreInv, Saving
<1>7. Holds'
  BY <1>1, <1>2, <1>3 DEF StoreInv, Holds
<1> QED BY <1>1, <1>4, <1>5, <1>6, <1>7 DEF StoreInv

LEMMA StoreStep ==
  ASSUME ~Concurrent
  PROVE  StoreInv /\ [Next]_vars => StoreInv'
<1> SUFFICES ASSUME StoreInv, [Next]_vars PROVE StoreInv'
    OBVIOUS
<1>1. TypeOK'
  BY TypeStep DEF StoreInv
<1>2. CASE UNCHANGED vars
  BY <1>1, <1>2 DEF StoreInv, Alone, Apart, Saving, Unloadable, Holds, Kept, Stored, FileText, Up, vars, history
<1>3. CASE Next
  BY <1>1, <1>3, LoadStep, SetStep, SaveOpenStep, SaveCloseStep, SaveReplaceStep, ExitStep DEF Next
<1> QED BY <1>2, <1>3

THEOREM StoreInvHolds ==
  ASSUME ~Concurrent, Torn \notin FirstFile
  PROVE  Spec => []StoreInv
BY StoreInit, StoreStep, PTL DEF Spec

\* labels.py:53-57, wherever a process dies: a later one never finds a truncated
\* label file.
THEOREM NeverTornHolds ==
  ASSUME ~Concurrent, Torn \notin FirstFile
  PROVE  Spec => []NeverTorn
<1>1. StoreInv => NeverTorn
  BY DEF StoreInv, Apart, NeverTorn, FileText
<1> QED BY <1>1, StoreInvHolds, PTL

\* labels.py:1: a label that was reported as written is in the file until its port
\* is labelled again, or a process saves that could not read the file.
THEOREM KeptHolds ==
  ASSUME ~Concurrent, Torn \notin FirstFile
  PROVE  Spec => []Kept
<1>1. StoreInv => Kept
  BY DEF StoreInv
<1> QED BY <1>1, StoreInvHolds, PTL

-----------------------------------------------------------------------------
(* The abstract store                                                      *)

UpNow == {p \in Processes : pc[p] # "down"}

LEMMA StoredIsEntries == TypeOK => Stored \in Entries
BY NoEntriesIsEntries, ParsedIsEntries DEF Stored, Outcomes

\* What changes nothing of the store, the memories or who is up is a stutter.
LEMMA Stutter ==
  ASSUME FileText' = FileText, mem' = mem, NEW p \in Processes, pc[p] # "down",
         pc \in [Processes -> PCs], NEW s \in PCs \ {"down"}, pc' = [pc EXCEPT ![p] = s]
  PROVE  UNCHANGED <<Stored, mem, UpNow>>
BY DEF Stored, UpNow

LEMMA AtomicInit == Init => Atomic!Init
<1> SUFFICES ASSUME Init PROVE Atomic!Init
    OBVIOUS
<1>1. TypeOK /\ \A p \in Processes : pc[p] = "down"
  BY TypeInit DEF Init
<1> QED BY <1>1, StoredIsEntries DEF Init, Atomic!Init

LEMMA AtomicStep ==
  ASSUME ~Concurrent, StoreInv, StoreInv', [Next]_vars
  PROVE  [Atomic!Next]_<<Stored, mem, UpNow>>
<1>1. TypeOK /\ TypeOK'
  BY DEF StoreInv
<1>2. CASE UNCHANGED vars
  BY <1>2 DEF vars, Stored, FileText, UpNow
<1>3. ASSUME NEW p \in Processes, Load(p) PROVE Atomic!Begin(p) \/ Atomic!BeginBlind(p)
  <2>1. UNCHANGED <<text, file>> /\ Stored' = Stored
    BY <1>3 DEF Load, Stored, FileText
  <2>2. p \notin UpNow /\ UpNow' = UpNow \cup {p}
    BY <1>1, <1>3 DEF Load, UpNow, TypeOK
  <2>3. mem' = [mem EXCEPT ![p] = Stored] \/ mem' = [mem EXCEPT ![p] = NoEntries]
    <3>1. PICK got \in Outcomes :
            IF got = Foreign THEN mem' = mem ELSE mem' = [mem EXCEPT ![p] = Parsed(got)]
      BY <1>3 DEF Load
    <3>2. CASE got = Foreign
      <4>1. mem[p] = NoEntries /\ mem' = mem /\ mem \in [Processes -> Entries]
        BY <1>1, <1>3, <3>1, <3>2 DEF Load, StoreInv, Saving, Up, TypeOK
      <4> QED BY <4>1
    <3>3. CASE got # Foreign /\ got = Unread
      BY <3>1, <3>3 DEF Parsed
    <3>4. CASE got # Foreign /\ got # Unread
      BY <3>1, <3>4 DEF Outcomes, Stored
    <3> QED BY <3>2, <3>3, <3>4
  <2> QED BY <2>1, <2>2, <2>3 DEF Atomic!Begin, Atomic!BeginBlind, UpNow
<1>4. ASSUME NEW p \in Processes, Set(p) PROVE Atomic!Edit(p)
  <2>1. Stored' = Stored /\ UpNow' = UpNow /\ p \in UpNow
    BY <1>4 DEF Set, Stored, FileText, UpNow
  <2>2. mem' = [mem EXCEPT ![p] = mem'[p]] /\ mem'[p] \in Entries
    BY <1>1, <1>4 DEF Set, TypeOK
  <2> QED BY <2>1, <2>2 DEF Atomic!Edit, UpNow
<1>5. ASSUME NEW p \in Processes, SaveOpen(p) \/ SaveClose(p)
      PROVE  UNCHANGED <<Stored, mem, UpNow>>
  <2>1. FileText' = FileText
    BY <1>1, <1>5, SaveOpenStep, SaveCloseStep
  <2>2. mem' = mem /\ pc[p] # "down"
        /\ \E s \in PCs \ {"down"} : pc' = [pc EXCEPT ![p] = s]
    BY <1>5 DEF SaveOpen, SaveClose, PCs
  <2> QED BY <1>1, <2>1, <2>2, Stutter DEF TypeOK
<1>6. ASSUME NEW p \in Processes, SaveReplace(p) PROVE Atomic!Save(p)
  <2>1. Stored' = mem[p] /\ pc' = [pc EXCEPT ![p] = "ready"] /\ pc[p] = "closed" /\ mem' = mem
    BY <1>1, <1>6, SaveReplaceStep DEF SaveReplace
  <2>2. p \in UpNow /\ UpNow' = UpNow
    BY <1>1, <2>1 DEF UpNow, TypeOK
  <2> QED BY <2>1, <2>2 DEF Atomic!Save, UpNow
<1>7. ASSUME NEW p \in Processes, Exit(p) PROVE Atomic!End(p)
  <2>1. Stored' = Stored
    BY <1>7 DEF Exit, Stored, FileText
  <2>2. p \in UpNow /\ UpNow' = UpNow \ {p} /\ mem' = [mem EXCEPT ![p] = NoEntries]
    BY <1>1, <1>7 DEF Exit, UpNow, TypeOK
  <2> QED BY <2>1, <2>2 DEF Atomic!End, UpNow
<1>8. CASE Next
  <2>1. PICK p \in Processes :
          Load(p) \/ Set(p) \/ SaveOpen(p) \/ SaveClose(p) \/ SaveReplace(p) \/ Exit(p)
    BY <1>8 DEF Next
  <2> QED BY <2>1, <1>3, <1>4, <1>5, <1>6, <1>7 DEF Atomic!Next
<1> QED BY <1>2, <1>8

\* labels.py:47-60: for processes that take turns, the store is the atomic one.
THEOREM StoreImplementsAtomic ==
  ASSUME ~Concurrent, Torn \notin FirstFile
  PROVE  Spec => ImplementsAtomic
BY AtomicInit, AtomicStep, StoreInvHolds, PTL
   DEF Spec, ImplementsAtomic, Atomic!Spec, UpNow
=============================================================================
