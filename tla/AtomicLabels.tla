---------------------------- MODULE AtomicLabels ----------------------------
(***************************************************************************)
(* What the label store promises: a save replaces everything that is       *)
(* stored, in one step, with what the saving process holds in memory; a    *)
(* process begins with what is stored, or with nothing when that could not *)
(* be read; nothing else changes the store.                                *)
(***************************************************************************)
CONSTANTS Processes, Entries, NoEntries

VARIABLES
  stored,  \* the stored entries
  mem,     \* of each process: the entries it works on
  up       \* the processes that have begun and not ended

Init ==
  /\ stored \in Entries
  /\ mem = [p \in Processes |-> NoEntries]
  /\ up = {}

Begin(p) == /\ p \notin up /\ up' = up \cup {p}
            /\ mem' = [mem EXCEPT ![p] = stored] /\ UNCHANGED stored
BeginBlind(p) ==
            /\ p \notin up /\ up' = up \cup {p}
            /\ mem' = [mem EXCEPT ![p] = NoEntries] /\ UNCHANGED stored
End(p)   == /\ p \in up /\ up' = up \ {p}
            /\ mem' = [mem EXCEPT ![p] = NoEntries] /\ UNCHANGED stored
Edit(p)  == /\ p \in up
            /\ \E e \in Entries : mem' = [mem EXCEPT ![p] = e]
            /\ UNCHANGED <<stored, up>>
Save(p)  == p \in up /\ stored' = mem[p] /\ UNCHANGED <<mem, up>>

Next == \E p \in Processes : Begin(p) \/ BeginBlind(p) \/ End(p) \/ Edit(p) \/ Save(p)

Spec == Init /\ [][Next]_<<stored, mem, up>>
=============================================================================
