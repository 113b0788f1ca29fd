----------------------------- MODULE CollectInv -----------------------------
(***************************************************************************)
(* The inductive invariants behind the theorems about Collect.  AnyInv     *)
(* holds however the calls overlap; SerialInv needs one call at a time.    *)
(***************************************************************************)
EXTENDS Collect

\* Where the caller is in phase 1, phase by phase.
CallerPosition ==
  \A c \in Collections :
    /\ phase[c] = "idle" => pos[Main(c)] = 1
    /\ phase[c] \in {"ports", "unwind", "returned"} => pos[Main(c)] = 8

\* Phase 1 has left an answer for every key behind it, but for the two steps
\* that it leaves out on purpose.
Filled ==
  \A c \in Collections : \A p \in 1 .. 7 : p < pos[Main(c)] =>
    \/ cache[SharedProgram[p]] # Absent
    \/ p = 2 /\ count[c] = 0
    \/ p = 3 /\ SkipRoot

\* Only a caller in phase 1 is ever inside produce() or at the store.
OnlyCallersProbe ==
  \A t \in Threads : stage[t] # "lookup" =>
    /\ t[2] = 0 /\ phase[t[1]] = "shared" /\ pos[t] < 8
    /\ stage[t] = "store" => held[t] \in Answers

\* Jobs live inside the port phase of their call.
JobPhase ==
  \A t \in PortThreads :
    /\ job[t] = "queued" => phase[t[1]] = "ports"
    /\ job[t] = "running" => phase[t[1]] \in {"ports", "unwind"}
    /\ job[t] # "none" => t[2] <= count[t[1]] /\ phase[t[1]] \notin {"idle", "shared"}
    /\ job[t] = "done" => pos[t] = 7

\* What pool.map has yielded is done, and a returned call has yielded it all.
YieldedDone ==
  \A c \in Collections :
    /\ yielded[c] <= count[c]
    /\ \A i \in 1 .. yielded[c] : job[<<c, i>>] = "done"
    /\ phase[c] \in {"idle", "shared"} => yielded[c] = 0
    /\ phase[c] = "returned" => yielded[c] = count[c]

AnyInv == /\ TypeOK /\ CallerPosition /\ Filled /\ OnlyCallersProbe
          /\ JobPhase /\ YieldedDone

OneActive == \A c, d \in Collections : Active(c) /\ Active(d) => c = d

\* What a port shows is what the cache holds.
ShownIsCached ==
  \A t \in PortThreads : \A p \in Steps : seen[t][p] # Absent =>
    PortProgram[p] \in JobKeys /\ seen[t][p] = cache[PortProgram[p]]

SerialInv == OneActive /\ StillAbsent /\ ShownIsCached
=============================================================================
