---------------------------- MODULE CollectProof ----------------------------
(***************************************************************************)
(* Proofs about Collect, for every number of calls, ports and pool         *)
(* threads.                                                                *)
(***************************************************************************)
EXTENDS CollectInv, TLAPS

-----------------------------------------------------------------------------
(* Facts about the two programs                                            *)

\* Phase 1 asks for keys of the cache only, and reaches every one of them.
LEMMA SharedKeys ==
  /\ \A p \in 1 .. 7 : SharedProgram[p] \in Keys
  /\ SharedProgram[2] = "ethtool:json" /\ SharedProgram[3] = "lspci"
  /\ SharedProgram[4] = "kernel:ptm" /\ SharedProgram[6] = "tsn:table"
  /\ \A p \in 1 .. 7 : SharedProgram[p] = "lspci" => p = 3
  /\ \A p \in 1 .. 7 : SharedProgram[p] # "port"
BY DEF SharedProgram, Keys

\* What a port job looks up is among the keys that phase 1 asks for.
LEMMA PortKeys ==
  /\ \A p \in Steps : PortProgram[p] \in Keys \cup {"port"}
  /\ \A p \in Steps : PortProgram[p] \in Keys =>
       PortProgram[p] \in {"ethtool:json", "kernel:ptm", "lspci", "tsn:table"}
  /\ PortProgram[1] = "port" /\ PortProgram[ScanStep] = "lspci"
BY DEF PortProgram, Keys, Steps, ScanStep

LEMMA ThreadShape ==
  /\ \A t \in Threads : /\ t = <<t[1], t[2]>> /\ t[1] \in Collections
                        /\ t[2] \in 0 .. MaxPorts
                        /\ t[2] # 0 => t \in PortThreads
                        /\ t[2] = 0 => t = Main(t[1])
  /\ \A t \in PortThreads : t \in Threads /\ t[2] # 0
  /\ \A c \in Collections : Main(c) \in Threads /\ Main(c)[1] = c /\ Main(c)[2] = 0
BY CollectAssumption DEF Threads, PortThreads, Ports, Main

\* The key of a cached call is in range.
LEMMA WantedType ==
  ASSUME TypeOK, NEW t \in Threads, pos[t] < End(t)
  PROVE  /\ pos[t] \in 1 .. 7
         /\ t[2] = 0 => Wanted(t) \in Keys
         /\ t[2] # 0 => pos[t] \in Steps /\ Wanted(t) \in Keys \cup {"port"}
BY SharedKeys, PortKeys, ThreadShape DEF TypeOK, End, Wanted, Program, Steps

-----------------------------------------------------------------------------
(* Type correctness                                                        *)

LEMMA TypeInit == Init => TypeOK
BY CollectAssumption DEF Init, TypeOK, Answers, Phases, JobStates, Steps

LEMMA TypeStep == TypeOK /\ [Next]_vars => TypeOK'
<1> SUFFICES ASSUME TypeOK, [Next]_vars PROVE TypeOK'
    OBVIOUS
<1> USE CollectAssumption
<1>1. ASSUME NEW t \in Threads, NEW a \in Answers \cup {Absent},
             pos[t] < End(t), Take(t, a)
      PROVE  /\ pos' \in [Threads -> 1 .. 8]
             /\ seen' \in [PortThreads -> [Steps -> Answers \cup {Absent}]]
  BY <1>1, WantedType, ThreadShape DEF Take, TypeOK, Steps
<1>2. ASSUME NEW t \in Threads, Hit(t) PROVE TypeOK'
  <2>1. cache[Wanted(t)] \in Answers \cup {Absent}
    BY <1>2 DEF Hit, TypeOK
  <2> QED BY <1>1, <1>2, <2>1 DEF Hit, AtCall, TypeOK, callVars
<1>3. ASSUME NEW t \in Threads, Miss(t) PROVE TypeOK'
  BY <1>3 DEF Miss, TypeOK, callVars
<1>4. ASSUME NEW t \in Threads, Produce(t) PROVE TypeOK'
  BY <1>4 DEF Produce, TypeOK, callVars, Observe, Answers
<1>5. ASSUME NEW t \in Threads, Store(t) PROVE TypeOK'
  BY <1>5 DEF Store, TypeOK, callVars
<1>6. ASSUME NEW t \in Threads, Skip(t) PROVE TypeOK'
  BY <1>1, <1>6 DEF Skip, AtCall, TypeOK, callVars
<1>7. ASSUME NEW t \in Threads, AskPort(t) PROVE TypeOK'
  BY <1>1, <1>7 DEF AskPort, AtCall, TypeOK, callVars
<1>8. ASSUME NEW t \in Threads, Raise(t) PROVE TypeOK'
  BY <1>8, ThreadShape DEF Raise, TypeOK, Phases, JobStates
<1>9. ASSUME NEW t \in PortThreads, Begin(t) \/ Complete(t) PROVE TypeOK'
  BY <1>9 DEF Begin, Complete, TypeOK, JobStates, threadVars, callVars
<1>10. ASSUME NEW c \in Collections, Start(c) PROVE TypeOK'
  BY <1>10 DEF Start, TypeOK, Phases, threadVars
<1>11. ASSUME NEW c \in Collections, Submit(c) PROVE TypeOK'
  BY <1>11 DEF Submit, TypeOK, Phases, JobStates, threadVars
<1>12. ASSUME NEW c \in Collections, YieldNext(c) PROVE TypeOK'
  BY <1>12 DEF YieldNext, TypeOK, threadVars
<1>13. ASSUME NEW c \in Collections, Unwind(c) PROVE TypeOK'
  BY <1>13 DEF Unwind, TypeOK, Phases, JobStates, threadVars
<1>14. ASSUME NEW c \in Collections, GiveUp(c) \/ Finish(c) PROVE TypeOK'
  BY <1>14 DEF GiveUp, Finish, TypeOK, Phases, threadVars
<1>15. CASE Change
  BY <1>15 DEF Change, TypeOK, Answers, threadVars
<1>16. CASE UNCHANGED vars
  BY <1>16 DEF vars, TypeOK
<1> QED
  BY <1>2, <1>3, <1>4, <1>5, <1>6, <1>7, <1>8, <1>9, <1>10, <1>11, <1>12, <1>13,
     <1>14, <1>15, <1>16 DEF Next, Cached, CallStep

\* Every reachable state is well typed, for every value of the constants.
THEOREM TypeCorrect == Spec => []TypeOK
BY TypeInit, TypeStep, PTL DEF Spec

-----------------------------------------------------------------------------
(* The invariant that holds however the calls overlap                      *)

LEMMA AnyInit == Init => AnyInv
<1> SUFFICES ASSUME Init PROVE AnyInv
    OBVIOUS
<1>1. TypeOK
  BY TypeInit
<1>2. CallerPosition /\ Filled
  BY ThreadShape DEF Init, CallerPosition, Filled
<1>3. OnlyCallersProbe /\ JobPhase /\ YieldedDone
  BY DEF Init, OnlyCallersProbe, JobPhase, YieldedDone
<1> QED BY <1>1, <1>2, <1>3 DEF AnyInv

\* Phase 1 has answered whatever a running job looks up.
LEMMA JobFindsAnswer ==
  ASSUME AnyInv, NEW t \in PortThreads, job[t] = "running", pos[t] < 7,
         Wanted(t) \in Keys, ~MustSkip(t)
  PROVE  cache[Wanted(t)] # Absent
<1>1. t[1] \in Collections /\ t[2] \in 1 .. MaxPorts /\ t[2] # 0
  BY CollectAssumption DEF PortThreads, Ports
<1>2. pos[Main(t[1])] = 8 /\ count[t[1]] # 0
  BY <1>1, CollectAssumption DEF AnyInv, TypeOK, JobPhase, CallerPosition
<1>3. Wanted(t) \in {"ethtool:json", "kernel:ptm", "lspci", "tsn:table"}
  BY <1>1, PortKeys, WantedType, ThreadShape DEF Wanted, Program, AnyInv, End
<1>4. /\ cache["ethtool:json"] # Absent /\ cache["kernel:ptm"] # Absent
      /\ cache["tsn:table"] # Absent
      /\ cache["lspci"] # Absent \/ SkipRoot
  BY <1>1, <1>2, SharedKeys DEF AnyInv, Filled
<1> QED BY <1>3, <1>4 DEF MustSkip

LEMMA AnyStep == AnyInv /\ [Next]_vars => AnyInv'
<1> SUFFICES ASSUME AnyInv, [Next]_vars PROVE AnyInv'
    OBVIOUS
<1> USE CollectAssumption
<1>1. TypeOK /\ TypeOK'
  BY TypeStep DEF AnyInv
<1>2. ASSUME NEW t \in Threads, Cached(t) PROVE AnyInv'
  <2>1. /\ Running(t) /\ pos[t] < End(t) /\ phase' = phase /\ count' = count
        /\ job' = job /\ yielded' = yielded
    BY <1>2 DEF Cached, Hit, Miss, Produce, Store, Skip, AskPort, AtCall, callVars
  <2>2. \A u \in Threads : u # t => pos'[u] = pos[u] /\ stage'[u] = stage[u] /\ held'[u] = held[u]
    BY <1>1, <1>2 DEF Cached, Hit, Miss, Produce, Store, Skip, AskPort, Take, TypeOK
  <2>3. \/ pos' = pos
        \/ pos' = [pos EXCEPT ![t] = @ + 1] /\ stage' = stage /\ cache' = cache
    BY <1>2 DEF Cached, Hit, Miss, Produce, Store, Skip, AskPort, Take
  <2>4. t[2] # 0 => stage[t] = "lookup" /\ stage'[t] = "lookup" /\ cache' = cache
    <3> SUFFICES ASSUME t[2] # 0 PROVE stage[t] = "lookup" /\ stage'[t] = "lookup" /\ cache' = cache
        OBVIOUS
    <3>1. stage[t] = "lookup"
      BY DEF AnyInv, OnlyCallersProbe
    <3>2. t \in PortThreads /\ job[t] = "running" /\ pos[t] < 7
      BY <2>1, ThreadShape DEF Running, End
    <3>3. ~Miss(t)
      BY <3>2, JobFindsAnswer DEF Miss
    <3> QED BY <1>2, <3>1, <3>3 DEF Cached, Hit, Produce, Store, Skip, AskPort, AtCall
  <2>5. \A k \in Keys : cache[k] # Absent => cache'[k] # Absent
    <3>1. CASE Store(t)
      <4>1. held[t] \in Answers
        BY <3>1 DEF Store, AtCall, AnyInv, OnlyCallersProbe
      <4> QED BY <3>1, <4>1, <1>1 DEF Store, TypeOK, Answers, Absent
    <3> QED BY <1>2, <3>1 DEF Cached, Hit, Miss, Produce, Skip, AskPort
  <2>6. CallerPosition'
    BY <2>1, <2>2, ThreadShape DEF AnyInv, CallerPosition, Running
  <2>7. Filled'
    <3> SUFFICES ASSUME NEW c \in Collections, NEW p \in 1 .. 7, p < pos'[Main(c)]
                 PROVE  \/ cache'[SharedProgram[p]] # Absent
                        \/ p = 2 /\ count[c] = 0
                        \/ p = 3 /\ SkipRoot
        BY <2>1 DEF Filled
    <3>1. CASE p < pos[Main(c)]
      BY <3>1, <2>5, SharedKeys DEF AnyInv, Filled
    <3>2. CASE ~(p < pos[Main(c)])
      <4>0. Main(c) \in Threads /\ pos[Main(c)] \in 1 .. 8 /\ pos'[Main(c)] # pos[Main(c)]
        BY <3>2, <1>1, ThreadShape DEF TypeOK
      <4>a. t = Main(c) /\ t[2] = 0 /\ t[1] = c
        BY <4>0, <2>2, ThreadShape
      <4>b. pos' # pos /\ cache' = cache /\ pos'[t] = pos[t] + 1
        BY <4>0, <4>a, <2>3, <1>1 DEF TypeOK
      <4>1. t = Main(c) /\ t[2] = 0 /\ t[1] = c /\ p = pos[t] /\ cache' = cache /\ pos' # pos
        BY <3>2, <4>0, <4>a, <4>b
      <4>2. Wanted(t) = SharedProgram[p]
        BY <4>1 DEF Wanted, Program
      <4>3. CASE Hit(t)
        BY <4>1, <4>2, <4>3 DEF Hit
      <4>4. CASE Skip(t)
        BY <4>1, <4>2, <4>4, SharedKeys DEF Skip, MaySkip
      <4>5. ~AskPort(t)
        BY <4>2, SharedKeys DEF AskPort
      <4> QED BY <1>2, <4>1, <4>3, <4>4, <4>5 DEF Cached, Miss, Produce, Store
    <3> QED BY <3>1, <3>2
  <2>8. OnlyCallersProbe'
    <3>1. ASSUME stage'[t] # "lookup"
          PROVE  /\ t[2] = 0 /\ phase'[t[1]] = "shared" /\ pos'[t] < 8
                 /\ stage'[t] = "store" => held'[t] \in Answers
      <4>1. t[2] = 0 /\ phase[t[1]] = "shared" /\ pos[t] < 8
        BY <3>1, <2>1, <2>4 DEF Running, End
      <4>2. Miss(t) \/ Produce(t)
        BY <3>1, <1>2, <1>1 DEF Cached, Hit, Store, Skip, AskPort, AtCall, TypeOK
      <4>3. pos'[t] < 8
        BY <4>1, <4>2 DEF Miss, Produce
      <4>4. stage'[t] = "store" => held'[t] \in Answers
        BY <4>2, <1>1 DEF Miss, Produce, Observe, TypeOK, Answers
      <4> QED BY <4>1, <4>3, <4>4, <2>1
    <3> QED BY <3>1, <2>1, <2>2 DEF AnyInv, OnlyCallersProbe
  <2>9. JobPhase'
    BY <2>1, <2>2, ThreadShape DEF AnyInv, JobPhase, Running, End
  <2>10. YieldedDone'
    BY <2>1 DEF AnyInv, YieldedDone
  <2> QED BY <1>1, <2>6, <2>7, <2>8, <2>9, <2>10 DEF AnyInv
<1>3. ASSUME NEW t \in Threads, Raise(t) PROVE AnyInv'
  <2>1. /\ Running(t) /\ pos[t] < End(t) /\ pos' = pos /\ cache' = cache /\ count' = count
        /\ yielded' = yielded /\ held' = held /\ stage' = [stage EXCEPT ![t] = "lookup"]
    BY <1>3 DEF Raise
  <2>2. CASE t[2] = 0
    <3>1. /\ phase[t[1]] = "shared" /\ phase' = [phase EXCEPT ![t[1]] = "raised"] /\ job' = job
          /\ t[1] \in Collections
      BY <1>3, <2>2, ThreadShape DEF Raise, Running
    <3>2. CallerPosition' /\ Filled'
      BY <2>1, <3>1, <1>1 DEF AnyInv, CallerPosition, Filled, TypeOK
    <3>3. OnlyCallersProbe'
      BY <2>1, <2>2, <3>1, <1>1, ThreadShape DEF AnyInv, OnlyCallersProbe, TypeOK
    <3>4. JobPhase' /\ YieldedDone'
      BY <2>1, <3>1, <1>1 DEF AnyInv, JobPhase, YieldedDone, TypeOK
    <3> QED BY <1>1, <3>2, <3>3, <3>4 DEF AnyInv
  <2>3. CASE t[2] # 0
    <3>1. /\ job[t] = "running" /\ phase' = phase /\ job' = [job EXCEPT ![t] = "raised"]
          /\ t \in PortThreads
      BY <1>3, <2>3, ThreadShape DEF Raise, Running
    <3>2. CallerPosition' /\ Filled'
      BY <2>1, <3>1 DEF AnyInv, CallerPosition, Filled
    <3>3. OnlyCallersProbe'
      BY <2>1, <3>1, <1>1 DEF AnyInv, OnlyCallersProbe, TypeOK
    <3>4. JobPhase'
      BY <2>1, <3>1, <1>1 DEF AnyInv, JobPhase, TypeOK
    <3>5. YieldedDone'
      BY <2>1, <3>1, <1>1 DEF AnyInv, YieldedDone, TypeOK
    <3> QED BY <1>1, <3>2, <3>3, <3>4, <3>5 DEF AnyInv
  <2> QED BY <2>2, <2>3
<1>4. ASSUME NEW t \in PortThreads, Begin(t) PROVE AnyInv'
  <2>1. /\ job[t] = "queued" /\ job' = [job EXCEPT ![t] = "running"]
        /\ UNCHANGED <<world, cache, threadVars, callVars>>
    BY <1>4 DEF Begin
  <2>2. CallerPosition' /\ Filled' /\ OnlyCallersProbe'
    BY <2>1 DEF AnyInv, CallerPosition, Filled, OnlyCallersProbe, threadVars, callVars
  <2>3. JobPhase' /\ YieldedDone'
    BY <2>1, <1>1 DEF AnyInv, JobPhase, YieldedDone, TypeOK, threadVars, callVars
  <2> QED BY <1>1, <2>2, <2>3 DEF AnyInv
<1>5. ASSUME NEW t \in PortThreads, Complete(t) PROVE AnyInv'
  <2>1. /\ job[t] = "running" /\ pos[t] = 7 /\ job' = [job EXCEPT ![t] = "done"]
        /\ UNCHANGED <<world, cache, threadVars, callVars>>
    BY <1>5, ThreadShape DEF Complete, End
  <2>2. CallerPosition' /\ Filled' /\ OnlyCallersProbe'
    BY <2>1 DEF AnyInv, CallerPosition, Filled, OnlyCallersProbe, threadVars, callVars
  <2>3. JobPhase' /\ YieldedDone'
    BY <2>1, <1>1 DEF AnyInv, JobPhase, YieldedDone, TypeOK, threadVars, callVars
  <2> QED BY <1>1, <2>2, <2>3 DEF AnyInv
<1>6. ASSUME NEW c \in Collections, Start(c) PROVE AnyInv'
  <2>1. /\ phase[c] = "idle" /\ phase' = [phase EXCEPT ![c] = "shared"]
        /\ \A d \in Collections : d # c => count'[d] = count[d]
        /\ count'[c] \in Nat
        /\ UNCHANGED <<world, cache, threadVars, job, yielded>>
    BY <1>6, <1>1 DEF Start, TypeOK
  <2>2. CallerPosition' /\ Filled'
    BY <2>1, <1>1 DEF AnyInv, CallerPosition, Filled, TypeOK, threadVars
  <2>3. OnlyCallersProbe'
    BY <2>1, <1>1, ThreadShape DEF AnyInv, OnlyCallersProbe, TypeOK, threadVars
  <2>4. JobPhase'
    BY <2>1, <1>1, ThreadShape DEF AnyInv, JobPhase, TypeOK, threadVars
  <2>5. YieldedDone'
    BY <2>1, <1>1 DEF AnyInv, YieldedDone, TypeOK
  <2> QED BY <1>1, <2>2, <2>3, <2>4, <2>5 DEF AnyInv
<1>7. ASSUME NEW c \in Collections, Submit(c) PROVE AnyInv'
  <2>1. /\ phase[c] = "shared" /\ pos[Main(c)] = 8 /\ phase' = [phase EXCEPT ![c] = "ports"]
        /\ \A t \in PortThreads : t \in JobsOf(c) \/ job'[t] = job[t]
        /\ \A t \in PortThreads : t \in JobsOf(c) => job'[t] = "queued"
        /\ UNCHANGED <<world, cache, threadVars, count, yielded>>
    BY <1>7, ThreadShape DEF Submit, End
  <2>2. \A t \in JobsOf(c) : t[1] = c /\ t[2] <= count[c] /\ t[2] \in 1 .. count[c]
    BY <1>1 DEF JobsOf, TypeOK
  <2>3. CallerPosition' /\ Filled'
    BY <2>1, <1>1 DEF AnyInv, CallerPosition, Filled, TypeOK, threadVars
  <2>4. OnlyCallersProbe'
    BY <2>1, <1>1, ThreadShape DEF AnyInv, OnlyCallersProbe, TypeOK, threadVars
  <2>5. JobPhase'
    BY <2>1, <2>2, <1>1, ThreadShape DEF AnyInv, JobPhase, TypeOK, threadVars
  <2>6. YieldedDone'
    <3> SUFFICES ASSUME NEW d \in Collections, NEW i \in 1 .. yielded[d]
                 PROVE  job'[<<d, i>>] = "done"
        BY <2>1, <1>1 DEF AnyInv, YieldedDone, TypeOK
    <3>1. d # c
      BY <2>1, <1>1 DEF AnyInv, YieldedDone, TypeOK
    <3>2. <<d, i>> \in PortThreads /\ <<d, i>> \notin JobsOf(c)
      BY <3>1, <2>2, <1>1 DEF PortThreads, Ports, TypeOK, JobsOf
    <3> QED BY <3>2, <2>1 DEF AnyInv, YieldedDone
  <2> QED BY <1>1, <2>3, <2>4, <2>5, <2>6 DEF AnyInv
<1>8. ASSUME NEW c \in Collections, YieldNext(c) PROVE AnyInv'
  <2>1. /\ phase[c] = "ports" /\ yielded[c] < count[c] /\ job[<<c, yielded[c] + 1>>] = "done"
        /\ yielded' = [yielded EXCEPT ![c] = @ + 1]
        /\ UNCHANGED <<world, cache, threadVars, job, phase, count>>
    BY <1>8 DEF YieldNext
  <2>2. CallerPosition' /\ Filled' /\ OnlyCallersProbe' /\ JobPhase'
    BY <2>1 DEF AnyInv, CallerPosition, Filled, OnlyCallersProbe, JobPhase, threadVars
  <2>3. YieldedDone'
    <3>1. \A d \in Collections : yielded'[d] <= count[d]
      BY <2>1, <1>1 DEF AnyInv, YieldedDone, TypeOK
    <3>2. ASSUME NEW d \in Collections, NEW i \in 1 .. yielded'[d] PROVE job[<<d, i>>] = "done"
      <4>1. CASE i \in 1 .. yielded[d]
        BY <4>1 DEF AnyInv, YieldedDone
      <4>2. CASE i \notin 1 .. yielded[d]
        <5>1. d = c /\ i = yielded[c] + 1
          BY <2>1, <4>2, <1>1 DEF TypeOK
        <5> QED BY <5>1, <2>1
      <4> QED BY <4>1, <4>2
    <3>3. \A d \in Collections : /\ phase[d] \in {"idle", "shared"} => yielded'[d] = 0
                                 /\ phase[d] = "returned" => yielded'[d] = count[d]
      BY <2>1, <1>1 DEF AnyInv, YieldedDone, TypeOK
    <3> QED BY <2>1, <3>1, <3>2, <3>3 DEF YieldedDone
  <2> QED BY <1>1, <2>2, <2>3 DEF AnyInv
<1>9. ASSUME NEW c \in Collections, Unwind(c) PROVE AnyInv'
  <2>1. /\ phase[c] = "ports" /\ phase' = [phase EXCEPT ![c] = "unwind"]
        /\ \A t \in PortThreads : \/ job'[t] = job[t] /\ ~(t \in JobsOf(c) /\ job[t] = "queued")
                                  \/ job'[t] = "cancelled" /\ job[t] = "queued"
        /\ UNCHANGED <<world, cache, threadVars, count, yielded>>
    BY <1>9 DEF Unwind
  <2>2. CallerPosition' /\ Filled'
    BY <2>1, <1>1 DEF AnyInv, CallerPosition, Filled, TypeOK, threadVars
  <2>3. OnlyCallersProbe'
    BY <2>1, <1>1, ThreadShape DEF AnyInv, OnlyCallersProbe, TypeOK, threadVars
  <2>4. \A t \in PortThreads : job[t] = "queued" /\ t[1] = c => t \in JobsOf(c)
    BY <1>1 DEF AnyInv, JobPhase, TypeOK, PortThreads, Ports, JobsOf
  <2>5. JobPhase'
    BY <2>1, <2>4, <1>1, ThreadShape DEF AnyInv, JobPhase, TypeOK, threadVars
  <2>6. YieldedDone'
    <3> SUFFICES ASSUME NEW d \in Collections, NEW i \in 1 .. yielded[d]
                 PROVE  job'[<<d, i>>] = "done"
        BY <2>1, <1>1 DEF AnyInv, YieldedDone, TypeOK
    <3>1. <<d, i>> \in PortThreads /\ job[<<d, i>>] = "done"
      <4>1. yielded[d] \in 0 .. MaxPorts /\ i \in 1 .. MaxPorts
        BY <1>1 DEF TypeOK
      <4>2. <<d, i>> \in PortThreads
        BY <4>1 DEF PortThreads, Ports
      <4> QED BY <4>2 DEF AnyInv, YieldedDone
    <3> QED BY <3>1, <2>1
  <2> QED BY <1>1, <2>2, <2>3, <2>5, <2>6 DEF AnyInv
<1>10. ASSUME NEW c \in Collections, GiveUp(c) \/ Finish(c) PROVE AnyInv'
  <2>1. /\ UNCHANGED <<world, cache, threadVars, job, count, yielded>>
        /\ \/ phase[c] = "unwind" /\ Busy(c) = {} /\ phase' = [phase EXCEPT ![c] = "raised"]
           \/ /\ phase[c] = "ports" /\ yielded[c] = count[c]
              /\ \E ending \in {"returned", "raised"} : phase' = [phase EXCEPT ![c] = ending]
    BY <1>10 DEF GiveUp, Finish
  <2>2. CallerPosition' /\ Filled'
    BY <2>1, <1>1 DEF AnyInv, CallerPosition, Filled, TypeOK, threadVars
  <2>3. OnlyCallersProbe'
    BY <2>1, <1>1, ThreadShape DEF AnyInv, OnlyCallersProbe, TypeOK, threadVars
  <2>4. \A t \in PortThreads : t[1] = c => job[t] \notin {"queued", "running"}
    <3> SUFFICES ASSUME NEW t \in PortThreads, t[1] = c, job[t] \in {"queued", "running"}
                 PROVE  FALSE
        OBVIOUS
    <3>a. t[2] \in 1 .. MaxPorts /\ t = <<c, t[2]>>
      BY DEF PortThreads, Ports
    <3>b. t[2] <= count[c] /\ count[c] \in 0 .. MaxPorts
      BY <1>1 DEF AnyInv, JobPhase, TypeOK
    <3>1. t \in JobsOf(c) /\ t[2] \in 1 .. count[c] /\ t = <<c, t[2]>>
      BY <3>a, <3>b DEF JobsOf
    <3>2. CASE phase[c] = "unwind"
      BY <2>1, <3>1, <3>2 DEF Busy, AnyInv, JobPhase
    <3>3. CASE phase[c] = "ports" /\ yielded[c] = count[c]
      BY <3>1, <3>3 DEF AnyInv, YieldedDone
    <3> QED BY <2>1, <3>2, <3>3
  <2>5. JobPhase'
    BY <2>1, <2>4, <1>1, ThreadShape DEF AnyInv, JobPhase, TypeOK, threadVars
  <2>6. YieldedDone'
    <3> SUFFICES ASSUME NEW d \in Collections
                 PROVE  /\ yielded'[d] <= count'[d]
                        /\ \A i \in 1 .. yielded'[d] : job'[<<d, i>>] = "done"
                        /\ phase'[d] \in {"idle", "shared"} => yielded'[d] = 0
                        /\ phase'[d] = "returned" => yielded'[d] = count'[d]
      BY DEF YieldedDone
    <3>1. /\ yielded[d] <= count[d]
          /\ \A i \in 1 .. yielded[d] : job[<<d, i>>] = "done"
          /\ phase[d] \in {"idle", "shared"} => yielded[d] = 0
          /\ phase[d] = "returned" => yielded[d] = count[d]
      BY DEF AnyInv, YieldedDone
    <3>2. CASE d = c
      <4>1. \/ phase'[c] = "raised"
            \/ phase'[c] = "returned" /\ yielded[c] = count[c]
        BY <2>1, <1>1 DEF TypeOK
      <4> QED BY <2>1, <3>1, <3>2, <4>1
    <3>3. CASE d # c
      <4>1. phase'[d] = phase[d]
        BY <2>1, <1>1, <3>3 DEF TypeOK
      <4> QED BY <2>1, <3>1, <4>1
    <3> QED BY <3>2, <3>3
  <2> QED BY <1>1, <2>2, <2>3, <2>5, <2>6 DEF AnyInv
<1>11. CASE Change \/ UNCHANGED vars
  <2>1. UNCHANGED <<cache, phase, count, pos, stage, held, job, yielded>>
    BY <1>11 DEF Change, vars, threadVars
  <2> QED BY <1>1, <2>1 DEF AnyInv, CallerPosition, Filled, OnlyCallersProbe, JobPhase, YieldedDone
<1> QED
  BY <1>2, <1>3, <1>4, <1>5, <1>6, <1>7, <1>8, <1>9, <1>10, <1>11 DEF Next, CallStep

THEOREM AnyInvariant == Spec => []AnyInv
BY AnyInit, AnyStep, PTL DEF Spec

-----------------------------------------------------------------------------
(* What holds however the calls overlap                                    *)

\* Phase 1 asks for everything a port job looks up: no job of any call ever
\* probes the machine for a shared answer.
THEOREM JobsNeverProbe == Spec => []JobsOnlyHit
<1>1. AnyInv => JobsOnlyHit
  BY ThreadShape DEF AnyInv, OnlyCallersProbe, JobsOnlyHit
<1> QED BY <1>1, AnyInvariant, PTL

\* collect() leaves no running or queued job behind, report or exception.
THEOREM NothingLeftBehind == Spec => []NoStrayJob
<1>1. AnyInv => NoStrayJob
  BY DEF AnyInv, JobPhase, NoStrayJob
<1> QED BY <1>1, AnyInvariant, PTL

\* A returned report holds every port, each completely collected.
THEOREM ReportsAreWhole == Spec => []WholeReport
<1>1. AnyInv => WholeReport
  <2> SUFFICES ASSUME AnyInv, NEW c \in Collections, phase[c] = "returned", NEW t \in JobsOf(c)
               PROVE  job[t] = "done" /\ pos[t] = End(t)
      BY DEF WholeReport
  <2>1. PICK i \in 1 .. count[c] : t = <<c, i>>
    BY DEF JobsOf
  <2>2. t \in PortThreads /\ job[t] = "done" /\ t[2] # 0
    BY <2>1, CollectAssumption DEF AnyInv, YieldedDone, TypeOK, PortThreads, Ports
  <2> QED BY <2>2 DEF AnyInv, JobPhase, End
<1> QED BY <1>1, AnyInvariant, PTL

-----------------------------------------------------------------------------
(* What needs one call at a time                                           *)

\* Which steps change what a thread knows.
LEMMA ThreadSteps ==
  ASSUME [Next]_vars
  PROVE  \/ \E u \in Threads : Cached(u) \/ Raise(u)
         \/ UNCHANGED <<cache, pos, stage, held, seen>>
BY DEF Next, Begin, Complete, Start, CallStep, Submit, YieldNext, Unwind, GiveUp, Finish,
       Change, vars, threadVars

\* In one step at most one thread touches the cache: a caller in phase 1,
\* at the store of a key that is still absent.
LEMMA CacheChange ==
  ASSUME AnyInv, StillAbsent, [Next]_vars, cache' # cache
  PROVE  \E t \in Threads :
           /\ Store(t) /\ t[2] = 0 /\ phase[t[1]] = "shared" /\ pos[t] < 8
           /\ Wanted(t) \in Keys /\ cache[Wanted(t)] = Absent /\ held[t] \in Answers
<1>1. PICK t \in Threads : Store(t)
  BY DEF Next, Cached, Hit, Miss, Produce, Skip, AskPort, Raise, Begin, Complete, Start,
         CallStep, Submit, YieldNext, Unwind, GiveUp, Finish, Change, vars
<1>2. stage[t] = "store" /\ pos[t] < End(t)
  BY <1>1 DEF Store, AtCall
<1>3. t[2] = 0 /\ phase[t[1]] = "shared" /\ pos[t] < 8 /\ held[t] \in Answers
  BY <1>2 DEF AnyInv, OnlyCallersProbe
<1>4. Wanted(t) \in Keys /\ cache[Wanted(t)] = Absent
  BY <1>2, <1>3, WantedType DEF AnyInv, StillAbsent
<1> QED BY <1>1, <1>3, <1>4

LEMMA SerialInit == Init => SerialInv
BY DEF Init, SerialInv, OneActive, StillAbsent, ShownIsCached, Active, Absent

LEMMA SerialStep ==
  ASSUME ~Overlap, AnyInv, SerialInv, [Next]_vars
  PROVE  SerialInv'
<1> USE CollectAssumption
<1>1. TypeOK /\ TypeOK'
  BY TypeStep DEF AnyInv
<1>2. OneActive'
  <2>1. CASE \E c \in Collections : Start(c)
    <3> PICK c \in Collections : Start(c)
        BY <2>1
    <3>1. (\A d \in Collections : ~Active(d)) /\ phase' = [phase EXCEPT ![c] = "shared"]
      BY DEF Start
    <3> QED BY <3>1, <1>1 DEF OneActive, Active, TypeOK
  <2>2. CASE ~\E c \in Collections : Start(c)
    <3>1. \A c \in Collections : Active(c)' => Active(c)
      <4>1. CASE \E t \in Threads : Raise(t)
        BY <4>1, <1>1, ThreadShape DEF Raise, Active, TypeOK
      <4>2. CASE ~\E t \in Threads : Raise(t)
        BY <4>2, <2>2, <1>1 DEF Next, Cached, Hit, Miss, Produce, Store, Skip, AskPort, Begin,
           Complete, CallStep, Submit, YieldNext, Unwind, GiveUp, Finish, Change, vars,
           Active, TypeOK, callVars
      <4> QED BY <4>1, <4>2
    <3> QED BY <3>1 DEF SerialInv, OneActive
  <2> QED BY <2>1, <2>2
<1>3. StillAbsent'
  <2> SUFFICES ASSUME NEW t \in Threads, stage'[t] # "lookup" PROVE cache'[Wanted(t)'] = Absent
      BY DEF StillAbsent
  <2>1. CASE Miss(t)
    BY <2>1 DEF Miss, Wanted, Program
  <2>2. CASE ~Miss(t)
    <3>1. stage[t] # "lookup"
      <4>1. CASE \E u \in Threads : Cached(u) \/ Raise(u)
        <5> PICK u \in Threads : Cached(u) \/ Raise(u)
            BY <4>1
        <5> QED BY <2>2, <1>1 DEF Cached, Hit, Miss, Produce, Store, Skip, AskPort, Raise,
                                  AtCall, TypeOK
      <4> QED BY <4>1, ThreadSteps
    <3>2. cache[Wanted(t)] = Absent /\ t[2] = 0 /\ phase[t[1]] = "shared"
      BY <3>1 DEF SerialInv, StillAbsent, AnyInv, OnlyCallersProbe
    <3>3. Wanted(t)' = Wanted(t)
      <4>1. pos'[t] = pos[t]
        <5>1. CASE \E u \in Threads : Cached(u) \/ Raise(u)
          <6> PICK u \in Threads : Cached(u) \/ Raise(u)
              BY <5>1
          <6> QED BY <3>1, <1>1 DEF Cached, Hit, Miss, Produce, Store, Skip, AskPort, Raise,
                                    Take, AtCall, TypeOK
        <5> QED BY <5>1, ThreadSteps
      <4> QED BY <4>1 DEF Wanted, Program
    <3>4. cache' = cache
      <4> SUFFICES ASSUME cache' # cache PROVE FALSE
          OBVIOUS
      <4>1. PICK u \in Threads : Store(u) /\ u[2] = 0 /\ phase[u[1]] = "shared"
        BY CacheChange DEF SerialInv
      <4>2. u = t
        BY <3>2, <4>1, ThreadShape DEF SerialInv, OneActive, Active
      <4> QED BY <4>1, <4>2, <1>1 DEF Store, TypeOK
    <3> QED BY <3>2, <3>3, <3>4
  <2> QED BY <2>1, <2>2
<1>4. ShownIsCached'
  <2> SUFFICES ASSUME NEW t \in PortThreads, NEW p \in Steps, seen'[t][p] # Absent
               PROVE  PortProgram[p] \in JobKeys /\ seen'[t][p] = cache'[PortProgram[p]]
      BY DEF ShownIsCached
  <2>1. CASE seen'[t][p] = seen[t][p]
    <3>1. PortProgram[p] \in JobKeys /\ seen[t][p] = cache[PortProgram[p]] /\ seen[t][p] # Absent
      BY <2>1 DEF SerialInv, ShownIsCached
    <3>2. cache'[PortProgram[p]] = cache[PortProgram[p]]
      <4>1. CASE cache' # cache
        <5>1. PICK u \in Threads : Store(u) /\ cache[Wanted(u)] = Absent
          BY <4>1, CacheChange DEF SerialInv
        <5> QED BY <5>1, <3>1, <1>1 DEF Store, TypeOK
      <4> QED BY <4>1
    <3> QED BY <2>1, <3>1, <3>2
  <2>2. CASE seen'[t][p] # seen[t][p]
    <3>1. Hit(t) \/ Skip(t) \/ AskPort(t)
      <4>1. PICK u \in Threads : Cached(u) \/ Raise(u)
        BY <2>2, ThreadSteps
      <4>2. Hit(u) \/ Skip(u) \/ AskPort(u)
        BY <2>2, <4>1 DEF Cached, Miss, Produce, Store, Raise
      <4>3. \E a \in Answers \cup {Absent} : seen' = IF u[2] = 0 THEN seen ELSE [seen EXCEPT ![u][pos[u]] = a]
        <5>1. CASE Hit(u)
          BY <5>1, <1>1 DEF Hit, Take, TypeOK
        <5>2. CASE Skip(u) \/ AskPort(u)
          BY <5>2 DEF Skip, AskPort, Take
        <5> QED BY <4>2, <5>1, <5>2
      <4>4. u = t
        BY <2>2, <4>3, <1>1, ThreadShape DEF TypeOK
      <4> QED BY <4>2, <4>4
    <3>2. t[2] # 0 /\ t \in Threads /\ pos[t] < End(t)
      BY <3>1, ThreadShape DEF Hit, Skip, AskPort, AtCall
    <3>3. pos[t] \in Steps
      BY <3>2, <1>1, WantedType
    <3>4. Hit(t) /\ p = pos[t] /\ seen'[t][p] = cache[Wanted(t)] /\ cache' = cache
      BY <3>1, <3>2, <3>3, <2>2, <1>1 DEF Hit, Skip, AskPort, Take, TypeOK, Steps
    <3>5. Wanted(t) = PortProgram[p] /\ Wanted(t) \in Keys
      BY <3>2, <3>4 DEF Hit, Wanted, Program
    <3> QED BY <3>4, <3>5, PortKeys DEF JobKeys
  <2> QED BY <2>1, <2>2
<1> QED BY <1>2, <1>3, <1>4 DEF SerialInv

LEMMA SerialInvariant ==
  ASSUME ~Overlap
  PROVE  Spec => [](AnyInv /\ SerialInv)
<1>1. Init => AnyInv /\ SerialInv
  BY AnyInit, SerialInit
<1>2. AnyInv /\ SerialInv /\ [Next]_vars => (AnyInv /\ SerialInv)'
  BY AnyStep, SerialStep
<1> QED BY <1>1, <1>2, PTL DEF Spec

\* With one call at a time the check of Context.cached stays true until the
\* store: the machine is asked at most once for each shared answer.
THEOREM AskedOnce ==
  ASSUME ~Overlap
  PROVE  Spec => []StillAbsent
<1>1. AnyInv /\ SerialInv => StillAbsent
  BY DEF SerialInv
<1> QED BY <1>1, SerialInvariant, PTL

\* pipeline.py:12-13, with one call at a time: no step changes the cache while
\* a port job runs.
THEOREM ReadOnlyInPhaseTwo ==
  ASSUME ~Overlap
  PROVE  Spec => CacheReadOnly
<1>1. AnyInv /\ SerialInv /\ [Next]_vars
        => [(\E t \in PortThreads : job[t] = "running") => cache' = cache]_vars
  <2> SUFFICES ASSUME AnyInv, SerialInv, [Next]_vars, NEW t \in PortThreads,
                      job[t] = "running", cache' # cache
               PROVE  FALSE
      OBVIOUS
  <2>1. PICK u \in Threads : u[2] = 0 /\ phase[u[1]] = "shared"
    BY CacheChange DEF SerialInv
  <2>2. phase[t[1]] \in {"ports", "unwind"} /\ t[1] \in Collections /\ u[1] \in Collections
    BY ThreadShape DEF AnyInv, JobPhase
  <2> QED BY <2>1, <2>2 DEF SerialInv, OneActive, Active
<1> QED BY <1>1, SerialInvariant, PTL DEF CacheReadOnly, Spec

-----------------------------------------------------------------------------
(* Refinement                                                              *)

\* A returned call shows, for each shared key, the cached answer or nothing.
LEMMA UsedIsCached ==
  ASSUME AnyInv, SerialInv, NEW c \in Collections, NEW k \in JobKeys
  PROVE  Used(c, k) = {} \/ (Used(c, k) = {cache[k]} /\ cache[k] # Absent)
<1> SUFFICES ASSUME NEW a \in Used(c, k) PROVE a = cache[k] /\ a # Absent
    OBVIOUS
<1>1. PICK t \in JobsOf(c), p \in {q \in Steps : PortProgram[q] = k} : a = seen[t][p] /\ a # Absent
  BY DEF Used
<1>2. t \in PortThreads
  BY CollectAssumption DEF JobsOf, PortThreads, Ports, AnyInv, TypeOK
<1> QED BY <1>1, <1>2 DEF SerialInv, ShownIsCached

\* What a returned call shows does not change any more.
LEMMA ReturnedIsStable ==
  ASSUME AnyInv, AnyInv', [Next]_vars, NEW c \in Collections, phase[c] = "returned"
  PROVE  phase'[c] = "returned" /\ \A k \in JobKeys : Used(c, k)' = Used(c, k)
<1> USE CollectAssumption
<1>1. TypeOK /\ TypeOK'
  BY DEF AnyInv
<1>2. \A t \in Threads : Running(t) /\ t[2] = 0 => phase[t[1]] = "shared"
  BY DEF Running
<1>3. phase'[c] = "returned" /\ count'[c] = count[c]
  <2>1. CASE \E t \in Threads : Cached(t) \/ Raise(t)
    BY <2>1, <1>1, <1>2, ThreadShape DEF Cached, Hit, Miss, Produce, Store, Skip, AskPort,
       Raise, callVars, TypeOK
  <2>2. CASE ~\E t \in Threads : Cached(t) \/ Raise(t)
    BY <2>2, <1>1 DEF Next, Begin, Complete, Start, CallStep, Submit, YieldNext, Unwind,
       GiveUp, Finish, Change, vars, callVars, TypeOK
  <2> QED BY <2>1, <2>2
<1>4. \A t \in JobsOf(c) : t \in PortThreads /\ t[1] = c /\ t[2] # 0
  BY <1>1 DEF JobsOf, PortThreads, Ports, TypeOK
<1>5. \A t \in JobsOf(c) : seen'[t] = seen[t]
  <2> SUFFICES ASSUME NEW t \in JobsOf(c), seen'[t] # seen[t] PROVE FALSE
      OBVIOUS
  <2>1. PICK u \in Threads : Cached(u) \/ Raise(u)
    BY ThreadSteps
  <2>2. Running(u) /\ seen' # seen
    BY <2>1 DEF Cached, Hit, Miss, Produce, Store, Skip, AskPort, Raise, AtCall
  <2>3. u[2] # 0 /\ u = t
    BY <2>1, <1>1, <1>4 DEF Cached, Hit, Miss, Produce, Store, Skip, AskPort, Raise, Take, TypeOK
  <2>4. job[t] = "running"
    BY <2>2, <2>3, <1>4 DEF Running
  <2> QED BY <2>4, <1>4 DEF AnyInv, JobPhase
<1>6. JobsOf(c)' = JobsOf(c)
  BY <1>3 DEF JobsOf
<1> QED BY <1>3, <1>5, <1>6 DEF Used

\* One call at a time implements the atomic specification MachineAnswers: one
\* answer per shared key for the life of the process, repeated by every port
\* of every report.
THEOREM CollectImplements ==
  ASSUME ~Overlap
  PROVE  Spec => Implements
<1>1. Init => Abstract!Init
  BY DEF Init, Abstract!Init, Abstract!Pending, Abstract!NotAsked, Absent, JobKeys, Keys, Shown
<1>2. AnyInv /\ SerialInv /\ (AnyInv /\ SerialInv)' /\ [Next]_vars
        => [Abstract!Next]_<<[k \in JobKeys |-> cache[k]], [c \in Collections |-> Shown(c)]>>
  <2> SUFFICES ASSUME AnyInv, SerialInv, AnyInv', SerialInv', [Next]_vars
               PROVE  \/ Abstract!Next
                      \/ /\ [k \in JobKeys |-> cache[k]]' = [k \in JobKeys |-> cache[k]]
                         /\ [c \in Collections |-> Shown(c)]' = [c \in Collections |-> Shown(c)]
      OBVIOUS
  <2>0. TypeOK /\ TypeOK'
    BY DEF AnyInv
  <2>1. ASSUME NEW c \in Collections, ~Finish(c) PROVE Shown(c)' = Shown(c)
    <3>1. CASE phase[c] = "returned"
      BY <3>1, ReturnedIsStable DEF Shown
    <3>2. CASE phase[c] # "returned"
      <4>1. phase'[c] # "returned"
        <5>1. CASE \E t \in Threads : Cached(t) \/ Raise(t)
          BY <3>2, <5>1, <2>0 DEF Cached, Hit, Miss, Produce, Store, Skip, AskPort, Raise,
             callVars, TypeOK
        <5>2. CASE \E d \in Collections : Start(d) \/ CallStep(d)
          BY <3>2, <2>1, <5>2, <2>0 DEF Start, CallStep, Submit, YieldNext, Unwind, GiveUp,
             Finish, TypeOK
        <5>3. CASE Change \/ UNCHANGED vars \/ \E t \in PortThreads : Begin(t) \/ Complete(t)
          BY <3>2, <5>3 DEF Begin, Complete, Change, vars, callVars
        <5> QED BY <5>1, <5>2, <5>3 DEF Next
      <4> QED BY <3>2, <4>1 DEF Shown
    <3> QED BY <3>1, <3>2
  <2>2. CASE cache' # cache
    <3>1. PICK t \in Threads : /\ Store(t) /\ Wanted(t) \in Keys /\ cache[Wanted(t)] = Absent
                               /\ held[t] \in Answers
      BY <2>2, CacheChange DEF SerialInv
    <3>2. cache' = [cache EXCEPT ![Wanted(t)] = held[t]] /\ phase' = phase
      BY <3>1 DEF Store, callVars
    <3>3. [c \in Collections |-> Shown(c)]' = [c \in Collections |-> Shown(c)]
      <4>1. \A c \in Collections : ~Finish(c)
        BY <3>2, <2>0 DEF Finish, TypeOK
      <4> QED BY <4>1, <2>1
    <3>4. CASE Wanted(t) \in JobKeys
      <4> DEFINE before == [k \in JobKeys |-> cache[k]]
      <4>1. before[Wanted(t)] = Abstract!NotAsked
        BY <3>1, <3>4 DEF Abstract!NotAsked, Absent
      <4>2. before' = [before EXCEPT ![Wanted(t)] = held[t]]
        BY <3>2, <3>4, <2>0 DEF TypeOK, JobKeys, Keys
      <4>3. \E k \in JobKeys : Abstract!Ask(k)
        BY <3>1, <3>3, <3>4, <4>1, <4>2 DEF Abstract!Ask
      <4> QED BY <4>3 DEF Abstract!Next
    <3>5. CASE Wanted(t) \notin JobKeys
      BY <3>2, <3>3, <3>5, <2>0 DEF TypeOK, JobKeys, Keys
    <3> QED BY <3>4, <3>5
  <2>3. CASE cache' = cache /\ \E c \in Collections : Finish(c)
    <3>1. PICK c \in Collections : Finish(c)
      BY <2>3
    <3>2. /\ phase[c] = "ports" /\ phase'[c] = "returned" /\ seen' = seen /\ count' = count
          /\ \A d \in Collections : d # c => ~Finish(d)
      BY <3>1, <2>0 DEF Finish, TypeOK, threadVars
    <3>3. Shown(c) = Abstract!Pending
      BY <3>2 DEF Shown, Abstract!Pending, Abstract!NotAsked, Absent
    <3>4. Shown(c)' = [k \in JobKeys |-> Used(c, k)]
      BY <3>2 DEF Shown, Used, JobsOf
    <3> DEFINE shown == {k \in JobKeys : Used(c, k) # {}}
    <3>5. shown \in SUBSET {k \in JobKeys : [j \in JobKeys |-> cache[j]][k] # Abstract!NotAsked}
      BY UsedIsCached DEF Abstract!NotAsked, Absent
    <3>6. Shown(c)' = [k \in JobKeys |-> IF k \in shown THEN {[j \in JobKeys |-> cache[j]][k]} ELSE {}]
      BY <3>4, UsedIsCached
    <3>7. [d \in Collections |-> Shown(d)]'
            = [[d \in Collections |-> Shown(d)] EXCEPT ![c] = Shown(c)']
      BY <3>2, <2>1
    <3>8. Abstract!Deliver(c)
      BY <2>3, <3>3, <3>5, <3>6, <3>7 DEF Abstract!Deliver
    <3> QED BY <3>8 DEF Abstract!Next
  <2>4. CASE cache' = cache /\ ~\E c \in Collections : Finish(c)
    BY <2>4, <2>1
  <2> QED BY <2>2, <2>3, <2>4
<1> QED
  BY <1>1, <1>2, SerialInvariant, PTL DEF Implements, Abstract!Spec, Spec
=============================================================================
