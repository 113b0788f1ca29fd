------------------------------ MODULE Collect ------------------------------
(***************************************************************************)
(* collectors/pipeline.py: calls of collect() on one shared Context.       *)
(*                                                                         *)
(* A collection is one call.  Its thread 0 is the caller: it fills the     *)
(* context cache (phase 1), then hands one job per port to a pool of       *)
(* threads (phase 2), waits for the jobs in input order and evaluates.     *)
(* Thread i of a collection is the job of its i-th port.  The only state   *)
(* that threads share is Context._cache, which Context.cached() reads and  *)
(* fills with a check followed by a slow probe followed by a store.        *)
(*                                                                         *)
(* Data: an answer of the outside world is the version of the world it     *)
(* was taken from.  A failing probe is an answer like any other, because   *)
(* cached() keeps a failure exactly as it keeps a value.                   *)
(***************************************************************************)
EXTENDS Integers, Sequences, FiniteSets

CONSTANTS
  Collections,   \* the calls of collect() in the life of the process
  MaxPorts,      \* bound: ports that one collection may list
  Jobs,          \* --jobs
  Overlap,       \* may a collection start while another one runs
  SkipRoot,      \* --no-root on an unprivileged run
  MaxWorld       \* bound: changes of the machine

ASSUME CollectAssumption ==
  /\ MaxPorts \in Nat /\ Jobs \in Nat \ {0} /\ MaxWorld \in Nat
  /\ Overlap \in BOOLEAN /\ SkipRoot \in BOOLEAN

VARIABLES
  world,    \* version of the machine
  cache,    \* Context._cache: key -> answer, or Absent
  phase,    \* of each collection
  count,    \* len(names) of each collection
  pos,      \* of each thread: index in its program
  stage,    \* of each thread: where it is inside Context.cached
  held,     \* of each thread: what produce() returned, before the store
  seen,     \* of each port thread: the shared answers it used, by index
  job,      \* of each port thread: its future in the pool
  yielded   \* of each collection: results taken from pool.map (progress)

threadVars == <<pos, stage, held, seen>>
callVars   == <<phase, count, yielded>>
vars == <<world, cache, phase, count, pos, stage, held, seen, job, yielded>>

-----------------------------------------------------------------------------
(* Programs                                                                *)

Absent  == -1
Answers == 0 .. MaxWorld
Ports   == 1 .. MaxPorts
Threads == Collections \X (0 .. MaxPorts)
Main(c) == <<c, 0>>
PortThreads == Collections \X Ports

\* Deviation for a mutant: phase 1 forgets the kernel answer.
SharedProgram_NoKernel == <<"ethtool:version", "ethtool:json", "lspci", "lspci",
                            "dmi:labels", "tsn:table", "device:table">>
\* The context-cache keys, in the order in which phase 1 asks for them.
SharedProgram == <<"ethtool:version", "ethtool:json", "lspci", "kernel:ptm",
                   "dmi:labels", "tsn:table", "device:table">>
Keys == {"ethtool:version", "ethtool:json", "lspci", "kernel:ptm",
         "dmi:labels", "tsn:table", "device:table"}
\* Tables shipped in the package: their content cannot change.
StaticKeys == {"tsn:table", "device:table"}

\* What one port job consults, in order.  "port" stands for the calls about
\* that port alone (udev, ethtool -i, ethtool <dev>, ethtool -T).
PortProgram == <<"port", "ethtool:json", "kernel:ptm", "lspci",
                 "ethtool:json", "tsn:table">>
ScanStep == 4
Steps == 1 .. 6

Program(t) == IF t[2] = 0 THEN SharedProgram ELSE PortProgram
End(t)     == IF t[2] = 0 THEN 8 ELSE 7
Wanted(t)  == Program(t)[pos[t]]

\* `if names:` guards the --json probe; --no-root answers lspci without the
\* cache; a job skips its first --json use when ethtool -T printed nothing and
\* skips the scan when the port is not a PCI device.
MaySkip(t) ==
  \/ t[2] = 0 /\ pos[t] = 2 /\ count[t[1]] = 0
  \/ Wanted(t) = "lspci" /\ SkipRoot
  \/ t[2] # 0 /\ pos[t] \in {2, ScanStep}
MustSkip(t) ==
  \/ t[2] = 0 /\ pos[t] = 2 /\ count[t[1]] = 0
  \/ Wanted(t) = "lspci" /\ SkipRoot

Observe(key) == IF key \in StaticKeys THEN 0 ELSE world

-----------------------------------------------------------------------------
(* State                                                                   *)

Phases == {"idle", "shared", "ports", "unwind", "returned", "raised"}
JobStates == {"none", "queued", "running", "done", "raised", "cancelled"}
Active(c) == phase[c] \in {"shared", "ports", "unwind"}

Running(t) == IF t[2] = 0 THEN phase[t[1]] = "shared" ELSE job[t] = "running"

TypeOK ==
  /\ world \in Answers
  /\ cache \in [Keys -> Answers \cup {Absent}]
  /\ phase \in [Collections -> Phases]
  /\ count \in [Collections -> 0 .. MaxPorts]
  /\ pos \in [Threads -> 1 .. 8]
  /\ stage \in [Threads -> {"lookup", "produce", "store"}]
  /\ held \in [Threads -> Answers \cup {Absent}]
  /\ seen \in [PortThreads -> [Steps -> Answers \cup {Absent}]]
  /\ job \in [PortThreads -> JobStates]
  /\ yielded \in [Collections -> 0 .. MaxPorts]

Init ==
  /\ world = 0
  /\ cache = [k \in Keys |-> Absent]
  /\ phase = [c \in Collections |-> "idle"]
  /\ count = [c \in Collections |-> 0]
  /\ pos = [t \in Threads |-> 1]
  /\ stage = [t \in Threads |-> "lookup"]
  /\ held = [t \in Threads |-> Absent]
  /\ seen = [t \in PortThreads |-> [p \in Steps |-> Absent]]
  /\ job = [t \in PortThreads |-> "none"]
  /\ yielded = [c \in Collections |-> 0]

-----------------------------------------------------------------------------
(* Context.cached, step by step                                            *)

\* Deviation for a mutant: the position is advanced twice.
Take_Twice(t, a) ==
  /\ seen' = IF t[2] = 0 THEN seen ELSE [seen EXCEPT ![t][pos[t]] = a]
  /\ pos' = [pos EXCEPT ![t] = @ + 2]
\* Thread t has the answer a of its current step and moves on.  The answers
\* that matter are those a port job writes into its Interface.
Take(t, a) ==
  /\ seen' = IF t[2] = 0 THEN seen ELSE [seen EXCEPT ![t][pos[t]] = a]
  /\ pos' = [pos EXCEPT ![t] = @ + 1]

AtCall(t, s) == Running(t) /\ pos[t] < End(t) /\ stage[t] = s

\* `return self._cache[key]`: the key is there.
Hit(t) ==
  /\ AtCall(t, "lookup") /\ ~MustSkip(t)
  /\ Wanted(t) \in Keys /\ cache[Wanted(t)] # Absent
  /\ Take(t, cache[Wanted(t)])
  /\ UNCHANGED <<world, cache, stage, held, job, callVars>>

\* Deviation for a mutant: the memo never says that it has an answer, so the
\* machine is asked again.
Miss_Always(t) ==
  /\ AtCall(t, "lookup") /\ ~MustSkip(t) /\ Wanted(t) \in Keys
  /\ stage' = [stage EXCEPT ![t] = "produce"]
  /\ UNCHANGED <<world, cache, pos, held, seen, job, callVars>>
\* `if key not in self._cache` is true: this thread commits to produce().
Miss(t) ==
  /\ AtCall(t, "lookup") /\ ~MustSkip(t)
  /\ Wanted(t) \in Keys /\ cache[Wanted(t)] = Absent
  /\ stage' = [stage EXCEPT ![t] = "produce"]
  /\ UNCHANGED <<world, cache, pos, held, seen, job, callVars>>

\* produce() asks the machine.
Produce(t) ==
  /\ AtCall(t, "produce")
  /\ held' = [held EXCEPT ![t] = Observe(Wanted(t))]
  /\ stage' = [stage EXCEPT ![t] = "store"]
  /\ UNCHANGED <<world, cache, pos, seen, job, callVars>>

\* The assignment to self._cache[key]; the answer is then read back by Hit.
Store(t) ==
  /\ AtCall(t, "store")
  /\ cache' = [cache EXCEPT ![Wanted(t)] = held[t]]
  /\ held' = [held EXCEPT ![t] = Absent]
  /\ stage' = [stage EXCEPT ![t] = "lookup"]
  /\ UNCHANGED <<world, pos, seen, job, callVars>>

\* A step that the code's conditions leave out.
Skip(t) ==
  /\ AtCall(t, "lookup") /\ MaySkip(t)
  /\ Take(t, Absent)
  /\ UNCHANGED <<world, cache, stage, held, job, callVars>>

\* The calls about one port.  No cache answers them and no other port sees
\* what they return, so the answer itself is left out.
AskPort(t) ==
  /\ AtCall(t, "lookup") /\ Wanted(t) = "port"
  /\ Take(t, Absent)
  /\ UNCHANGED <<world, cache, stage, held, job, callVars>>

\* A call raises: subprocess.run with text=True on output that is not UTF-8.
\* Bound: of the calls about one port, the first.  A later one ends the job in
\* the same way, and nothing but its own port shows how far it got.
Raise(t) ==
  /\ Running(t) /\ pos[t] < End(t)
  /\ stage[t] = "produce" \/ Wanted(t) = "port"
  /\ IF t[2] = 0
       THEN phase' = [phase EXCEPT ![t[1]] = "raised"] /\ job' = job
       ELSE job' = [job EXCEPT ![t] = "raised"] /\ phase' = phase
  /\ stage' = [stage EXCEPT ![t] = "lookup"]
  /\ UNCHANGED <<world, cache, pos, held, seen, count, yielded>>

-----------------------------------------------------------------------------
(* collect() and its pool                                                  *)

JobsOf(c) == {<<c, i>> : i \in 1 .. count[c]}
Workers(c) == IF Jobs > 1 /\ count[c] > 1
                THEN (IF Jobs < count[c] THEN Jobs ELSE count[c]) ELSE 1
\* Deviation for a mutant: an exception takes the worker of its job with it.
Busy_Dead(c) == {t \in JobsOf(c) : job[t] \in {"running", "raised"}}
Busy(c) == {t \in JobsOf(c) : job[t] = "running"}

\* Deviation for a mutant: nothing keeps two calls apart.
Start_Anytime(c) ==
  /\ phase[c] = "idle"
  /\ phase' = [phase EXCEPT ![c] = "shared"]
  /\ \E n \in 0 .. MaxPorts : count' = [count EXCEPT ![c] = n]
  /\ UNCHANGED <<world, cache, threadVars, job, yielded>>
\* collect() is entered, and sysfs lists n interfaces.
Start(c) ==
  /\ phase[c] = "idle"
  /\ Overlap \/ \A d \in Collections : ~Active(d)
  /\ phase' = [phase EXCEPT ![c] = "shared"]
  /\ \E n \in 0 .. MaxPorts : count' = [count EXCEPT ![c] = n]
  /\ UNCHANGED <<world, cache, threadVars, job, yielded>>

\* Phase 1 is over: pool.map submits every port, in input order.
Submit(c) ==
  /\ phase[c] = "shared" /\ pos[Main(c)] = End(Main(c))
  /\ phase' = [phase EXCEPT ![c] = "ports"]
  /\ job' = [t \in PortThreads |-> IF t \in JobsOf(c) THEN "queued" ELSE job[t]]
  /\ UNCHANGED <<world, cache, threadVars, count, yielded>>

\* A free pool thread takes the oldest queued job.  Without a pool the caller
\* runs the jobs itself, and an exception ends its loop.
Begin(t) ==
  /\ job[t] = "queued" /\ phase[t[1]] = "ports"
  /\ \A u \in JobsOf(t[1]) : job[u] = "queued" => t[2] <= u[2]
  /\ Cardinality(Busy(t[1])) < Workers(t[1])
  /\ Workers(t[1]) = 1 => \A u \in JobsOf(t[1]) : job[u] # "raised"
  /\ job' = [job EXCEPT ![t] = "running"]
  /\ UNCHANGED <<world, cache, threadVars, callVars>>

Complete(t) ==
  /\ job[t] = "running" /\ pos[t] = End(t)
  /\ job' = [job EXCEPT ![t] = "done"]
  /\ UNCHANGED <<world, cache, threadVars, callVars>>

\* Deviation for a mutant: a job that raised counts as a result.
YieldNext_AnyEnd(c) ==
  /\ phase[c] = "ports" /\ yielded[c] < count[c]
  /\ job[<<c, yielded[c] + 1>>] \in {"done", "raised"}
  /\ yielded' = [yielded EXCEPT ![c] = @ + 1]
  /\ UNCHANGED <<world, cache, threadVars, job, phase, count>>
\* `for iface in pool.map(...)`: the next result, in input order, is there.
YieldNext(c) ==
  /\ phase[c] = "ports" /\ yielded[c] < count[c]
  /\ job[<<c, yielded[c] + 1>>] = "done"
  /\ yielded' = [yielded EXCEPT ![c] = @ + 1]
  /\ UNCHANGED <<world, cache, threadVars, job, phase, count>>

\* The next result is an exception: map() cancels what has not begun, and
\* leaving the `with` block then waits for what has.
Unwind(c) ==
  /\ phase[c] = "ports" /\ yielded[c] < count[c]
  /\ job[<<c, yielded[c] + 1>>] = "raised"
  /\ phase' = [phase EXCEPT ![c] = "unwind"]
  /\ job' = [t \in PortThreads |-> IF t \in JobsOf(c) /\ job[t] = "queued"
                                     THEN "cancelled" ELSE job[t]]
  /\ UNCHANGED <<world, cache, threadVars, count, yielded>>

\* Deviation for a mutant: the exception leaves without waiting for the pool.
GiveUp_NoWait(c) ==
  /\ phase[c] = "unwind"
  /\ phase' = [phase EXCEPT ![c] = "raised"]
  /\ UNCHANGED <<world, cache, threadVars, job, count, yielded>>
\* The exception leaves collect(): of a job, once the pool is empty, or of
\* labels.apply() or evaluate() when every port is in.
GiveUp(c) ==
  /\ \/ phase[c] = "unwind" /\ Busy(c) = {}
     \/ phase[c] = "ports" /\ yielded[c] = count[c]
  /\ phase' = [phase EXCEPT ![c] = "raised"]
  /\ UNCHANGED <<world, cache, threadVars, job, count, yielded>>

\* Every port is in: labels, evaluation, sort, return.
Finish(c) ==
  /\ phase[c] = "ports" /\ yielded[c] = count[c]
  /\ phase' = [phase EXCEPT ![c] = "returned"]
  /\ UNCHANGED <<world, cache, threadVars, job, count, yielded>>

\* Environment: a cable, a driver, a timeout.  Bounded by MaxWorld.
Change ==
  /\ world < MaxWorld /\ world' = world + 1
  /\ UNCHANGED <<cache, phase, count, threadVars, job, yielded>>

Cached(t) == Hit(t) \/ Miss(t) \/ Produce(t) \/ Store(t) \/ Skip(t) \/ AskPort(t)
CallStep(c) == Submit(c) \/ YieldNext(c) \/ Unwind(c) \/ GiveUp(c) \/ Finish(c)

Next ==
  \/ \E t \in Threads : Cached(t) \/ Raise(t)
  \/ \E t \in PortThreads : Begin(t) \/ Complete(t)
  \/ \E c \in Collections : Start(c) \/ CallStep(c)
  \/ Change

\* The OS runs every thread, and a command has a timeout.
Fairness ==
  /\ \A t \in Threads : WF_vars(Cached(t))
  /\ \A t \in PortThreads : WF_vars(Begin(t) \/ Complete(t))
  /\ \A c \in Collections : WF_vars(CallStep(c))

Spec == Init /\ [][Next]_vars
FairSpec == Spec /\ Fairness

-----------------------------------------------------------------------------
(* Properties                                                              *)

\* pipeline.py:11-13: "The context cache is read-only by now, so the workers
\* do not race for it."  While the jobs of any collection run, no step of
\* anybody changes the cache.
CacheReadOnly ==
  [][(\E t \in PortThreads : job[t] = "running") => cache' = cache]_vars

\* Phase 1 asks for everything that a port job will look up: no job ever has
\* to probe the machine for a shared answer itself.
JobsOnlyHit == \A t \in PortThreads : job[t] = "running" => stage[t] = "lookup"

\* The check of Context.cached is still true when it is acted upon: nobody asks
\* the machine for, or overwrites, an answer that is already in the cache.
StillAbsent ==
  \A t \in Threads : stage[t] # "lookup" => cache[Wanted(t)] = Absent

\* When collect() has ended, with a report or with an exception, no job of it
\* runs or can still begin: nothing writes to a port behind the caller's back.
NoStrayJob ==
  \A c \in Collections : phase[c] \in {"returned", "raised"} =>
    \A t \in PortThreads : t[1] = c => job[t] \notin {"queued", "running"}

\* A report that is returned is whole: every port went through its whole
\* program before labels.apply() and evaluate() saw it.
WholeReport ==
  \A c \in Collections : phase[c] = "returned" =>
    \A t \in JobsOf(c) : job[t] = "done" /\ pos[t] = End(t)

\* Every collection that begins comes to an end, whatever raises on the way.
Ends ==
  \A c \in Collections : Active(c) ~> phase[c] \in {"returned", "raised"}

\* The answers that a returned report shows for a shared key: those its jobs used.
JobKeys == {"ethtool:json", "lspci", "kernel:ptm", "tsn:table"}
Used(c, k) ==
  {seen[t][p] : t \in JobsOf(c), p \in {q \in Steps : PortProgram[q] = k}} \ {Absent}
Shown(c) ==
  [k \in JobKeys |-> IF phase[c] = "returned" THEN Used(c, k) ELSE {Absent}]

\* collect() implements the atomic specification of shared answers.
Abstract == INSTANCE MachineAnswers
              WITH Keys <- JobKeys,
                   shared <- [k \in JobKeys |-> cache[k]],
                   report <- [c \in Collections |-> Shown(c)]
Implements == Abstract!Spec
=============================================================================
