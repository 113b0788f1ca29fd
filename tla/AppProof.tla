------------------------------ MODULE AppProof ------------------------------
(***************************************************************************)
(* What holds of the interface for any number of collections and poll      *)
(* threads, ports and changes of a link: the panes agree with the report,  *)
(* and a readiness row fits the link beside it.                            *)
(***************************************************************************)
EXTENDS App, TLAPS

\* What a link that did not change since makes of an object that is complete.
Fits(o, i) ==
  /\ o.link = world[i]
  /\ o.speed = (world[i] = "up") \/ o.speed = SysfsSpeed(i, world[i])
  /\ o.verdict = IF world[i] = "up" THEN "pass" ELSE "warn"

\* The threads and the dialog work on collections that were applied.
Applied(c) == c \in Collections /\ phase[c] = "applied"
Shape ==
  /\ report # None => Applied(report)
  /\ \A w \in Pollers : poll[w].of # None => report # None /\ Applied(poll[w].of)
  /\ dialog # None => report # None /\ dialog[1] \in Collections /\ dialog[2] \in Ports
                      /\ Applied(dialog[1])
  /\ \A c \in Collections : asof[c] <= changes

\* A thread has read a link only of a port of a report.
PollSane ==
  \A w \in Pollers : poll[w].got # "none" => poll[w].of # None /\ poll[w].port \in Ports

\* How far a collection is, and what its objects then hold.
Fresh(c) == asof[c] = changes
Progress ==
  \A c \in Collections, i \in Ports : Fresh(c) =>
    /\ phase[c] \in {"read", "asked", "labelled", "posted"} => obj[c][i].link = world[i]
    /\ phase[c] = "read" => obj[c][i].speed = SysfsSpeed(i, world[i])
    /\ phase[c] \in {"asked", "labelled", "posted"} => obj[c][i].speed = (world[i] = "up")
    /\ phase[c] \in {"posted", "applied"} => Fits(obj[c][i], i)
Polled ==
  \A w \in Pollers : poll[w].of # None /\ poll[w].got # "none" /\ Fresh(poll[w].of) =>
    poll[w].got = world[poll[w].port]
Screened == report # None /\ Fresh(report) => \A i \in Ports : Fits(screen[i], i)

AppInv == TypeOK /\ Shape /\ PollSane /\ ScreenIsReport /\ Progress /\ Polled /\ Screened

-----------------------------------------------------------------------------
(* Types                                                                   *)

USE AppAssumption

LEMMA BlankIsObject == Blank \in Objects
BY DEF Blank, Objects, Links, Labels

LEMMA TypeInit == Init => TypeOK
<1> SUFFICES ASSUME Init PROVE TypeOK
    OBVIOUS
<1>1. PollIdle \in PollStates
  BY DEF PollIdle, PollStates
<1>2. 0 \in 0 .. MaxChanges
  OBVIOUS
<1> QED BY <1>1, <1>2, BlankIsObject DEF Init, TypeOK, Phases

LEMMA MergedIsObject ==
  ASSUME TypeOK, NEW o \in Objects, NEW i \in Ports, NEW link \in Links
  PROVE  /\ Merged(o, i, link) \in Objects
         /\ Merged(o, i, link).link = link /\ Merged(o, i, link).speed = SysfsSpeed(i, link)
         /\ Merged(o, i, link).label = o.label /\ Merged(o, i, link).verdict = o.verdict
BY DEF Merged, Objects, SysfsSpeed, TypeOK

LEMMA JudgeIsVerdict == \A o : Judge(o) \in {"pass", "warn", "unknown"}
BY DEF Judge

\* What an action of a collection does to its objects, one by one.
LEMMA ReadLinksDoes ==
  ASSUME TypeOK, NEW c \in Collections, ReadLinks(c)
  PROVE  /\ obj' \in [Collections -> [Ports -> Objects]]
         /\ \A d \in Collections : d # c => obj'[d] = obj[d]
         /\ \A i \in Ports : /\ obj'[c][i].link = world[i]
                             /\ obj'[c][i].speed = SysfsSpeed(i, world[i])
<1> DEFINE new(i) == [Blank EXCEPT !.link = world[i], !.speed = SysfsSpeed(i, world[i])]
<1>1. ASSUME NEW i \in Ports
      PROVE  new(i) \in Objects /\ new(i).link = world[i] /\ new(i).speed = SysfsSpeed(i, world[i])
  BY BlankIsObject DEF TypeOK, Objects, SysfsSpeed
<1>2. obj' = [obj EXCEPT ![c] = [i \in Ports |-> new(i)]]
  BY DEF ReadLinks
<1>3. obj \in [Collections -> [Ports -> Objects]]
  BY DEF TypeOK
<1> HIDE DEF new
<1> QED BY <1>1, <1>2, <1>3

LEMMA AskEthtoolDoes ==
  ASSUME TypeOK, NEW c \in Collections, AskEthtool(c)
  PROVE  /\ obj' \in [Collections -> [Ports -> Objects]]
         /\ \A d \in Collections : d # c => obj'[d] = obj[d]
         /\ \A i \in Ports : /\ obj'[c][i].link = obj[c][i].link
                             /\ obj'[c][i].speed = (obj[c][i].speed \/ world[i] = "up")
<1> DEFINE new(i) == [obj[c][i] EXCEPT !.speed = @ \/ world[i] = "up"]
<1>1. obj \in [Collections -> [Ports -> Objects]]
  BY DEF TypeOK
<1>2. ASSUME NEW i \in Ports
      PROVE  /\ new(i) \in Objects /\ new(i).link = obj[c][i].link
             /\ new(i).speed = (obj[c][i].speed \/ world[i] = "up")
  <2>1. obj[c][i] \in Objects
    BY <1>1
  <2> QED BY <2>1 DEF Objects
<1>3. obj' = [obj EXCEPT ![c] = [i \in Ports |-> new(i)]]
  BY DEF AskEthtool
<1> HIDE DEF new
<1> QED BY <1>1, <1>2, <1>3

LEMMA ApplyLabelsDoes ==
  ASSUME TypeOK, NEW c \in Collections, ApplyLabels(c)
  PROVE  /\ obj' \in [Collections -> [Ports -> Objects]]
         /\ \A d \in Collections : d # c => obj'[d] = obj[d]
         /\ \A i \in Ports : obj'[c][i].link = obj[c][i].link /\ obj'[c][i].speed = obj[c][i].speed
<1> DEFINE new(i) == [obj[c][i] EXCEPT !.label = stored[i]]
<1>1. obj \in [Collections -> [Ports -> Objects]] /\ stored \in [Ports -> Labels]
  BY DEF TypeOK
<1>2. ASSUME NEW i \in Ports
      PROVE  new(i) \in Objects /\ new(i).link = obj[c][i].link /\ new(i).speed = obj[c][i].speed
  <2>1. obj[c][i] \in Objects /\ stored[i] \in Labels
    BY <1>1
  <2> QED BY <2>1 DEF Objects
<1>3. obj' = [obj EXCEPT ![c] = [i \in Ports |-> new(i)]]
  BY DEF ApplyLabels
<1> HIDE DEF new
<1> QED BY <1>1, <1>2, <1>3

LEMMA EvaluateDoes ==
  ASSUME TypeOK, NEW c \in Collections, Evaluate(c)
  PROVE  /\ obj' \in [Collections -> [Ports -> Objects]]
         /\ \A d \in Collections : d # c => obj'[d] = obj[d]
         /\ \A i \in Ports : /\ obj'[c][i].link = obj[c][i].link
                             /\ obj'[c][i].speed = obj[c][i].speed
                             /\ obj'[c][i].verdict = Judge(obj[c][i])
<1> DEFINE new(i) == [obj[c][i] EXCEPT !.verdict = Judge(obj[c][i])]
<1>1. obj \in [Collections -> [Ports -> Objects]]
  BY DEF TypeOK
<1>2. ASSUME NEW i \in Ports
      PROVE  /\ new(i) \in Objects /\ new(i).link = obj[c][i].link /\ new(i).speed = obj[c][i].speed
             /\ new(i).verdict = Judge(obj[c][i])
  <2>1. obj[c][i] \in Objects
    BY <1>1
  <2> QED BY <2>1, JudgeIsVerdict DEF Objects
<1>3. obj' = [obj EXCEPT ![c] = [i \in Ports |-> new(i)]]
  BY DEF Evaluate
<1> HIDE DEF new
<1> QED BY <1>1, <1>2, <1>3

\* A poll thread that writes has a port and a link at hand.
LEMMA PollAtHand ==
  ASSUME TypeOK, Shape, NEW w \in Pollers, poll[w].of # None
  PROVE  /\ poll[w] \in PollStates /\ poll[w].of \in Collections /\ Applied(poll[w].of)
         /\ report \in Collections /\ Applied(report)
<1>1. poll[w] \in PollStates
  BY DEF TypeOK
<1> QED BY <1>1 DEF PollStates, Shape, Applied

LEMMA PollWriteDoes ==
  ASSUME TypeOK, Shape, PollSane, NEW w \in Pollers, PollWrite(w)
  PROVE  LET d == poll[w].of
             k == poll[w].port
         IN /\ d \in Collections /\ k \in Ports /\ poll[w].got \in Links
            /\ obj' \in [Collections -> [Ports -> Objects]]
            /\ \A c \in Collections, i \in Ports :
                 /\ <<c, i>> # <<d, k>> => obj'[c][i] = obj[c][i]
                 /\ obj'[c][i].label = obj[c][i].label
                 /\ obj'[c][i].verdict = obj[c][i].verdict
            /\ obj'[d][k].link = poll[w].got /\ obj'[d][k].speed = SysfsSpeed(k, poll[w].got)
<1> DEFINE d == poll[w].of
           k == poll[w].port
           new == Merged(obj[d][k], k, poll[w].got)
<1>1. poll[w].got # "none" /\ obj' = [obj EXCEPT ![d][k] = new]
  BY DEF PollWrite
<1>2. d \in Collections /\ k \in Ports /\ poll[w].got \in Links
  <2>1. d # None /\ k \in Ports
    BY <1>1 DEF PollSane
  <2>2. poll[w] \in PollStates
    BY DEF TypeOK
  <2> QED BY <1>1, <2>1, <2>2 DEF PollStates
<1>3. obj \in [Collections -> [Ports -> Objects]]
  BY DEF TypeOK
<1>4. /\ new \in Objects /\ new.link = poll[w].got /\ new.speed = SysfsSpeed(k, poll[w].got)
      /\ new.label = obj[d][k].label /\ new.verdict = obj[d][k].verdict
  <2> DEFINE o == obj[d][k]
             link == poll[w].got
  <2>1. o \in Objects /\ k \in Ports /\ link \in Links
    BY <1>2, <1>3
  <2>2. new = Merged(o, k, link)
    OBVIOUS
  <2> HIDE DEF o, k, link, new
  <2>3. new \in Objects /\ new.link = link /\ new.speed = SysfsSpeed(k, link)
        /\ new.label = o.label /\ new.verdict = o.verdict
    BY <2>1, <2>2, MergedIsObject
  <2> QED BY <2>3 DEF o, k, link
<1> HIDE DEF d, k, new
<1>5. obj' \in [Collections -> [Ports -> Objects]]
  BY <1>1, <1>2, <1>3, <1>4
<1>6. ASSUME NEW c \in Collections, NEW i \in Ports
      PROVE  /\ <<c, i>> # <<d, k>> => obj'[c][i] = obj[c][i]
             /\ obj'[c][i].label = obj[c][i].label
             /\ obj'[c][i].verdict = obj[c][i].verdict
  BY <1>1, <1>2, <1>3, <1>4
<1>7. obj'[d][k] = new
  BY <1>1, <1>2, <1>3
<1> QED BY <1>2, <1>4, <1>5, <1>6, <1>7 DEF d, k

LEMMA SaveLabelDoes ==
  ASSUME TypeOK, Shape, SaveLabel
  PROVE  /\ report \in Collections /\ dialog[1] \in Collections /\ dialog[2] \in Ports
         /\ stored' \in [Ports -> Labels]
         /\ obj' \in [Collections -> [Ports -> Objects]]
         /\ screen' = obj'[report]
         /\ \A c \in Collections, i \in Ports :
              /\ obj'[c][i].link = obj[c][i].link /\ obj'[c][i].speed = obj[c][i].speed
              /\ obj'[c][i].verdict = obj[c][i].verdict
<1>1. report \in Collections /\ dialog[1] \in Collections /\ dialog[2] \in Ports
  BY DEF SaveLabel, Shape, Applied
<1>2. PICK label \in Labels :
        /\ stored' = [stored EXCEPT ![dialog[2]] = label]
        /\ obj' = [obj EXCEPT ![dialog[1]][dialog[2]].label = label]
  BY DEF SaveLabel
<1> DEFINE d == dialog[1]
           k == dialog[2]
           new == [obj[d][k] EXCEPT !.label = label]
<1>3. obj \in [Collections -> [Ports -> Objects]] /\ stored \in [Ports -> Labels]
  BY DEF TypeOK
<1>4. obj[d][k] \in Objects
  BY <1>1, <1>3
<1>5. /\ new \in Objects /\ new.link = obj[d][k].link /\ new.speed = obj[d][k].speed
      /\ new.verdict = obj[d][k].verdict
  BY <1>4 DEF Objects
<1>6. obj' = [obj EXCEPT ![d][k] = new]
  BY <1>2
<1>7. screen' = obj'[report]
  BY DEF SaveLabel
<1>8. stored' \in [Ports -> Labels]
  BY <1>1, <1>2, <1>3
<1> HIDE DEF d, k, new
<1>9. d \in Collections /\ k \in Ports
  BY <1>1 DEF d, k
<1> QED BY <1>1, <1>3, <1>5, <1>6, <1>7, <1>8, <1>9

-----------------------------------------------------------------------------
(* The invariant                                                           *)

LEMMA AppInit == Init => AppInv
<1> SUFFICES ASSUME Init PROVE AppInv
    OBVIOUS
<1>1. TypeOK
  BY TypeInit
<1>2. \A w \in Pollers : poll[w].of = None /\ poll[w].got = "none"
  BY DEF Init, PollIdle
<1>3. report = None /\ dialog = None /\ changes = 0
      /\ \A c \in Collections : asof[c] = 0 /\ phase[c] \in {"idle", "reading"}
  BY DEF Init
<1> QED BY <1>1, <1>2, <1>3 DEF AppInv, Shape, PollSane, ScreenIsReport, Progress, Polled, Screened

\* A step of collection c that is still on its way, and touches its own objects only.
LEMMA OwnObjects ==
  ASSUME AppInv, NEW c \in Collections, phase[c] # "applied",
         obj' \in [Collections -> [Ports -> Objects]],
         \A d \in Collections : d # c => obj'[d] = obj[d],
         NEW p \in Phases, phase' = [phase EXCEPT ![c] = p],
         asof' \in [Collections -> 0 .. MaxChanges],
         \A d \in Collections : d # c => asof'[d] = asof[d],
         asof'[c] <= changes,
         UNCHANGED <<world, gives, changes, stored, report, poll, dialog, screen>>
  PROVE  /\ TypeOK' /\ Shape' /\ PollSane' /\ ScreenIsReport' /\ Polled' /\ Screened'
         /\ \A d \in Collections : d # c => \A i \in Ports : Fresh(d)' =>
              /\ phase'[d] \in {"read", "asked", "labelled", "posted"} => obj'[d][i].link = world'[i]
              /\ phase'[d] = "read" => obj'[d][i].speed = SysfsSpeed(i, world[i])'
              /\ phase'[d] \in {"asked", "labelled", "posted"} =>
                   obj'[d][i].speed = (world'[i] = "up")
              /\ phase'[d] \in {"posted", "applied"} => Fits(obj[d][i], i)'
<1>1. TypeOK'
  BY DEF AppInv, TypeOK
<1>2. report # None => report \in Collections /\ report # c
  BY DEF AppInv, Shape, Applied
<1>3. \A w \in Pollers : poll[w].of # None => poll[w].of \in Collections /\ poll[w].of # c
  BY DEF AppInv, Shape, Applied
<1>4. \A d \in Collections : phase[d] = "applied" => phase'[d] = "applied"
  BY DEF AppInv, TypeOK
<1>5. Shape'
  BY <1>4 DEF AppInv, Shape, Applied
<1>6. PollSane' /\ ScreenIsReport'
  BY <1>2 DEF AppInv, PollSane, ScreenIsReport
<1>7. Polled'
  BY <1>3 DEF AppInv, Polled, Fresh
<1>8. Screened'
  BY <1>2 DEF AppInv, Screened, Fresh, Fits, SysfsSpeed
<1>9. \A d \in Collections : d # c => phase'[d] = phase[d]
  BY DEF AppInv, TypeOK
<1>10. ASSUME NEW d \in Collections, d # c, NEW i \in Ports, Fresh(d)'
       PROVE  /\ phase'[d] \in {"read", "asked", "labelled", "posted"} => obj'[d][i].link = world'[i]
              /\ phase'[d] = "read" => obj'[d][i].speed = SysfsSpeed(i, world[i])'
              /\ phase'[d] \in {"asked", "labelled", "posted"} =>
                   obj'[d][i].speed = (world'[i] = "up")
              /\ phase'[d] \in {"posted", "applied"} => Fits(obj[d][i], i)'
  BY <1>9, <1>10 DEF AppInv, Progress, Fresh, Fits, SysfsSpeed
<1> QED BY <1>1, <1>5, <1>6, <1>7, <1>8, <1>10

\* A step that leaves the objects, the panes and the links alone.
LEMMA QuietStep ==
  ASSUME AppInv,
         UNCHANGED <<world, gives, changes, obj, asof, report, screen>>,
         TypeOK', Shape', PollSane', Polled',
         \A c \in Collections : phase'[c] = phase[c] \/ phase'[c] \in {"idle", "reading"}
  PROVE  AppInv'
<1>1. ScreenIsReport' /\ Screened'
  BY DEF AppInv, ScreenIsReport, Screened, Fresh, Fits, SysfsSpeed
<1>2. Progress'
  BY DEF AppInv, Progress, Fresh, Fits, SysfsSpeed
<1> QED BY <1>1, <1>2 DEF AppInv

LEMMA CollectStepInv ==
  ASSUME AppInv, NEW c \in Collections, CollectStep(c)
  PROVE  AppInv'
<1>1. TypeOK /\ Shape /\ PollSane /\ phase \in [Collections -> Phases]
      /\ asof \in [Collections -> 0 .. MaxChanges] /\ changes \in 0 .. MaxChanges
  BY DEF AppInv, TypeOK
<1>2. CASE ReadLinks(c)
  <2>1. /\ phase[c] = "reading" /\ phase' = [phase EXCEPT ![c] = "read"]
        /\ asof' = [asof EXCEPT ![c] = changes]
        /\ UNCHANGED <<world, gives, changes, stored, report, poll, dialog, screen>>
    BY <1>2 DEF ReadLinks
  <2>2. "read" \in Phases /\ asof' \in [Collections -> 0 .. MaxChanges] /\ asof'[c] <= changes
        /\ \A d \in Collections : d # c => asof'[d] = asof[d]
    BY <1>1, <2>1 DEF Phases
  <2>3. /\ TypeOK' /\ Shape' /\ PollSane' /\ ScreenIsReport' /\ Polled' /\ Screened'
        /\ \A d \in Collections : d # c => \A i \in Ports : Fresh(d)' =>
             /\ phase'[d] \in {"read", "asked", "labelled", "posted"} => obj'[d][i].link = world'[i]
             /\ phase'[d] = "read" => obj'[d][i].speed = SysfsSpeed(i, world[i])'
             /\ phase'[d] \in {"asked", "labelled", "posted"} =>
                  obj'[d][i].speed = (world'[i] = "up")
             /\ phase'[d] \in {"posted", "applied"} => Fits(obj[d][i], i)'
    BY <1>1, <1>2, <2>1, <2>2, ReadLinksDoes, OwnObjects
  <2>4. phase'[c] = "read" /\ \A i \in Ports : /\ obj'[c][i].link = world'[i]
                                               /\ obj'[c][i].speed = SysfsSpeed(i, world[i])'
    BY <1>1, <1>2, <2>1, ReadLinksDoes DEF SysfsSpeed
  <2> QED BY <2>3, <2>4 DEF AppInv, Progress
<1>3. CASE AskEthtool(c)
  <2>1. /\ phase[c] = "read" /\ phase' = [phase EXCEPT ![c] = "asked"] /\ asof' = asof
        /\ UNCHANGED <<world, gives, changes, stored, report, poll, dialog, screen>>
    BY <1>3 DEF AskEthtool
  <2>2. "asked" \in Phases /\ asof[c] <= changes
    BY <1>1 DEF Phases, Shape
  <2>3. /\ TypeOK' /\ Shape' /\ PollSane' /\ ScreenIsReport' /\ Polled' /\ Screened'
        /\ \A d \in Collections : d # c => \A i \in Ports : Fresh(d)' =>
             /\ phase'[d] \in {"read", "asked", "labelled", "posted"} => obj'[d][i].link = world'[i]
             /\ phase'[d] = "read" => obj'[d][i].speed = SysfsSpeed(i, world[i])'
             /\ phase'[d] \in {"asked", "labelled", "posted"} =>
                  obj'[d][i].speed = (world'[i] = "up")
             /\ phase'[d] \in {"posted", "applied"} => Fits(obj[d][i], i)'
    BY <1>1, <1>3, <2>1, <2>2, AskEthtoolDoes, OwnObjects
  <2>4. ASSUME NEW i \in Ports, Fresh(c)'
        PROVE  obj'[c][i].link = world'[i] /\ obj'[c][i].speed = (world'[i] = "up")
    <3>1. obj[c][i].link = world[i] /\ obj[c][i].speed = SysfsSpeed(i, world[i])
      BY <2>1, <2>4 DEF AppInv, Progress, Fresh
    <3>2. obj'[c][i].link = obj[c][i].link /\ obj'[c][i].speed = (obj[c][i].speed \/ world[i] = "up")
      BY <1>1, <1>3, AskEthtoolDoes
    <3> QED BY <2>1, <3>1, <3>2 DEF SysfsSpeed
  <2>5. phase'[c] = "asked"
    BY <1>1, <2>1
  <2> QED BY <2>3, <2>4, <2>5 DEF AppInv, Progress
<1>4. CASE ApplyLabels(c)
  <2>1. /\ phase[c] = "asked" /\ phase' = [phase EXCEPT ![c] = "labelled"] /\ asof' = asof
        /\ UNCHANGED <<world, gives, changes, stored, report, poll, dialog, screen>>
    BY <1>4 DEF ApplyLabels
  <2>2. "labelled" \in Phases /\ asof[c] <= changes
    BY <1>1 DEF Phases, Shape
  <2>3. /\ TypeOK' /\ Shape' /\ PollSane' /\ ScreenIsReport' /\ Polled' /\ Screened'
        /\ \A d \in Collections : d # c => \A i \in Ports : Fresh(d)' =>
             /\ phase'[d] \in {"read", "asked", "labelled", "posted"} => obj'[d][i].link = world'[i]
             /\ phase'[d] = "read" => obj'[d][i].speed = SysfsSpeed(i, world[i])'
             /\ phase'[d] \in {"asked", "labelled", "posted"} =>
                  obj'[d][i].speed = (world'[i] = "up")
             /\ phase'[d] \in {"posted", "applied"} => Fits(obj[d][i], i)'
    BY <1>1, <1>4, <2>1, <2>2, ApplyLabelsDoes, OwnObjects
  <2>4. ASSUME NEW i \in Ports, Fresh(c)'
        PROVE  obj'[c][i].link = world'[i] /\ obj'[c][i].speed = (world'[i] = "up")
    <3>1. obj[c][i].link = world[i] /\ obj[c][i].speed = (world[i] = "up")
      BY <2>1, <2>4 DEF AppInv, Progress, Fresh
    <3> QED BY <1>1, <1>4, <2>1, <3>1, ApplyLabelsDoes
  <2>5. phase'[c] = "labelled"
    BY <1>1, <2>1
  <2> QED BY <2>3, <2>4, <2>5 DEF AppInv, Progress
<1>5. CASE Evaluate(c)
  <2>1. /\ phase[c] = "labelled" /\ phase' = [phase EXCEPT ![c] = "posted"] /\ asof' = asof
        /\ UNCHANGED <<world, gives, changes, stored, report, poll, dialog, screen>>
    BY <1>5 DEF Evaluate
  <2>2. "posted" \in Phases /\ asof[c] <= changes
    BY <1>1 DEF Phases, Shape
  <2>3. /\ TypeOK' /\ Shape' /\ PollSane' /\ ScreenIsReport' /\ Polled' /\ Screened'
        /\ \A d \in Collections : d # c => \A i \in Ports : Fresh(d)' =>
             /\ phase'[d] \in {"read", "asked", "labelled", "posted"} => obj'[d][i].link = world'[i]
             /\ phase'[d] = "read" => obj'[d][i].speed = SysfsSpeed(i, world[i])'
             /\ phase'[d] \in {"asked", "labelled", "posted"} =>
                  obj'[d][i].speed = (world'[i] = "up")
             /\ phase'[d] \in {"posted", "applied"} => Fits(obj[d][i], i)'
    BY <1>1, <1>5, <2>1, <2>2, EvaluateDoes, OwnObjects
  <2>4. ASSUME NEW i \in Ports, Fresh(c)'
        PROVE  /\ obj'[c][i].link = world'[i] /\ obj'[c][i].speed = (world'[i] = "up")
               /\ Fits(obj[c][i], i)'
    <3>1. obj[c][i].link = world[i] /\ obj[c][i].speed = (world[i] = "up")
      BY <2>1, <2>4 DEF AppInv, Progress, Fresh
    <3>2. /\ obj'[c][i].link = obj[c][i].link /\ obj'[c][i].speed = obj[c][i].speed
          /\ obj'[c][i].verdict = Judge(obj[c][i])
      BY <1>1, <1>5, EvaluateDoes
    <3>3. Judge(obj[c][i]) = IF world[i] = "up" THEN "pass" ELSE "warn"
      BY <3>1 DEF Judge
    <3> QED BY <2>1, <3>1, <3>2, <3>3 DEF Fits
  <2>5. phase'[c] = "posted"
    BY <1>1, <2>1
  <2> QED BY <2>3, <2>4, <2>5 DEF AppInv, Progress
<1>6. CASE Apply(c)
  <2>1. /\ phase[c] = "posted" /\ phase' = [phase EXCEPT ![c] = "applied"]
        /\ report' = c /\ screen' = obj[c]
        /\ UNCHANGED <<world, gives, changes, stored, obj, asof, poll, dialog>>
    BY <1>6 DEF Apply
  <2>2. TypeOK'
    BY <1>1, <2>1 DEF TypeOK, Phases
  <2>3. Shape'
    BY <1>1, <2>1 DEF Shape, Applied
  <2>4. PollSane' /\ ScreenIsReport'
    BY <1>1, <2>1 DEF PollSane, ScreenIsReport
  <2>5. Progress' /\ Polled'
    BY <1>1, <2>1 DEF AppInv, Progress, Polled, Fresh, Fits, SysfsSpeed
  <2>6. Screened'
    BY <2>1 DEF AppInv, Progress, Screened, Fresh, Fits, SysfsSpeed
  <2> QED BY <2>2, <2>3, <2>4, <2>5, <2>6 DEF AppInv
<1> QED BY <1>2, <1>3, <1>4, <1>5, <1>6 DEF CollectStep

LEMMA PollStepInv ==
  ASSUME AppInv, NEW w \in Pollers, PollStep(w)
  PROVE  AppInv'
<1>1. TypeOK /\ Shape /\ PollSane
  BY DEF AppInv
<1>2. poll \in [Pollers -> PollStates] /\ poll[w] \in PollStates
  BY <1>1 DEF TypeOK
<1>3. CASE PollStart(w)
  <2>1. /\ poll[w] = PollIdle /\ report # None /\ poll' = [poll EXCEPT ![w].of = report]
        /\ UNCHANGED <<world, gives, changes, stored, phase, obj, asof, report, dialog, screen>>
    BY <1>3 DEF PollStart
  <2>2. report \in Collections /\ Applied(report)
    BY <1>1, <2>1 DEF Shape, Applied
  <2>3. /\ poll'[w].of = report /\ poll'[w].got = "none" /\ poll'[w] \in PollStates
        /\ poll' \in [Pollers -> PollStates]
        /\ \A v \in Pollers : v # w => poll'[v] = poll[v]
    BY <1>2, <2>1, <2>2 DEF PollIdle, PollStates
  <2>4. TypeOK'
    BY <1>1, <2>1, <2>3 DEF TypeOK
  <2>5. Shape' /\ PollSane'
    BY <1>1, <2>1, <2>2, <2>3 DEF Shape, PollSane, Applied
  <2>6. Polled'
    BY <2>1, <2>3 DEF AppInv, Polled, Fresh
  <2> QED BY <2>1, <2>4, <2>5, <2>6, QuietStep
<1>4. CASE PollRead(w)
  <2>1. /\ poll[w].of # None /\ poll[w].port <= MaxPort /\ poll[w].got = "none"
        /\ poll' = [poll EXCEPT ![w].got = world[poll[w].port]]
        /\ UNCHANGED <<world, gives, changes, stored, phase, obj, asof, report, dialog, screen>>
    BY <1>4 DEF PollRead
  <2>2. poll[w].port \in Ports /\ world[poll[w].port] \in Links
    BY <1>1, <1>2, <2>1 DEF PollStates, Ports, TypeOK
  <2>3. /\ poll'[w].of = poll[w].of /\ poll'[w].got = world[poll[w].port]
        /\ poll'[w].port = poll[w].port
        /\ poll' \in [Pollers -> PollStates]
        /\ \A v \in Pollers : v # w => poll'[v] = poll[v]
    BY <1>2, <2>1, <2>2 DEF PollStates
  <2>4. TypeOK'
    BY <1>1, <2>1, <2>3 DEF TypeOK
  <2>5. Shape' /\ PollSane'
    BY <1>1, <2>1, <2>2, <2>3 DEF Shape, PollSane, Applied
  <2>6. Polled'
    BY <2>1, <2>3 DEF AppInv, Polled, Fresh
  <2> QED BY <2>1, <2>4, <2>5, <2>6, QuietStep
<1>5. CASE PollWrite(w)
  <2> DEFINE d == poll[w].of
             k == poll[w].port
  <2>1. /\ poll[w].got # "none" /\ poll' = [poll EXCEPT ![w].got = "none", ![w].port = @ + 1]
        /\ UNCHANGED <<world, gives, changes, stored, phase, asof, report, dialog, screen>>
    BY <1>5 DEF PollWrite
  <2>2. /\ d \in Collections /\ k \in Ports /\ poll[w].got \in Links
        /\ obj' \in [Collections -> [Ports -> Objects]]
        /\ \A c \in Collections, i \in Ports :
             /\ <<c, i>> # <<d, k>> => obj'[c][i] = obj[c][i]
             /\ obj'[c][i].label = obj[c][i].label
             /\ obj'[c][i].verdict = obj[c][i].verdict
        /\ obj'[d][k].link = poll[w].got /\ obj'[d][k].speed = SysfsSpeed(k, poll[w].got)
    BY <1>1, <1>5, PollWriteDoes
  <2>3. /\ poll'[w].of = d /\ poll'[w].got = "none" /\ poll' \in [Pollers -> PollStates]
        /\ \A v \in Pollers : v # w => poll'[v] = poll[v]
    <3> DEFINE r == [poll[w] EXCEPT !.got = "none", !.port = @ + 1]
    <3>1. poll' = [poll EXCEPT ![w] = r]
      BY <1>2, <2>1
    <3>2. poll[w] \in PollStates /\ k \in 1 .. MaxPort
      BY <1>2, <2>2 DEF Ports
    <3>3. k + 1 \in 1 .. MaxPort + 1
      BY <3>2
    <3>4. r \in PollStates /\ r.of = d /\ r.got = "none"
      BY <3>2, <3>3 DEF PollStates
    <3> HIDE DEF r
    <3> QED BY <1>2, <3>1, <3>4
  <2>4. TypeOK'
    <3>1. poll' \in [Pollers -> PollStates] /\ obj' \in [Collections -> [Ports -> Objects]]
      BY <2>2, <2>3
    <3>2. UNCHANGED <<world, gives, changes, stored, phase, asof, report, dialog, screen>>
      BY <2>1
    <3> HIDE DEF d, k
    <3> QED BY <1>1, <3>1, <3>2 DEF TypeOK
  <2>5. Shape' /\ PollSane'
    BY <1>1, <2>1, <2>2, <2>3 DEF Shape, PollSane, Applied
  <2>6. Polled'
    BY <2>1, <2>3 DEF AppInv, Polled, Fresh
  <2>7. Applied(d)
    BY <1>1, <2>2 DEF Shape
  <2>8. ScreenIsReport'
    <3>1. report # None => report \in Collections
      BY <1>1 DEF Shape, Applied
    <3> QED BY <2>1, <2>2, <3>1 DEF AppInv, ScreenIsReport
  <2>9. Screened'
    BY <2>1 DEF AppInv, Screened, Fresh, Fits, SysfsSpeed
  <2>10. Progress'
    <3> HIDE DEF d, k
    <3>1. ASSUME NEW c \in Collections, NEW i \in Ports, Fresh(c)
          PROVE  /\ phase[c] \in {"read", "asked", "labelled", "posted"} => obj'[c][i].link = world[i]
                 /\ phase[c] = "read" => obj'[c][i].speed = SysfsSpeed(i, world[i])
                 /\ phase[c] \in {"asked", "labelled", "posted"} => obj'[c][i].speed = (world[i] = "up")
                 /\ phase[c] \in {"posted", "applied"} => Fits(obj'[c][i], i)
      <4>1. CASE <<c, i>> # <<d, k>>
        BY <2>2, <3>1, <4>1 DEF AppInv, Progress
      <4>2. CASE c = d /\ i = k
        <5>1. poll[w].got = world[k]
          BY <2>1, <2>7, <3>1, <4>2 DEF AppInv, Polled, PollSane, d, k
        <5>2. obj'[d][k].link = world[k] /\ obj'[d][k].speed = SysfsSpeed(k, world[k])
          BY <2>2, <5>1
        <5>3. Fits(obj[d][k], k) /\ phase[d] = "applied"
          BY <2>7, <3>1, <4>2 DEF AppInv, Progress, Applied
        <5>4. obj'[d][k].verdict = obj[d][k].verdict
          BY <2>2
        <5> QED BY <4>2, <5>2, <5>3, <5>4 DEF Fits
      <4> QED BY <4>1, <4>2
    <3> QED BY <2>1, <3>1 DEF Progress, Fresh, Fits, SysfsSpeed
  <2> QED BY <2>4, <2>5, <2>6, <2>8, <2>9, <2>10 DEF AppInv
<1>6. CASE PollRedraw(w)
  <2>1. /\ poll[w].of # None /\ screen' = obj[report] /\ poll' = [poll EXCEPT ![w] = PollIdle]
        /\ UNCHANGED <<world, gives, changes, stored, phase, obj, asof, report, dialog>>
    BY <1>6 DEF PollRedraw
  <2>2. report \in Collections /\ phase[report] = "applied"
    BY <1>1, <2>1 DEF Shape, Applied
  <2>3. /\ poll'[w].of = None /\ poll'[w].got = "none" /\ poll' \in [Pollers -> PollStates]
        /\ \A v \in Pollers : v # w => poll'[v] = poll[v]
    BY <1>2, <2>1 DEF PollIdle, PollStates
  <2>4. TypeOK'
    BY <1>1, <2>1, <2>2, <2>3 DEF TypeOK
  <2>5. Shape' /\ PollSane' /\ Polled'
    BY <1>1, <2>1, <2>3 DEF AppInv, Shape, PollSane, Polled, Applied, Fresh
  <2>6. ScreenIsReport'
    BY <2>1, <2>2 DEF ScreenIsReport
  <2>7. Progress'
    BY <2>1 DEF AppInv, Progress, Fresh, Fits, SysfsSpeed
  <2>8. Screened'
    BY <2>1, <2>2 DEF AppInv, Progress, Screened, Fresh, Fits, SysfsSpeed
  <2> QED BY <2>4, <2>5, <2>6, <2>7, <2>8 DEF AppInv
<1> QED BY <1>3, <1>4, <1>5, <1>6 DEF PollStep

LEMMA OperatorInv ==
  ASSUME AppInv, Operator
  PROVE  AppInv'
<1>1. TypeOK /\ Shape /\ PollSane
  BY DEF AppInv
<1>2. CASE \E c \in Collections : Recollect(c)
  <2>1. PICK c \in Collections : Recollect(c)
    BY <1>2
  <2>2. /\ phase[c] = "idle" /\ phase' = [phase EXCEPT ![c] = "reading"]
        /\ UNCHANGED <<world, gives, changes, stored, obj, asof, report, poll, dialog, screen>>
    BY <2>1 DEF Recollect
  <2>3. TypeOK'
    BY <1>1, <2>2 DEF TypeOK, Phases
  <2>4. /\ \A d \in Collections : d # c => phase'[d] = phase[d]
        /\ phase'[c] = "reading"
    BY <1>1, <2>2 DEF TypeOK
  <2>5. Shape' /\ PollSane' /\ Polled'
    BY <1>1, <2>2, <2>4 DEF AppInv, Shape, PollSane, Polled, Applied, Fresh
  <2> QED BY <2>2, <2>3, <2>4, <2>5, QuietStep
<1>3. CASE OpenDialog
  <2>1. /\ report # None /\ UNCHANGED <<world, gives, changes, stored, phase, obj, asof, report, poll, screen>>
    BY <1>3 DEF OpenDialog
  <2>2. PICK i \in Ports : dialog' = <<report, i>>
    BY <1>3 DEF OpenDialog
  <2>3. report \in Collections /\ Applied(report)
    BY <1>1, <2>1 DEF Shape, Applied
  <2>4. TypeOK'
    BY <1>1, <2>1, <2>2, <2>3 DEF TypeOK
  <2>5. Shape' /\ PollSane' /\ Polled'
    BY <1>1, <2>1, <2>2, <2>3 DEF AppInv, Shape, PollSane, Polled, Applied, Fresh
  <2> QED BY <2>1, <2>4, <2>5, QuietStep
<1>4. CASE CancelDialog
  <2>1. /\ dialog' = None
        /\ UNCHANGED <<world, gives, changes, stored, phase, obj, asof, report, poll, screen>>
    BY <1>4 DEF CancelDialog
  <2>2. TypeOK'
    BY <1>1, <2>1 DEF TypeOK
  <2>3. Shape' /\ PollSane' /\ Polled'
    BY <1>1, <2>1 DEF AppInv, Shape, PollSane, Polled, Applied, Fresh
  <2> QED BY <2>1, <2>2, <2>3, QuietStep
<1>5. CASE SaveLabel
  <2>1. /\ dialog' = None /\ UNCHANGED <<world, gives, changes, phase, asof, report, poll>>
    BY <1>5 DEF SaveLabel
  <2>2. /\ report \in Collections /\ stored' \in [Ports -> Labels]
        /\ obj' \in [Collections -> [Ports -> Objects]] /\ screen' = obj'[report]
        /\ \A c \in Collections, i \in Ports :
             /\ obj'[c][i].link = obj[c][i].link /\ obj'[c][i].speed = obj[c][i].speed
             /\ obj'[c][i].verdict = obj[c][i].verdict
    BY <1>1, <1>5, SaveLabelDoes
  <2>3. TypeOK'
    BY <1>1, <2>1, <2>2 DEF TypeOK
  <2>4. Shape' /\ PollSane' /\ Polled'
    BY <1>1, <2>1, <2>2 DEF AppInv, Shape, PollSane, Polled, Applied, Fresh
  <2>5. ScreenIsReport'
    BY <2>1, <2>2 DEF ScreenIsReport
  <2>6. Progress'
    <3>1. ASSUME NEW c \in Collections, NEW i \in Ports, Fresh(c)'
          PROVE  /\ phase'[c] \in {"read", "asked", "labelled", "posted"} => obj'[c][i].link = world'[i]
                 /\ phase'[c] = "read" => obj'[c][i].speed = SysfsSpeed(i, world[i])'
                 /\ phase'[c] \in {"asked", "labelled", "posted"} =>
                      obj'[c][i].speed = (world'[i] = "up")
                 /\ phase'[c] \in {"posted", "applied"} => Fits(obj[c][i], i)'
      <4>1. /\ phase[c] \in {"read", "asked", "labelled", "posted"} => obj[c][i].link = world[i]
            /\ phase[c] = "read" => obj[c][i].speed = SysfsSpeed(i, world[i])
            /\ phase[c] \in {"asked", "labelled", "posted"} => obj[c][i].speed = (world[i] = "up")
            /\ phase[c] \in {"posted", "applied"} => Fits(obj[c][i], i)
        BY <2>1, <3>1 DEF AppInv, Progress, Fresh
      <4>2. /\ obj'[c][i].link = obj[c][i].link /\ obj'[c][i].speed = obj[c][i].speed
            /\ obj'[c][i].verdict = obj[c][i].verdict
        BY <2>2
      <4> QED BY <2>1, <4>1, <4>2 DEF Fits, SysfsSpeed
    <3> QED BY <3>1 DEF Progress
  <2>7. Screened'
    <3>1. phase'[report] = "applied"
      BY <1>1, <2>1, <2>2 DEF Shape, Applied, TypeOK
    <3> QED BY <2>1, <2>2, <2>6, <3>1 DEF Progress, Screened, Fresh, Fits, SysfsSpeed
  <2> QED BY <2>3, <2>4, <2>5, <2>6, <2>7 DEF AppInv
<1> QED BY <1>2, <1>3, <1>4, <1>5 DEF Operator

LEMMA LinkChangeInv ==
  ASSUME AppInv, LinkChange
  PROVE  AppInv'
<1>1. TypeOK /\ Shape /\ PollSane /\ ScreenIsReport
  BY DEF AppInv
<1>2. /\ changes < MaxChanges /\ changes' = changes + 1
      /\ UNCHANGED <<gives, stored, phase, obj, asof, report, poll, dialog, screen>>
  BY DEF LinkChange
<1>3. world' \in [Ports -> Links]
  BY <1>1 DEF LinkChange, TypeOK, Links
<1>4. changes \in Nat /\ changes' \in 0 .. MaxChanges
  BY <1>1, <1>2 DEF TypeOK
<1>5. TypeOK'
  BY <1>1, <1>2, <1>3, <1>4 DEF TypeOK
<1>6. asof \in [Collections -> 0 .. MaxChanges]
  BY <1>1 DEF TypeOK
<1>7. Shape' /\ PollSane' /\ ScreenIsReport'
  BY <1>1, <1>2, <1>4, <1>6 DEF Shape, PollSane, ScreenIsReport, Applied
<1>8. \A c \in Collections : ~Fresh(c)'
  BY <1>1, <1>2, <1>4, <1>6 DEF Fresh, Shape
<1>9. Progress' /\ Polled' /\ Screened'
  BY <1>7, <1>8 DEF Progress, Polled, Screened, Shape, Applied
<1> QED BY <1>5, <1>7, <1>9 DEF AppInv

LEMMA AppStep == AppInv /\ [Next]_vars => AppInv'
<1>1. ASSUME AppInv, UNCHANGED vars PROVE AppInv'
  BY <1>1 DEF vars, AppInv, TypeOK, Shape, PollSane, ScreenIsReport, Progress, Polled, Screened,
              Applied, Fresh, Fits, SysfsSpeed
<1> QED BY <1>1, CollectStepInv, PollStepInv, OperatorInv, LinkChangeInv DEF Next

LEMMA AppInvariant == Spec => []AppInv
BY AppInit, AppStep, PTL DEF Spec

\* However collections, polls and the dialog interleave, every value has its type.
THEOREM AppTypeCorrect == Spec => []TypeOK
<1>1. AppInv => TypeOK
  BY DEF AppInv
<1> QED BY <1>1, AppInvariant, PTL

\* tui/app.py:226-261 and 313-330: labels and verdicts on the screen are those of
\* the report that an export would write, whatever thread touched an object last.
THEOREM ScreenIsReportHolds == Spec => []ScreenIsReport
<1>1. AppInv => ScreenIsReport
  BY DEF AppInv
<1> QED BY <1>1, AppInvariant, PTL

\* pipeline.py:126-141: as long as no link changes after the collection read it,
\* the row on the screen fits the link beside it, but for a speed that only
\* ethtool gave.
THEOREM RowFitsLinkHolds == Spec => []RowFitsLink
<1>1. AppInv => RowFitsLink
  <2> SUFFICES ASSUME AppInv, report # None, asof[report] = changes, NEW i \in Ports
               PROVE  \/ screen[i].verdict = Judge(screen[i])
                      \/ /\ ~gives[i] /\ screen[i].verdict = "pass"
                         /\ screen[i].link = "up" /\ ~screen[i].speed
      BY DEF RowFitsLink
  <2>1. Fits(screen[i], i)
    BY DEF AppInv, Screened, Fresh
  <2>2. gives[i] \in BOOLEAN
    BY DEF AppInv, TypeOK
  <2> QED BY <2>1, <2>2 DEF Fits, Judge, SysfsSpeed
<1> QED BY <1>1, AppInvariant, PTL
=============================================================================
