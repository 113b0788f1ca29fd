----------------------------- MODULE BlinkProof -----------------------------
(***************************************************************************)
(* What holds of the blinking for any ports, reports, length of a blink    *)
(* number of keys and time a process takes to start: a key blinks its      *)
(* ports in turn, two at once only for as long as a start takes, and the   *)
(* pass that is called finished leaves no LED on for longer than that.     *)
(***************************************************************************)
EXTENDS Blink, SequenceTheorems, TLAPS

\* No process outlives the countdown by more than the start-up time, the ones of
\* replaced queues included: a start sets the countdown to as long as a blink lasts.
Shorter == \A p \in procs : p.wait + p.left <= left + Delay

\* What a process has lived and what it has left make no more than a start and a blink.
Life == \A p \in procs : p.age + p.wait + p.left <= Seconds + Delay

\* Two starts of one key are a blink apart, and two blinks when another start came
\* between them.
Spaced ==
  \A p, q \in procs : p.key = q.key /\ p.nth < q.nth =>
    /\ p.age >= q.age + Seconds
    /\ p.nth + 1 # q.nth => p.age >= q.age + Seconds + Seconds

\* How old the processes of the last key are, by the countdown.
Recent ==
  \A p \in procs : p.key = keys =>
    /\ p.nth <= Len(started) /\ p.age >= Seconds - left
    /\ p.nth < Len(started) => p.age >= Seconds + Seconds - left

\* Nothing is of a key that was not pressed yet.
Pressed == /\ queue # << >> => keys > 0
           /\ \A p \in procs : p.key <= keys

ProcsInv == Shorter /\ Life /\ Spaced /\ Recent /\ Pressed

BlinkInv == TypeOK /\ InTurn /\ ProcsInv

-----------------------------------------------------------------------------
(* Sequences                                                               *)

LEMMA MoveHead ==
  ASSUME NEW S, NEW s \in Seq(S), NEW q \in Seq(S), q # << >>
  PROVE  s \o q = Append(s, q[1]) \o Tail(q)
<1>1. q[1] \in S /\ Tail(q) \in Seq(S) /\ Len(q) >= 1
  BY HeadTailProperties
<1>2. Append(s, q[1]) \in Seq(S) /\ Len(Append(s, q[1])) = Len(s) + 1
  BY <1>1, AppendProperties
<1>3. /\ s \o q \in Seq(S) /\ Len(s \o q) = Len(s) + Len(q)
      /\ \A i \in 1 .. Len(s) + Len(q) :
           (s \o q)[i] = IF i <= Len(s) THEN s[i] ELSE q[i - Len(s)]
  BY ConcatProperties
<1>4. /\ Append(s, q[1]) \o Tail(q) \in Seq(S)
      /\ Len(Append(s, q[1]) \o Tail(q)) = Len(s) + Len(q)
      /\ \A i \in 1 .. Len(s) + Len(q) :
           (Append(s, q[1]) \o Tail(q))[i] = IF i <= Len(s) + 1 THEN Append(s, q[1])[i]
                                             ELSE Tail(q)[i - (Len(s) + 1)]
  <2>1. Len(Tail(q)) = Len(q) - 1
    BY HeadTailProperties
  <2>2. Len(s) + 1 + Len(Tail(q)) = Len(s) + Len(q)
    BY <2>1
  <2> QED BY <1>1, <1>2, <2>2, ConcatProperties
<1>5. ASSUME NEW i \in 1 .. Len(s) + Len(q)
      PROVE  (s \o q)[i] = (Append(s, q[1]) \o Tail(q))[i]
  <2>1. CASE i <= Len(s)
    BY <1>1, <1>3, <1>4, <2>1, AppendProperties
  <2>2. CASE i = Len(s) + 1
    BY <1>1, <1>3, <1>4, <2>2, AppendProperties
  <2>3. CASE i > Len(s) + 1
    <3>1. i - (Len(s) + 1) \in 1 .. Len(Tail(q)) /\ i - (Len(s) + 1) + 1 = i - Len(s)
      BY <2>3, HeadTailProperties
    <3>2. Tail(q)[i - (Len(s) + 1)] = q[i - Len(s)]
      BY <3>1, HeadTailProperties
    <3> QED BY <1>3, <1>4, <2>3, <3>2
  <2> QED BY <2>1, <2>2, <2>3
<1> QED BY <1>3, <1>4, <1>5, SeqEqual

LEMMA OneLeft ==
  ASSUME NEW S, NEW s \in Seq(S), NEW q \in Seq(S), q # << >>, ~(Len(q) > 1)
  PROVE  s \o Tail(q) = s
<1>1. Tail(q) \in Seq(S) /\ Len(Tail(q)) = 0
  <2>1. Len(q) = 1
    <3>1. Len(q) \in Nat
      BY LenProperties
    <3>2. Len(q) # 0
      OBVIOUS
    <3>3. \A n \in Nat : n # 0 /\ ~(n > 1) => n = 1
      OBVIOUS
    <3> QED BY <3>1, <3>2, <3>3, Zenon
  <2> QED BY <2>1, HeadTailProperties
<1>2. Tail(q) = << >>
  BY <1>1, EmptySeq
<1> QED BY <1>2, ConcatEmptySeq

LEMMA MoreLeft ==
  ASSUME NEW S, NEW q \in Seq(S), Len(q) > 1
  PROVE  Tail(q) # << >> /\ Tail(q) \in Seq(S) /\ q # << >>
<1>1. q # << >>
  OBVIOUS
<1>2. Tail(q) \in Seq(S) /\ Len(Tail(q)) >= 1
  BY <1>1, HeadTailProperties
<1> QED BY <1>1, <1>2

-----------------------------------------------------------------------------
(* Numbers                                                                 *)

\* A unit of time takes one from what is left of the start-up, or else of the blink.
LEMMA OneUnitLess ==
  ASSUME NEW D \in Nat, NEW S \in Nat, NEW w \in 0 .. D, NEW l \in 1 .. S, ~(w = 0 /\ l = 1),
         NEW w2, w2 = IF w > 0 THEN w - 1 ELSE 0, NEW l2, l2 = IF w > 0 THEN l ELSE l - 1
  PROVE  w2 \in 0 .. D /\ l2 \in 1 .. S /\ w2 + l2 = w + l - 1
<1>1. CASE w > 0
  BY <1>1
<1>2. CASE ~(w > 0)
  BY <1>2
<1> QED BY <1>1, <1>2

LEMMA UnitSums ==
  ASSUME NEW D \in Nat, NEW S \in Nat, NEW a \in Nat, NEW w \in Nat, NEW l \in Nat,
         NEW c \in Nat, NEW c2 \in Nat, c <= c2 + 1, w + l <= c + D, a + w + l <= S + D,
         NEW a2 \in Nat, NEW w2 \in Nat, NEW l2 \in Nat, a2 = a + 1, w2 + l2 = w + l - 1
  PROVE  w2 + l2 <= c2 + D /\ a2 + w2 + l2 <= S + D
OBVIOUS

LEMMA AgeSums ==
  ASSUME NEW S \in Nat, NEW a \in Nat, NEW a2, a2 = a + 1,
         NEW c \in Nat, NEW c2 \in Nat, c <= c2 + 1
  PROVE  /\ a >= S - c => a2 >= S - c2
         /\ a >= S + S - c => a2 >= S + S - c2
OBVIOUS

-----------------------------------------------------------------------------
(* One step                                                                *)

USE BlinkAssumption

LEMMA BlinkInit == Init => BlinkInv
<1> SUFFICES ASSUME Init PROVE BlinkInv
    OBVIOUS
<1>1. << >> \in Seq(PortNames)
  BY EmptySeq
<1>2. TypeOK
  <2>1. <<"other">> \in Texts
    BY DEF Texts
  <2>2. 0 \in 0 .. MaxApplied /\ 0 \in 0 .. MaxKeys /\ 0 \in 0 .. Seconds
    OBVIOUS
  <2> QED BY <1>1, <2>1, <2>2 DEF Init, TypeOK
<1> QED BY <1>2 DEF Init, BlinkInv, InTurn, ProcsInv, Shorter, Life, Spaced, Recent, Pressed

LEMMA Bounds == Seconds \in Nat \ {0} /\ Delay \in Nat /\ Delay <= Seconds
OBVIOUS

LEMMA Numbers ==
  ASSUME TypeOK
  PROVE  /\ keys \in Nat /\ left \in Nat /\ left <= Seconds
         /\ \A p \in procs : /\ p \in Processes /\ p.wait \in Nat /\ p.left \in Nat \ {0}
                             /\ p.age \in Nat /\ p.key \in Nat /\ p.nth \in Nat
BY DEF TypeOK, Processes

\* One more process, of a key that is at least a blink past its other starts.
LEMMA OneMore ==
  ASSUME TypeOK, Shorter, Life, Spaced, NEW key \in Nat, NEW n \in Nat,
         \A p \in procs : p.key <= key,
         \A p \in procs : p.key = key => /\ p.nth <= n /\ p.age >= Seconds
                                         /\ p.nth < n => p.age >= Seconds + Seconds,
         NEW new \in Processes, new.key = key, new.nth = n + 1, new.age = 0,
         new.left = Seconds, procs' = procs \cup {new}, left' = Seconds, keys' = key,
         Len(started') = n + 1, key > 0
  PROVE  ProcsInv'
<1>1. new.wait \in Nat /\ new.wait <= Delay
  BY DEF Processes
<1>2. Shorter' /\ Life'
  BY <1>1, Numbers DEF Shorter, Life
<1>3. Spaced'
  <2> SUFFICES ASSUME NEW p \in procs', NEW q \in procs', p.key = q.key, p.nth < q.nth
               PROVE  /\ p.age >= q.age + Seconds
                      /\ p.nth + 1 # q.nth => p.age >= q.age + Seconds + Seconds
      BY DEF Spaced
  <2>1. CASE p \in procs /\ q \in procs
    BY <2>1 DEF Spaced
  <2>2. CASE p \in procs /\ q = new
    BY <2>2, Numbers
  <2>3. CASE p = new /\ q \in procs
    BY <2>3, Numbers
  <2>4. CASE p = new /\ q = new
    BY <2>4
  <2> QED BY <2>1, <2>2, <2>3, <2>4
<1>4. Recent'
  <2> SUFFICES ASSUME NEW p \in procs', p.key = key
               PROVE  /\ p.nth <= n + 1 /\ p.age >= Seconds - Seconds
                      /\ p.nth < n + 1 => p.age >= Seconds + Seconds - Seconds
      BY DEF Recent
  <2>1. CASE p \in procs
    BY <2>1, Numbers
  <2>2. CASE p = new
    BY <2>2
  <2> QED BY <2>1, <2>2
<1>5. Pressed'
  BY <1>1, Numbers DEF Pressed
<1> QED BY <1>2, <1>3, <1>4, <1>5 DEF ProcsInv

\* A start, or a start that fails, for a queue of which nothing is started yet.
LEMMA StartKeeps ==
  ASSUME TypeOK, ProcsInv, NEW q \in Seq(PortNames), q # << >>,
         NEW begun \in Seq(PortNames), NEW key \in 1 .. MaxKeys, keys <= key,
         \A p \in procs : p.key = key =>
            /\ key = keys /\ begun = started
            /\ p.nth <= Len(begun) /\ p.age >= Seconds
            /\ p.nth < Len(begun) => p.age >= Seconds + Seconds,
         keys' = key, StartNext(q, begun, key), turn' = begun \o q
  PROVE  /\ queue' \in Seq(PortNames) /\ left' \in 0 .. Seconds /\ procs' \subseteq Processes
         /\ status' \in Texts /\ started' \in Seq(PortNames) /\ gaveUp' \in BOOLEAN
         /\ InTurn' /\ ProcsInv'
<1>1. q[1] \in PortNames
  BY HeadTailProperties
<1>2. key \in Nat /\ key > 0 /\ \A p \in procs : p.key <= key
  BY Numbers DEF ProcsInv, Pressed
<1>3. CASE gaveUp' = FALSE
  <2>1. /\ queue' = q /\ left' = Seconds /\ started' = Append(begun, q[1]) /\ status' = status
        /\ \E wait \in 0 .. Delay :
             procs' = procs \cup {[port |-> q[1], wait |-> wait, left |-> Seconds, age |-> 0,
                                   key |-> key, nth |-> Len(started')]}
    BY <1>3 DEF StartNext
  <2>2. /\ started' \in Seq(PortNames) /\ started' # << >> /\ Len(started') = Len(begun) + 1
        /\ started'[Len(started')] = q[1] /\ Len(begun) \in Nat
    BY <1>1, <2>1, AppendProperties, LenProperties
  <2>3. InTurn'
    BY <2>1, <2>2, MoveHead DEF InTurn
  <2>4. procs' \subseteq Processes /\ ProcsInv'
    <3>1. PICK wait \in 0 .. Delay :
            procs' = procs \cup {[port |-> q[1], wait |-> wait, left |-> Seconds, age |-> 0,
                                  key |-> key, nth |-> Len(started')]}
      BY <2>1
    <3> DEFINE new == [port |-> q[1], wait |-> wait, left |-> Seconds, age |-> 0,
                       key |-> key, nth |-> Len(started')]
    <3>2. /\ new \in Processes /\ new.left = Seconds /\ new.key = key /\ new.age = 0
          /\ new.nth = Len(begun) + 1
      BY <1>1, <2>2 DEF Processes
    <3>3. procs \subseteq Processes /\ procs' = procs \cup {new}
      BY <3>1 DEF TypeOK
    <3> HIDE DEF new
    <3>4. ProcsInv'
      BY <1>2, <2>1, <2>2, <3>2, <3>3, OneMore DEF ProcsInv
    <3> QED BY <3>2, <3>3, <3>4
  <2>5. queue' \in Seq(PortNames) /\ left' \in 0 .. Seconds /\ status' \in Texts
    BY <2>1 DEF TypeOK
  <2> QED BY <1>3, <2>2, <2>3, <2>4, <2>5
<1>4. CASE gaveUp' # FALSE
  <2>1. /\ queue' = << >> /\ status' = <<"cannot">> /\ gaveUp' = TRUE /\ started' = begun
        /\ UNCHANGED <<left, procs>>
    BY <1>4 DEF StartNext
  <2>2. InTurn'
    BY <2>1 DEF InTurn
  <2>3. Recent'
    <3> SUFFICES ASSUME NEW p \in procs, p.key = key
                 PROVE  /\ p.nth <= Len(begun) /\ p.age >= Seconds - left
                        /\ p.nth < Len(begun) => p.age >= Seconds + Seconds - left
        BY <2>1 DEF Recent
    <3> QED BY DEF ProcsInv, Recent
  <2>4. Shorter' /\ Life' /\ Spaced' /\ Pressed'
    BY <1>2, <2>1 DEF ProcsInv, Shorter, Life, Spaced, Pressed
  <2> QED BY <2>1, <2>2, <2>3, <2>4, EmptySeq DEF TypeOK, Texts, ProcsInv
<1> QED BY <1>3, <1>4

\* A key replaces what was queued.
LEMMA PressStep ==
  ASSUME BlinkInv, NEW ports \in Seq(PortNames), Press(ports),
         report' \in Reports \cup {None}, selected' \in PortNames \cup {None},
         applied' \in 0 .. MaxApplied
  PROVE  BlinkInv'
<1>1. /\ keys \in Nat /\ keys + 1 \in 1 .. MaxKeys /\ keys' = keys + 1 /\ turn' = ports
      /\ TypeOK /\ ProcsInv /\ \A p \in procs : p.key \in Nat /\ p.key <= keys
  BY DEF BlinkInv, Press, TypeOK, Processes, ProcsInv, Pressed
<1>2. CASE ports = << >>
  <2>1. /\ queue' = << >> /\ started' = << >> /\ gaveUp' = FALSE
        /\ UNCHANGED <<left, procs, status>>
    BY <1>2 DEF Press
  <2>2. TypeOK'
    <3>1. queue' \in Seq(PortNames) /\ started' \in Seq(PortNames)
      BY <2>1, EmptySeq
    <3>2. turn' \in Seq(PortNames)
      BY <1>1
    <3>3. keys' \in 0 .. MaxKeys
      BY <1>1
    <3> QED BY <1>1, <2>1, <3>1, <3>2, <3>3 DEF TypeOK
  <2>3. InTurn' /\ Shorter' /\ Life' /\ Spaced' /\ Pressed'
    BY <1>1, <1>2, <2>1 DEF InTurn, ProcsInv, Shorter, Life, Spaced, Pressed
  <2>4. Recent'
    BY <1>1, <2>1 DEF Recent
  <2> QED BY <2>2, <2>3, <2>4 DEF BlinkInv, ProcsInv
<1>3. CASE ports # << >>
  <2>1. StartNext(ports, << >>, keys + 1)
    BY <1>3 DEF Press
  <2>2. turn' = << >> \o ports /\ << >> \in Seq(PortNames)
    BY <1>1, ConcatEmptySeq, EmptySeq
  <2>3. keys <= keys + 1 /\ \A p \in procs : p.key # keys + 1
    BY <1>1
  <2>4. /\ queue' \in Seq(PortNames) /\ left' \in 0 .. Seconds /\ procs' \subseteq Processes
        /\ status' \in Texts /\ started' \in Seq(PortNames) /\ gaveUp' \in BOOLEAN
        /\ InTurn' /\ ProcsInv'
    BY <1>1, <1>3, <2>1, <2>2, <2>3, StartKeeps
  <2>5. keys' \in 0 .. MaxKeys
    BY <1>1
  <2> QED BY <1>1, <2>4, <2>5 DEF BlinkInv, TypeOK
<1> QED BY <1>2, <1>3

\* The timer begins the next blink when the countdown is over, and then no process
\* has more left than a start takes.
LEMMA TickStep ==
  ASSUME BlinkInv, Tick
  PROVE  /\ BlinkInv'
         /\ queue' = << >> /\ ~gaveUp' => \A p \in procs' : p.wait + p.left <= Delay
<1>1. /\ TypeOK /\ InTurn /\ ProcsInv /\ queue # << >>
      /\ UNCHANGED <<report, applied, selected, keys, turn>>
  BY DEF BlinkInv, Tick
<1>2. CASE left > 0
  <2>1. status' = <<"blinking", queue[1]>> /\ UNCHANGED <<queue, left, procs, started, gaveUp>>
    BY <1>2 DEF Tick
  <2>2. queue[1] \in PortNames
    BY <1>1, HeadTailProperties DEF TypeOK
  <2>3. TypeOK'
    BY <1>1, <2>1, <2>2 DEF TypeOK, Texts
  <2>4. InTurn' /\ ProcsInv'
    BY <1>1, <2>1 DEF InTurn, ProcsInv, Shorter, Life, Spaced, Recent, Pressed
  <2> QED BY <1>1, <2>1, <2>3, <2>4 DEF BlinkInv
<1>3. CASE ~(left > 0)
  <2>1. left = 0 /\ \A p \in procs : p.wait + p.left <= Delay
    BY <1>1, <1>3, Numbers DEF ProcsInv, Shorter
  <2>2. turn = started \o Tail(queue) /\ started # << >>
    BY <1>1 DEF InTurn
  <2>3. queue \in Seq(PortNames) /\ started \in Seq(PortNames)
    BY <1>1 DEF TypeOK
  <2>4. CASE Len(queue) > 1
    <3>1. StartNext(Tail(queue), started, keys)
      BY <1>3, <2>4 DEF Tick
    <3>2. Tail(queue) \in Seq(PortNames) /\ Tail(queue) # << >>
      BY <2>3, <2>4, MoreLeft
    <3>3. keys \in 1 .. MaxKeys /\ keys <= keys
      BY <1>1 DEF TypeOK, ProcsInv, Pressed
    <3>4. turn' = started \o Tail(queue) /\ keys' = keys
      BY <1>1, <2>2
    <3>5. \A p \in procs : p.key = keys =>
            /\ p.nth <= Len(started) /\ p.age >= Seconds
            /\ p.nth < Len(started) => p.age >= Seconds + Seconds
      BY <1>1, <2>1 DEF ProcsInv, Recent
    <3>6. /\ queue' \in Seq(PortNames) /\ left' \in 0 .. Seconds /\ procs' \subseteq Processes
          /\ status' \in Texts /\ started' \in Seq(PortNames) /\ gaveUp' \in BOOLEAN
          /\ InTurn' /\ ProcsInv'
      BY <1>1, <2>3, <3>1, <3>2, <3>3, <3>4, <3>5, StartKeeps
    <3>7. queue' = << >> => gaveUp'
      BY <3>1, <3>2 DEF StartNext
    <3>8. TypeOK'
      BY <1>1, <3>6 DEF TypeOK
    <3> QED BY <3>6, <3>7, <3>8 DEF BlinkInv
  <2>5. CASE ~(Len(queue) > 1)
    <3>1. queue' = << >> /\ status' = <<"finished">> /\ UNCHANGED <<left, procs, started, gaveUp>>
      BY <1>3, <2>5 DEF Tick
    <3>2. started' = turn'
      BY <1>1, <2>2, <2>3, <2>5, <3>1, OneLeft
    <3>3. TypeOK'
      BY <1>1, <3>1, EmptySeq DEF TypeOK, Texts
    <3>4. InTurn' /\ ProcsInv'
      BY <1>1, <3>1, <3>2 DEF InTurn, ProcsInv, Shorter, Life, Spaced, Recent, Pressed
    <3> QED BY <2>1, <3>1, <3>3, <3>4 DEF BlinkInv
  <2> QED BY <2>4, <2>5
<1> QED BY <1>2, <1>3

\* The countdown and the processes lose the same time.
LEMMA LaterStep ==
  ASSUME BlinkInv, Later
  PROVE  BlinkInv'
<1>1. /\ TypeOK /\ InTurn /\ ProcsInv
      /\ left' = (IF left > 0 THEN left - 1 ELSE 0)
      /\ procs' = {Older(p) : p \in {q \in procs : ~Over(q)}}
      /\ UNCHANGED <<report, applied, selected, keys, queue, status, turn, started, gaveUp>>
  BY DEF BlinkInv, Later
<1>2. /\ left \in Nat /\ left <= Seconds /\ left' \in 0 .. Seconds /\ left' \in Nat
      /\ left' <= left /\ left <= left' + 1
  BY <1>1, Numbers
<1>3. ASSUME NEW r \in procs'
      PROVE  \E p \in procs :
               /\ r \in Processes /\ r.key = p.key /\ r.nth = p.nth /\ r.age = p.age + 1
               /\ r.wait + r.left = p.wait + p.left - 1
  <2>1. PICK p \in procs : ~Over(p) /\ r = Older(p)
    BY <1>1, <1>3
  <2>2. /\ p.port \in PortNames /\ p.wait \in 0 .. Delay /\ p.left \in 1 .. Seconds
        /\ p.age \in 0 .. Seconds + Delay /\ p.key \in 1 .. MaxKeys /\ p.nth \in Nat \ {0}
    BY <1>1 DEF TypeOK, Processes
  <2>3. p.age + 1 <= Seconds + Delay
    BY <1>1, <2>2 DEF ProcsInv, Life
  <2>4. /\ r.key = p.key /\ r.nth = p.nth /\ r.age = p.age + 1 /\ r.port = p.port
        /\ r.wait = (IF p.wait > 0 THEN p.wait - 1 ELSE 0)
        /\ r.left = (IF p.wait > 0 THEN p.left ELSE p.left - 1)
    BY <2>1 DEF Older
  <2>5. r.wait \in 0 .. Delay /\ r.left \in 1 .. Seconds /\ r.wait + r.left = p.wait + p.left - 1
    <3>1. ~(p.wait = 0 /\ p.left = 1)
      BY <2>1 DEF Over
    <3>2. Seconds \in Nat /\ Delay \in Nat
      BY Bounds
    <3>3. p.wait \in 0 .. Delay /\ p.left \in 1 .. Seconds
      BY <2>2
    <3>4. /\ r.wait = (IF p.wait > 0 THEN p.wait - 1 ELSE 0)
          /\ r.left = (IF p.wait > 0 THEN p.left ELSE p.left - 1)
      BY <2>4
    <3> HIDE BlinkAssumption
    <3> QED BY <3>1, <3>2, <3>3, <3>4, OneUnitLess
  <2>6. r \in Processes
    <3>1. r = [port |-> r.port, wait |-> r.wait, left |-> r.left, age |-> r.age,
               key |-> r.key, nth |-> r.nth]
      BY <2>1 DEF Older
    <3>2. r.age \in 0 .. Seconds + Delay
      BY <2>2, <2>3, <2>4
    <3> QED BY <2>2, <2>4, <2>5, <3>1, <3>2 DEF Processes
  <2> QED BY <2>4, <2>5, <2>6
<1>4. TypeOK'
  <2>1. procs' \subseteq Processes
    BY <1>3
  <2> QED BY <1>1, <1>2, <2>1 DEF TypeOK
<1>5. Shorter' /\ Life'
  <2> SUFFICES ASSUME NEW r \in procs'
               PROVE  r.wait + r.left <= left' + Delay /\ r.age + r.wait + r.left <= Seconds + Delay
      BY DEF Shorter, Life
  <2>1. PICK p \in procs : /\ r \in Processes /\ r.age = p.age + 1
                           /\ r.wait + r.left = p.wait + p.left - 1
    BY <1>3
  <2>2. p.wait + p.left <= left + Delay /\ p.age + p.wait + p.left <= Seconds + Delay
    BY <1>1 DEF ProcsInv, Shorter, Life
  <2>3. p.wait \in Nat /\ p.left \in Nat /\ p.age \in Nat
    BY <1>1, Numbers
  <2>4. r.wait \in Nat /\ r.left \in Nat /\ r.age \in Nat
    <3>1. r.wait \in 0 .. Delay /\ r.left \in 1 .. Seconds /\ r.age \in 0 .. Seconds + Delay
      BY <2>1 DEF Processes
    <3> QED BY <3>1, Bounds
  <2>5. left \in Nat /\ left' \in Nat /\ left <= left' + 1
    BY <1>2
  <2>6. Seconds \in Nat /\ Delay \in Nat
    BY Bounds
  <2> HIDE BlinkAssumption
  <2> QED BY <2>1, <2>2, <2>3, <2>4, <2>5, <2>6, UnitSums
<1>6. Spaced'
  <2> SUFFICES ASSUME NEW r \in procs', NEW t \in procs', r.key = t.key, r.nth < t.nth
               PROVE  /\ r.age >= t.age + Seconds
                      /\ r.nth + 1 # t.nth => r.age >= t.age + Seconds + Seconds
      BY DEF Spaced
  <2>1. PICK p \in procs : r.key = p.key /\ r.nth = p.nth /\ r.age = p.age + 1
    BY <1>3
  <2>2. PICK q \in procs : t.key = q.key /\ t.nth = q.nth /\ t.age = q.age + 1
    BY <1>3
  <2>3. /\ p.age >= q.age + Seconds
        /\ p.nth + 1 # q.nth => p.age >= q.age + Seconds + Seconds
    BY <1>1, <2>1, <2>2 DEF ProcsInv, Spaced
  <2>4. p.age \in Nat /\ q.age \in Nat
    BY <1>1, Numbers
  <2> QED BY <2>1, <2>2, <2>3, <2>4
<1>7. Recent'
  <2> SUFFICES ASSUME NEW r \in procs', r.key = keys
               PROVE  /\ r.nth <= Len(started) /\ r.age >= Seconds - left'
                      /\ r.nth < Len(started) => r.age >= Seconds + Seconds - left'
      BY <1>1 DEF Recent
  <2>1. PICK p \in procs : r.key = p.key /\ r.nth = p.nth /\ r.age = p.age + 1
    BY <1>3
  <2>2. /\ p.nth <= Len(started) /\ p.age >= Seconds - left
        /\ p.nth < Len(started) => p.age >= Seconds + Seconds - left
    BY <1>1, <2>1 DEF ProcsInv, Recent
  <2>3. p.age \in Nat /\ Seconds \in Nat
    BY <1>1, Numbers, Bounds
  <2>4. left \in Nat /\ left' \in Nat /\ left <= left' + 1
    BY <1>2
  <2>5. /\ p.age >= Seconds - left => r.age >= Seconds - left'
        /\ p.age >= Seconds + Seconds - left => r.age >= Seconds + Seconds - left'
    <3> HIDE BlinkAssumption
    <3> QED BY <2>1, <2>3, <2>4, AgeSums
  <2> QED BY <2>1, <2>2, <2>5
<1>8. InTurn' /\ Pressed'
  <2>1. \A r \in procs' : r.key <= keys
    BY <1>1, <1>3 DEF ProcsInv, Pressed
  <2> QED BY <1>1, <2>1 DEF InTurn, ProcsInv, Pressed
<1> QED BY <1>4, <1>5, <1>6, <1>7, <1>8 DEF BlinkInv, ProcsInv

LEMMA EndEarlyStep ==
  ASSUME BlinkInv, EndEarly
  PROVE  BlinkInv'
BY DEF BlinkInv, EndEarly, TypeOK, InTurn, ProcsInv, Shorter, Life, Spaced, Recent, Pressed

LEMMA BlinkStep == BlinkInv /\ [Next]_vars => BlinkInv'
<1> SUFFICES ASSUME BlinkInv, [Next]_vars PROVE BlinkInv'
    OBVIOUS
<1>1. TypeOK
  BY DEF BlinkInv
<1>2. CASE UNCHANGED vars
  BY <1>2 DEF vars, BlinkInv, TypeOK, InTurn, ProcsInv, Shorter, Life, Spaced, Recent, Pressed
<1>3. CASE Apply
  <2>1. /\ applied' \in 0 .. MaxApplied /\ report' \in Reports
        /\ selected' = (IF selected = None /\ report' # << >> THEN report'[1] ELSE selected)
        /\ status' = <<"other">> /\ UNCHANGED <<keys, queue, left, procs, turn, started, gaveUp>>
    BY <1>1, <1>3 DEF Apply, TypeOK
  <2>2. report' # << >> => report'[1] \in PortNames
    BY <2>1, HeadTailProperties
  <2>3. TypeOK'
    BY <1>1, <2>1, <2>2 DEF TypeOK, Texts
  <2> QED BY <2>1, <2>3 DEF BlinkInv, InTurn, ProcsInv, Shorter, Life, Spaced, Recent, Pressed
<1>4. CASE Highlight
  <2>1. report \in Seq(PortNames) /\ Range(report) \subseteq PortNames
    BY <1>1, <1>4, RangeOfSeq DEF Highlight, TypeOK
  <2>2. TypeOK'
    BY <1>1, <1>4, <2>1 DEF Highlight, TypeOK, blinkVars
  <2> QED BY <1>4, <2>2 DEF Highlight, blinkVars, BlinkInv, InTurn, ProcsInv, Shorter, Life, Spaced, Recent, Pressed
<1>5. ASSUME NEW ports \in Seq(PortNames), Press(ports) PROVE BlinkInv'
  <2>1. UNCHANGED <<report, applied, selected>>
    BY <1>5 DEF Press
  <2> QED BY <1>1, <1>5, <2>1, PressStep DEF TypeOK
<1>6. CASE ActionBlink
  <2>1. report \in Seq(PortNames) /\ selected \in PortNames
    BY <1>1, <1>6, RangeOfSeq DEF ActionBlink, TypeOK
  <2>2. <<selected>> \in Seq(PortNames)
    BY <2>1
  <2> QED BY <1>5, <1>6, <2>2 DEF ActionBlink
<1>7. CASE ActionBlinkAll
  <2>1. report \in Seq(PortNames) /\ Press(report)
    BY <1>1, <1>7 DEF ActionBlinkAll, TypeOK
  <2> QED BY <1>5, <2>1
<1> QED BY <1>2, <1>3, <1>4, <1>6, <1>7, TickStep, LaterStep, EndEarlyStep DEF Next

THEOREM BlinkInvHolds == Spec => []BlinkInv
BY BlinkInit, BlinkStep, PTL DEF Spec

\* tui/app.py:223-370: the variables of the interface's blinking keep their types,
\* and a process that was started never has more time than a blink lasts.
THEOREM BlinkTypeCorrect == Spec => []TypeOK
<1>1. BlinkInv => TypeOK
  BY DEF BlinkInv
<1> QED BY <1>1, BlinkInvHolds, PTL

\* tui/app.py:58: a pass blinks the ports of its key in order, none twice and none
\* left out.
THEOREM InTurnHolds == Spec => []InTurn
<1>1. BlinkInv => InTurn
  BY DEF BlinkInv
<1> QED BY <1>1, BlinkInvHolds, PTL

\* tui/app.py:345-370: a key has two processes only while the later one is no older
\* than a process takes to start.
THEOREM InTurnButForStartUpHolds == Spec => []InTurnButForStartUp
<1>1. BlinkInv => InTurnButForStartUp
  <2> SUFFICES ASSUME BlinkInv, NEW p \in procs, NEW q \in procs, p.key = q.key, p.nth < q.nth
               PROVE  q.nth = p.nth + 1 /\ q.age < Delay
      BY DEF InTurnButForStartUp
  <2>1. /\ p.age \in Nat /\ q.age \in Nat /\ p.wait \in Nat /\ p.left \in Nat \ {0}
        /\ p.nth \in Nat /\ q.nth \in Nat
    BY Numbers DEF BlinkInv
  <2>2. p.age + p.wait + p.left <= Seconds + Delay
    BY DEF BlinkInv, ProcsInv, Life
  <2>3. /\ p.age >= q.age + Seconds
        /\ p.nth + 1 # q.nth => p.age >= q.age + Seconds + Seconds
    BY DEF BlinkInv, ProcsInv, Spaced
  <2>4. p.age < Seconds + Delay /\ Delay <= Seconds
    BY <2>1, <2>2
  <2> QED BY <2>1, <2>3, <2>4
<1> QED BY <1>1, BlinkInvHolds, PTL

\* tui/app.py:370: after "Blink finished." an LED is on for no longer than a process
\* takes to start, those of replaced queues included.
THEOREM FinishedSoonDarkHolds == Spec => FinishedSoonDark
<1>1. ASSUME BlinkInv, [Next]_vars, queue # << >>, queue' = << >>, keys' = keys, ~gaveUp'
      PROVE  \A p \in procs' : p.wait + p.left <= Delay
  <2>1. keys \in Nat
    BY <1>1 DEF BlinkInv, TypeOK
  <2>2. ~ \E ports : Press(ports)
    BY <1>1, <2>1 DEF Press
  <2>3. ~ActionBlink /\ ~ActionBlinkAll
    BY <2>2 DEF ActionBlink, ActionBlinkAll
  <2>4. ~(UNCHANGED queue)
    BY <1>1
  <2>5. Tick
    BY <1>1, <2>3, <2>4 DEF Next, vars, Apply, Highlight, blinkVars, Later, EndEarly
  <2> QED BY <1>1, <2>5, TickStep
<1>2. BlinkInv /\ [Next]_vars =>
        [queue # << >> /\ queue' = << >> /\ keys' = keys /\ ~gaveUp' =>
           \A p \in procs' : p.wait + p.left <= Delay]_vars
  BY <1>1
<1> QED BY <1>2, BlinkInvHolds, PTL DEF Spec, FinishedSoonDark
=============================================================================
