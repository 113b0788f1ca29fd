---------------------------- MODULE CaptureProof ----------------------------
(***************************************************************************)
(* What holds of recordings and replays for any ports, clocks, answers and *)
(* command lines: a capture file that loads is a whole recording, a replay *)
(* shows no answer that the machine did not give, and under the options of *)
(* the recording it shows what the recording run showed.                   *)
(***************************************************************************)
EXTENDS Capture, WellFoundedInduction, TLAPS

\* How far a run is, and what that says of its capture.
Along ==
  /\ mode = "off" => pc = "over" /\ given = [r \in Requests |-> {}]
  /\ pc \in {"meta", "save", "dump"} => mode = "record" /\ AllAsked
  /\ pc \in {"save", "dump"} => meta = flags.root
  /\ mode = "replay" => Loads /\ store = file.store

\* A capture holds, under the key of a request, an answer to that request.
Keeps(answers, asked) ==
  \A r \in Requests : IF asked[r] = {} THEN answers[Key(r)] = Missing
                      ELSE answers[Key(r)] \in asked[r]
Kept == mode = "record" => Keeps(store, given)

\* What a port's job has asked for by the time it comes to a request.
Asked ==
  \A p \in Ports : /\ pos[p] > 1 => got[p]["stamp"] # NotAsked
                   /\ pos[p] > 5 => Shown(got, p).features[2] # NotAsked

\* A listing hears of the device of every port, unless --include-virtual.
Looked ==
  /\ mode # "off" /\ pc # "probe" => flags.virtual \/ \A p \in Ports : listing[p] # NotAsked
  /\ mode = "record" => \A p \in Ports : listing[p] # NotAsked => given[DeviceRequest(p)] # {}

CaptureInv == TypeOK /\ Along /\ Looked /\ Kept /\ Asked /\ WholeRecording /\ ReplayReal

-----------------------------------------------------------------------------
(* Requests and answers                                                    *)

USE CaptureAssumption, NoneAssumption

\* A set of ports that is not empty has a first one.
LEMMA FirstPortOf ==
  ASSUME NEW ports \in SUBSET Ports, ports # {}
  PROVE  FirstPort(ports) \in ports
<1> DEFINE less == {ss \in Nat \X Nat : ss[1] < ss[2]}
<1>1. ports \subseteq Nat
  BY DEF Ports
<1>2. \E x \in ports : \A y \in ports : ~ (<<y, x>> \in less)
  <2>1. IsWellFoundedOn(less, Nat)
    BY NatLessThanWellFounded, Zenon DEF OpToRel
  <2> HIDE DEF less
  <2> QED BY <1>1, <2>1, WFMin, Zenon
<1>3. PICK x \in ports : \A y \in ports : ~ (<<y, x>> \in less)
  BY <1>2
<1>4. \A y \in ports : x <= y
  <2> SUFFICES ASSUME NEW y \in ports PROVE x <= y
      OBVIOUS
  <2>1. ~(y < x)
    BY <1>1, <1>3
  <2> QED BY <1>1, <2>1
<1> QED BY <1>4 DEF FirstPort

LEMMA KindAt ==
  /\ Kind[1] = "stamp" /\ Kind[2] = "stamp json" /\ Kind[3] = "ioctl"
  /\ Kind[4] = "features json" /\ Kind[5] = "features"
BY DEF Kind

LEMMA KindsOf == \A i \in 1 .. 5 : Kind[i] \in Kinds
<1> SUFFICES ASSUME NEW i \in 1 .. 5 PROVE Kind[i] \in Kinds
    OBVIOUS
<1>1. i = 1 \/ i = 2 \/ i = 3 \/ i = 4 \/ i = 5
  OBVIOUS
<1> QED BY <1>1, KindAt DEF Kinds

LEMMA RequestsOf ==
  /\ \A kind \in Kinds, p \in Ports : Request(kind, p) \in Requests
  /\ LspciRequest \in Requests /\ Requests \subseteq Keys
  /\ \A p \in Ports : DeviceRequest(p) \in Requests
BY DEF Request, Requests, Keys

\* A recording without an answer says "no such thing" of a device only.
LEMMA DeviceOnly ==
  /\ \A kind \in Kinds, p \in Ports : Request(kind, p)[1] # "device"
  /\ LspciRequest[1] # "device" /\ \A p \in Ports : DeviceRequest(p)[1] = "device"
BY DEF Request, Kinds, LspciRequest, DeviceRequest

\* A run lists a port at least, whatever it hears of the devices.
LEMMA SomeName ==
  ASSUME NEW f \in Flags, NEW answers
  PROVE  /\ Listed(f, answers) \in SUBSET Ports /\ Listed(f, answers) # {}
         /\ FirstPort(Listed(f, answers)) \in Listed(f, answers)
<1>1. Listed(f, answers) \in SUBSET Ports /\ Listed(f, answers) # {}
  BY DEF Flags, Listed
<1> QED BY <1>1, FirstPortOf

\* What a door of the run does with one request.
LEMMA AnsweredDoes ==
  ASSUME TypeOK, NEW request \in Requests, NEW a, Answered(request, a)
  PROVE  /\ store' \in Stores /\ given' \in [Requests -> SUBSET Answers]
         /\ a \in Got /\ a # NotAsked
         /\ mode = "replay" => a = Replayed(request) /\ UNCHANGED <<store, given>>
         /\ mode = "replay" /\ request[1] # "device" => a = store[request]
         /\ Kept /\ mode = "record" => Keeps(store', given')
         /\ mode = "record" => given'[request] # {}
         /\ \A r \in Requests : given[r] # {} => given'[r] # {}
<1>1. request \in Keys /\ store \in Stores /\ given \in [Requests -> SUBSET Answers]
  BY RequestsOf DEF TypeOK
<1>2. CASE mode = "replay"
  <2>1. a = Replayed(request) /\ UNCHANGED <<store, given>>
    BY <1>2 DEF Answered
  <2>2. a \in Answers \cup {Missing}
    BY <1>1, <2>1 DEF Stores, Replayed, Key, Answers
  <2>3. request[1] # "device" => a = store[request]
    BY <2>1 DEF Replayed, Key
  <2> QED BY <1>1, <1>2, <2>1, <2>2, <2>3 DEF Got
<1>3. CASE mode # "replay"
  <2>1. /\ a \in Answers /\ store' = [store EXCEPT ![request] = a]
        /\ given' = [given EXCEPT ![request] = @ \cup {a}]
    BY <1>3 DEF Answered, Key
  <2>2. store' \in Stores /\ given' \in [Requests -> SUBSET Answers]
    BY <1>1, <2>1 DEF Stores
  <2>3. a \in Got /\ a # NotAsked
    BY <2>1 DEF Got
  <2>4. ASSUME Keeps(store, given) PROVE Keeps(store', given')
    <3> SUFFICES ASSUME NEW r \in Requests
                 PROVE  IF given'[r] = {} THEN store'[r] = Missing ELSE store'[r] \in given'[r]
        BY DEF Keeps, Key
    <3>1. r \in Keys
      BY RequestsOf
    <3>2. CASE r = request
      BY <1>1, <2>1, <3>1, <3>2 DEF Stores
    <3>3. CASE r # request
      <4>1. store'[r] = store[r] /\ given'[r] = given[r]
        BY <1>1, <2>1, <3>1, <3>3 DEF Stores
      <4> QED BY <2>4, <4>1 DEF Keeps, Key
    <3> QED BY <3>2, <3>3
  <2>5. given'[request] # {} /\ \A r \in Requests : given[r] # {} => given'[r] # {}
    BY <1>1, <2>1
  <2> QED BY <1>3, <2>2, <2>3, <2>4, <2>5 DEF Kept
<1> QED BY <1>2, <1>3

\* What a replay answers is what the machine answered.
LEMMA ReplayedIsReal ==
  ASSUME TypeOK, Along, WholeRecording, mode = "replay", NEW request \in Requests,
         store[request] \in Answers
  PROVE  store[request] \in taken.given[request]
BY DEF Along, WholeRecording, Key

-----------------------------------------------------------------------------
(* Types                                                                   *)

LEMMA AllPortsIsFlags == AllPorts \in Flags
<1>1. 1 \in Ports
  BY DEF Ports
<1> QED BY <1>1 DEF AllPorts, Flags

LEMMA TypeInit == Init => TypeOK
<1> SUFFICES ASSUME Init PROVE TypeOK
    OBVIOUS
<1>1. /\ Empty \in Stores /\ NotAsked \in Got /\ NoAnswers \in [Ports -> [Kinds -> Got]]
      /\ NoListing \in [Ports -> Got]
  BY DEF Empty, Stores, Got, NoAnswers, NoListing
<1>2. pos \in [Ports -> 1 .. 6] /\ given \in [Requests -> SUBSET Answers]
  BY DEF Init
<1>3. file \in [store : Stores, meta : BOOLEAN] \cup {Torn, None} /\ taken \in Takes \cup {None}
  BY DEF Init
<1> QED BY <1>1, <1>2, <1>3, AllPortsIsFlags DEF Init, TypeOK

LEMMA ProbeType ==
  ASSUME TypeOK, Probe
  PROVE  TypeOK' /\ \E a : Answered(Request("features json", FirstPort(Names)), a) /\ probe' = a
<1>1. PICK a \in Got :
        Answered(Request("features json", FirstPort(Names)), a) /\ probe' = a
  BY DEF Probe
<1>2. Request("features json", FirstPort(Names)) \in Requests
  <2>1. FirstPort(Names) \in Ports
    BY SomeName DEF TypeOK, Names
  <2> QED BY <2>1, RequestsOf DEF Kinds
<1>3. store' \in Stores /\ given' \in [Requests -> SUBSET Answers]
  BY <1>1, <1>2, AnsweredDoes
<1> QED BY <1>1, <1>3 DEF Probe, TypeOK

\* What is heard of the device behind one port.
LEMMA LookDoes ==
  ASSUME TypeOK, NEW p \in Ports, Look(p)
  PROVE  \E a \in Got \ {NotAsked} :
           /\ mode # "off" /\ pc = "probe" /\ ~flags.virtual /\ listing[p] = NotAsked
           /\ Answered(DeviceRequest(p), a) /\ listing' = [listing EXCEPT ![p] = a]
           /\ UNCHANGED <<mode, flags, pc, probe, lspci, got, pos, meta, file, taken>>
<1>1. PICK a \in Got : Answered(DeviceRequest(p), a) /\ listing' = [listing EXCEPT ![p] = a]
  BY DEF Look
<1>2. a # NotAsked
  BY <1>1, RequestsOf, AnsweredDoes
<1> QED BY <1>1, <1>2 DEF Look

LEMMA LookType ==
  ASSUME TypeOK, NEW p \in Ports, Look(p)
  PROVE  TypeOK'
<1>1. PICK a \in Got \ {NotAsked} :
        /\ Answered(DeviceRequest(p), a) /\ listing' = [listing EXCEPT ![p] = a]
        /\ UNCHANGED <<mode, flags, pc, probe, lspci, got, pos, meta, file, taken>>
  BY LookDoes
<1>2. store' \in Stores /\ given' \in [Requests -> SUBSET Answers]
  BY <1>1, RequestsOf, AnsweredDoes
<1>3. listing' \in [Ports -> Got]
  BY <1>1 DEF TypeOK
<1> QED BY <1>1, <1>2, <1>3 DEF TypeOK

LEMMA ScanType ==
  ASSUME TypeOK, Scan
  PROVE  TypeOK'
<1>1. store' \in Stores /\ given' \in [Requests -> SUBSET Answers] /\ lspci' \in Got
  <2>1. CASE MayScan
    <3>1. PICK a \in Got : Answered(LspciRequest, a) /\ lspci' = a
      BY <2>1 DEF Scan
    <3> QED BY <3>1, RequestsOf, AnsweredDoes
  <2>2. CASE ~MayScan
    BY <2>2 DEF Scan, TypeOK
  <2> QED BY <2>1, <2>2
<1> QED BY <1>1 DEF Scan, TypeOK

\* One request of one port's job, and the answer it gets.
LEMMA AskDoes ==
  ASSUME TypeOK, NEW p \in Ports, Ask(p)
  PROVE  \E kind \in Kinds, a \in Got \ {NotAsked} :
           /\ kind = Kind[pos[p]] /\ pos[p] \in 1 .. 5 /\ Wants(p, kind)
           /\ Answered(Request(kind, p), a)
           /\ got' = [got EXCEPT ![p][kind] = a] /\ pos' = [pos EXCEPT ![p] = @ + 1]
           /\ UNCHANGED <<mode, flags, listing, pc, probe, lspci, meta, file, taken>>
<1>1. pos[p] \in 1 .. 5 /\ Kind[pos[p]] \in Kinds
  BY KindsOf DEF TypeOK, Ask
<1>2. PICK a \in Got : /\ Answered(Request(Kind[pos[p]], p), a)
                       /\ got' = [got EXCEPT ![p][Kind[pos[p]]] = a]
  BY DEF Ask
<1>3. a # NotAsked
  BY <1>1, <1>2, RequestsOf, AnsweredDoes
<1> QED BY <1>1, <1>2, <1>3 DEF Ask

LEMMA AskType ==
  ASSUME TypeOK, NEW p \in Ports, Ask(p)
  PROVE  TypeOK'
<1>1. PICK kind \in Kinds, a \in Got \ {NotAsked} :
        /\ pos[p] \in 1 .. 5 /\ Answered(Request(kind, p), a)
        /\ got' = [got EXCEPT ![p][kind] = a] /\ pos' = [pos EXCEPT ![p] = @ + 1]
        /\ UNCHANGED <<mode, flags, listing, pc, probe, lspci, meta, file, taken>>
  BY AskDoes
<1>2. store' \in Stores /\ given' \in [Requests -> SUBSET Answers]
  BY <1>1, RequestsOf, AnsweredDoes
<1>3. got' \in [Ports -> [Kinds -> Got]]
  BY <1>1 DEF TypeOK
<1>4. pos' \in [Ports -> 1 .. 6]
  BY <1>1 DEF TypeOK
<1> QED BY <1>1, <1>2, <1>3, <1>4 DEF TypeOK

LEMMA BeginType ==
  ASSUME TypeOK, NEW m \in {"record", "replay"}, NEW f \in Flags, Begin(m, f),
         store' \in Stores, meta' \in BOOLEAN
  PROVE  TypeOK'
<1>1. /\ got' \in [Ports -> [Kinds -> Got]] /\ pos' \in [Ports -> 1 .. 6]
      /\ listing' \in [Ports -> Got]
  BY DEF Begin, NoAnswers, NoListing, Got
<1> QED BY <1>1 DEF Begin, TypeOK, Got

LEMMA TypeStep == TypeOK /\ [Next]_vars => TypeOK'
<1> SUFFICES ASSUME TypeOK, [Next]_vars PROVE TypeOK'
    OBVIOUS
<1>1. CASE UNCHANGED vars
  BY <1>1 DEF vars, runVars, TypeOK
<1>2. CASE StartRecord
  <2>1. Empty \in Stores
    BY DEF Empty, Stores
  <2> QED BY <1>2, <2>1, BeginType DEF StartRecord
<1>3. CASE StartReplay
  <2>1. file.store \in Stores /\ file.meta \in BOOLEAN
    BY <1>3 DEF StartReplay, TypeOK
  <2> QED BY <1>3, <2>1, BeginType DEF StartReplay
<1>4. ASSUME NEW p \in Ports, Skip(p) PROVE TypeOK'
  BY <1>4 DEF Skip, TypeOK
<1>5. CASE Return
  BY <1>5 DEF Return, runVars, TypeOK
<1>6. CASE SetMeta
  BY <1>6 DEF SetMeta, runVars, TypeOK, Flags
<1>7. CASE SaveOpen
  BY <1>7 DEF SaveOpen, runVars, TypeOK
<1>8. CASE SaveDump
  <2>1. file' \in [store : Stores, meta : BOOLEAN]
    BY <1>8 DEF SaveDump, TypeOK
  <2>2. taken' \in Takes
    BY <1>8 DEF SaveDump, TypeOK, Takes
  <2>3. UNCHANGED <<mode, flags, listing, probe, lspci, got, pos, store, meta, given>> /\ pc' = "over"
    BY <1>8 DEF SaveDump, runVars
  <2>4. /\ file' \in [store : Stores, meta : BOOLEAN] \cup {Torn, None}
        /\ taken' \in Takes \cup {None}
    BY <2>1, <2>2
  <2> QED BY <2>3, <2>4 DEF TypeOK
<1>9. CASE End
  <2>1. /\ NoAnswers \in [Ports -> [Kinds -> Got]] /\ Empty \in Stores /\ NotAsked \in Got
        /\ NoListing \in [Ports -> Got]
    BY DEF NoAnswers, NoListing, Got, Empty, Stores
  <2>2. /\ flags' \in Flags /\ listing' \in [Ports -> Got] /\ probe' \in Got /\ lspci' \in Got
        /\ got' \in [Ports -> [Kinds -> Got]] /\ store' \in Stores
    BY <1>9, <2>1, AllPortsIsFlags DEF End
  <2>3. pos' \in [Ports -> 1 .. 6] /\ given' \in [Requests -> SUBSET Answers]
    BY <1>9 DEF End
  <2>4. mode' = "off" /\ pc' = "over" /\ meta' = FALSE /\ UNCHANGED <<file, taken>>
    BY <1>9 DEF End
  <2> QED BY <2>2, <2>3, <2>4 DEF TypeOK
<1> QED BY <1>1, <1>2, <1>3, <1>4, <1>5, <1>6, <1>7, <1>8, <1>9, LookType, ProbeType, ScanType, AskType
        DEF Next

\* util/capture.py and run.py: a capture file holds an answer or nothing for every
\* request, and no run ever holds what is not an answer.
THEOREM CaptureTypeCorrect == Spec => []TypeOK
BY TypeInit, TypeStep, PTL DEF Spec

-----------------------------------------------------------------------------
(* The invariant                                                           *)

LEMMA NotAnswers == NotAsked \notin Answers /\ Missing \notin Answers
OBVIOUS

LEMMA CaptureInit == Init => CaptureInv
<1> SUFFICES ASSUME Init PROVE CaptureInv
    OBVIOUS
<1>1. /\ mode = "off" /\ pc = "over" /\ file = None /\ \A p \in Ports : pos[p] = 1
      /\ given = [r \in Requests |-> {}]
  BY DEF Init
<1>2. Along /\ Looked /\ Kept /\ Asked
  BY <1>1 DEF Along, Looked, Kept, Asked
<1>3. WholeRecording /\ ReplayReal
  BY <1>1 DEF WholeRecording, Loads, ReplayReal, Replaying
<1> QED BY <1>2, <1>3, TypeInit DEF CaptureInv

LEMMA LookStep ==
  ASSUME CaptureInv, TypeOK', NEW p \in Ports, Look(p)
  PROVE  CaptureInv'
<1>1. PICK a \in Got \ {NotAsked} :
        /\ mode # "off" /\ pc = "probe" /\ ~flags.virtual /\ listing[p] = NotAsked
        /\ Answered(DeviceRequest(p), a) /\ listing' = [listing EXCEPT ![p] = a]
        /\ UNCHANGED <<mode, flags, pc, probe, lspci, got, pos, meta, file, taken>>
  BY LookDoes DEF CaptureInv
<1>2. TypeOK /\ listing \in [Ports -> Got] /\ DeviceRequest(p) \in Requests
  BY RequestsOf DEF CaptureInv, TypeOK
<1>3. /\ mode = "replay" => a = Replayed(DeviceRequest(p)) /\ UNCHANGED <<store, given>>
      /\ mode = "record" => Keeps(store', given') /\ given'[DeviceRequest(p)] # {}
      /\ \A r \in Requests : given[r] # {} => given'[r] # {}
  BY <1>1, <1>2, AnsweredDoes DEF CaptureInv
<1>4. Along' /\ Kept' /\ Asked' /\ WholeRecording'
  BY <1>1, <1>3 DEF CaptureInv, Along, Kept, Asked, Shown, Best, WholeRecording, TakenNames, Loads
<1>7. Looked'
  <2>1. ASSUME mode = "record", NEW q \in Ports, listing'[q] # NotAsked
        PROVE  given'[DeviceRequest(q)] # {}
    <3>1. CASE q = p
      BY <1>3, <2>1, <3>1
    <3>2. CASE q # p
      <4>1. listing'[q] = listing[q] /\ DeviceRequest(q) \in Requests
        BY <1>1, <1>2, <3>2, RequestsOf
      <4> QED BY <1>3, <2>1, <4>1 DEF CaptureInv, Looked
    <3> QED BY <3>1, <3>2
  <2> QED BY <1>1, <2>1 DEF Looked
<1>5. ASSUME mode = "replay", a \in Answers
      PROVE  \/ a \in taken.given[DeviceRequest(p)]
             \/ a = Failed /\ taken.flags.virtual /\ ~flags.virtual
  <2>1. CASE store[DeviceRequest(p)] # Missing
    <3>1. a = store[DeviceRequest(p)]
      BY <1>3, <1>5, <2>1 DEF Replayed, Key
    <3>2. Along /\ WholeRecording /\ store[DeviceRequest(p)] \in Answers
      BY <1>5, <3>1 DEF CaptureInv
    <3>3. store[DeviceRequest(p)] \in taken.given[DeviceRequest(p)]
      BY <1>2, <1>5, <3>2, ReplayedIsReal
    <3> QED BY <3>1, <3>3
  <2>2. CASE store[DeviceRequest(p)] = Missing
    <3>1. a = Failed
      BY <1>3, <1>5, <2>2, DeviceOnly DEF Replayed, Key
    <3>2. taken.flags.virtual
      BY <1>5, <2>2 DEF CaptureInv, Along, WholeRecording, Key
    <3> QED BY <1>1, <3>1, <3>2
  <2> QED BY <2>1, <2>2
<1>6. ReplayReal'
  <2>1. ASSUME mode = "replay", NEW q \in Ports, listing'[q] \in Answers
        PROVE  \/ listing'[q] \in taken.given[DeviceRequest(q)]
               \/ listing'[q] = Failed /\ taken.flags.virtual /\ ~flags.virtual
    <3>1. CASE q = p
      BY <1>1, <1>2, <1>5, <2>1, <3>1
    <3>2. CASE q # p
      <4>1. listing'[q] = listing[q]
        BY <1>1, <1>2, <3>2
      <4> QED BY <2>1, <4>1 DEF CaptureInv, ReplayReal, Replaying
    <3> QED BY <3>1, <3>2
  <2> QED BY <1>1, <2>1 DEF CaptureInv, ReplayReal, Replaying
<1> QED BY <1>4, <1>6, <1>7 DEF CaptureInv

\* Once the listing is over, what was heard stays heard.
LEMMA LookedStays ==
  ASSUME Looked, mode # "off", pc # "probe", UNCHANGED <<mode, flags, listing>>,
         mode = "record" => \A r \in Requests : given[r] # {} => given'[r] # {}
  PROVE  Looked'
BY RequestsOf DEF Looked

LEMMA ProbeStep ==
  ASSUME CaptureInv, TypeOK', Probe
  PROVE  CaptureInv'
<1>1. PICK a : Answered(Request("features json", FirstPort(Names)), a) /\ probe' = a
  BY ProbeType DEF CaptureInv
<1>2. TypeOK /\ Request("features json", FirstPort(Names)) \in Requests
  <2>1. FirstPort(Names) \in Ports
    BY SomeName DEF CaptureInv, TypeOK, Names
  <2> QED BY <2>1, RequestsOf DEF CaptureInv, Kinds
<1>3. /\ mode # "off" /\ pc = "probe" /\ pc' = "lspci"
      /\ UNCHANGED <<mode, flags, listing, lspci, got, pos, meta, file, taken>>
  BY DEF Probe
<1>4. /\ mode = "replay" => UNCHANGED <<store, given>>
      /\ mode = "record" => Keeps(store', given')
      /\ \A r \in Requests : given[r] # {} => given'[r] # {}
  BY <1>1, <1>2, AnsweredDoes DEF CaptureInv
<1>5. Along' /\ Kept'
  BY <1>3, <1>4 DEF CaptureInv, Along, Kept, Loads
<1>6. Asked' /\ WholeRecording' /\ ReplayReal'
  BY <1>3 DEF CaptureInv, Asked, Shown, Best, WholeRecording, TakenNames, Loads, ReplayReal, Replaying
<1>7. Looked'
  BY <1>3, <1>4, RequestsOf DEF Probe, CaptureInv, Looked
<1> QED BY <1>5, <1>6, <1>7 DEF CaptureInv

LEMMA ScanStep ==
  ASSUME CaptureInv, TypeOK', Scan
  PROVE  CaptureInv'
<1>1. /\ mode # "off" /\ pc = "lspci" /\ pc' = "ports" /\ TypeOK
      /\ UNCHANGED <<mode, flags, listing, probe, got, pos, meta, file, taken>>
  BY DEF Scan, CaptureInv
<1>2. /\ mode = "replay" => UNCHANGED <<store, given>>
      /\ mode = "record" => Keeps(store', given')
      /\ \A r \in Requests : given[r] # {} => given'[r] # {}
      /\ lspci' = lspci \/ (mode = "replay" => lspci' = store[LspciRequest])
  <2>1. CASE MayScan
    <3>1. PICK a \in Got : Answered(LspciRequest, a) /\ lspci' = a
      BY <2>1 DEF Scan
    <3> QED BY <1>1, <3>1, RequestsOf, DeviceOnly, AnsweredDoes DEF CaptureInv
  <2>2. CASE ~MayScan
    BY <2>2 DEF Scan, CaptureInv, Kept, Keeps
  <2> QED BY <2>1, <2>2
<1>3. Along' /\ Kept'
  BY <1>1, <1>2 DEF CaptureInv, Along, Kept, Loads
<1>4. Asked' /\ WholeRecording' /\ Looked'
  BY <1>1, <1>2, LookedStays DEF CaptureInv, Asked, Shown, Best, WholeRecording, TakenNames, Loads
<1>5. ASSUME mode = "replay", lspci' \in Answers PROVE lspci' \in taken.given[LspciRequest]
  <2>1. CASE lspci' = lspci
    BY <1>5, <2>1 DEF CaptureInv, ReplayReal, Replaying
  <2>2. CASE lspci' = store[LspciRequest]
    BY <1>5, <2>2, ReplayedIsReal, RequestsOf DEF CaptureInv
  <2> QED BY <1>2, <1>5, <2>1, <2>2
<1>6. ReplayReal'
  BY <1>1, <1>5 DEF CaptureInv, ReplayReal, Replaying
<1> QED BY <1>3, <1>4, <1>6 DEF CaptureInv

LEMMA AskStep ==
  ASSUME CaptureInv, TypeOK', NEW p \in Ports, Ask(p)
  PROVE  CaptureInv'
<1>1. PICK kind \in Kinds, a \in Got \ {NotAsked} :
        /\ kind = Kind[pos[p]] /\ pos[p] \in 1 .. 5 /\ Wants(p, kind)
        /\ Answered(Request(kind, p), a)
        /\ got' = [got EXCEPT ![p][kind] = a] /\ pos' = [pos EXCEPT ![p] = @ + 1]
        /\ UNCHANGED <<mode, flags, listing, pc, probe, lspci, meta, file, taken>>
  BY AskDoes DEF CaptureInv
<1>2. /\ mode # "off" /\ pc = "ports" /\ TypeOK /\ Request(kind, p) \in Requests
      /\ got \in [Ports -> [Kinds -> Got]] /\ pos \in [Ports -> 1 .. 6]
  BY <1>1, RequestsOf DEF Ask, CaptureInv, TypeOK
<1>3. /\ mode = "replay" => a = store[Request(kind, p)] /\ UNCHANGED <<store, given>>
      /\ mode = "record" => Keeps(store', given')
      /\ \A r \in Requests : given[r] # {} => given'[r] # {}
  BY <1>1, <1>2, AnsweredDoes, DeviceOnly DEF CaptureInv
<1>4. \A q \in Ports, k \in Kinds :
        got'[q][k] = IF q = p /\ k = kind THEN a ELSE got[q][k]
  BY <1>1, <1>2
<1>9. pos'[p] = pos[p] + 1
  BY <1>1, <1>2
<1>10. "stamp" \in Kinds /\ "features" \in Kinds /\ "features json" \in Kinds
  BY DEF Kinds
<1>5. Along' /\ Kept'
  BY <1>1, <1>2, <1>3 DEF CaptureInv, Along, Kept, Loads
<1>6. WholeRecording' /\ Looked'
  BY <1>1, <1>2, <1>3, LookedStays DEF CaptureInv, WholeRecording, TakenNames, Loads
<1>7. Asked'
  <2> SUFFICES ASSUME NEW q \in Ports
               PROVE  /\ pos'[q] > 1 => got'[q]["stamp"] # NotAsked
                      /\ pos'[q] > 5 => Shown(got', q).features[2] # NotAsked
      BY DEF Asked
  <2>1. CASE q # p
    <3>1. got'[q] = got[q] /\ pos'[q] = pos[q]
      BY <1>1, <1>2, <2>1
    <3> QED BY <3>1 DEF CaptureInv, Asked, Shown, Best
  <2>2. CASE q = p /\ pos[p] = 1
    <3>0. kind = "stamp"
      BY <1>1, <2>2, KindAt, Zenon
    <3>1. kind = "stamp" /\ pos'[p] = 2
      BY <1>9, <2>2, <3>0
    <3>2. got'[p]["stamp"] # NotAsked
      BY <1>1, <1>4, <1>10, <3>1
    <3> QED BY <2>2, <3>1, <3>2
  <2>3. CASE q = p /\ pos[p] \in 2 .. 4
    <3>1. kind # "stamp"
      <4>1. pos[p] = 2 \/ pos[p] = 3 \/ pos[p] = 4
        BY <2>3
      <4> QED BY <1>1, <4>1, KindAt
    <3>2. pos[p] > 1 /\ ~(pos'[p] > 5)
      BY <1>9, <2>3
    <3>3. got'[p]["stamp"] = got[p]["stamp"]
      BY <1>4, <1>10, <3>1
    <3> QED BY <2>3, <3>2, <3>3 DEF CaptureInv, Asked
  <2>4. CASE q = p /\ pos[p] = 5
    <3>0. kind = "features"
      BY <1>1, <2>4, KindAt, Zenon
    <3>1. kind = "features" /\ pos[p] > 1
      BY <2>4, <3>0
    <3>2. /\ got'[p]["features"] = a
          /\ got'[p]["stamp"] = got[p]["stamp"]
          /\ got'[p]["features json"] = got[p]["features json"]
      BY <1>4, <1>10, <3>1
    <3>3. got[p]["features json"] \notin Values
      BY <1>1, <3>1 DEF Wants
    <3>4. Shown(got', p).features[2] # NotAsked
      BY <1>1, <3>2, <3>3 DEF Shown, Best
    <3>5. got'[p]["stamp"] # NotAsked
      BY <3>1, <3>2 DEF CaptureInv, Asked
    <3> QED BY <2>4, <3>4, <3>5
  <2> QED BY <1>1, <2>1, <2>2, <2>3, <2>4
<1>8. ReplayReal'
  <2>1. ASSUME mode = "replay", NEW q \in Ports, NEW k \in Kinds, got'[q][k] \in Answers
        PROVE  got'[q][k] \in taken.given[Request(k, q)]
    <3>1. CASE q = p /\ k = kind
      BY <1>2, <1>3, <1>4, <2>1, <3>1, ReplayedIsReal DEF CaptureInv
    <3>2. CASE ~(q = p /\ k = kind)
      BY <1>4, <2>1, <3>2 DEF CaptureInv, ReplayReal, Replaying
    <3> QED BY <3>1, <3>2
  <2> QED BY <1>1, <2>1 DEF CaptureInv, ReplayReal, Replaying
<1> QED BY <1>5, <1>6, <1>7, <1>8 DEF CaptureInv

\* The request that a job steps over is not the first, and the last one only if the
\* one before it was answered.
LEMMA SkipStep ==
  ASSUME CaptureInv, TypeOK', NEW p \in Ports, Skip(p)
  PROVE  CaptureInv'
<1>1. /\ mode # "off" /\ pc = "ports" /\ pos[p] \in 1 .. 5 /\ ~Wants(p, Kind[pos[p]])
      /\ pos' = [pos EXCEPT ![p] = @ + 1] /\ pos \in [Ports -> 1 .. 6]
      /\ UNCHANGED <<mode, flags, listing, pc, probe, lspci, got, store, meta, file, given, taken>>
  BY DEF Skip, CaptureInv, TypeOK
<1>2. Along' /\ Looked' /\ Kept' /\ WholeRecording' /\ ReplayReal'
  BY <1>1 DEF CaptureInv, Along, Looked, Kept, Keeps, WholeRecording, TakenNames, Loads, ReplayReal, Replaying
<1>3. Asked'
  <2> SUFFICES ASSUME NEW q \in Ports
               PROVE  /\ pos'[q] > 1 => got[q]["stamp"] # NotAsked
                      /\ pos'[q] > 5 => Shown(got, q).features[2] # NotAsked
      BY <1>1 DEF Asked, Shown, Best
  <2>1. CASE q # p
    BY <1>1, <2>1 DEF CaptureInv, Asked
  <2>2. pos'[p] = pos[p] + 1
    BY <1>1
  <2>3. pos[p] # 1
    <3>1. Kind[1] = "stamp" /\ Wants(p, "stamp")
      BY KindAt DEF Wants
    <3> QED BY <1>1, <3>1, Zenon
  <2>4. pos[p] > 1 /\ got[p]["stamp"] # NotAsked
    <3>1. pos[p] > 1
      BY <1>1, <2>3
    <3> QED BY <3>1 DEF CaptureInv, Asked
  <2>5. CASE q = p /\ pos[p] # 5
    <3>1. ~(pos'[p] > 5)
      BY <1>1, <2>2, <2>5
    <3> QED BY <2>4, <2>5, <3>1
  <2>6. CASE q = p /\ pos[p] = 5
    <3>1. ~Wants(p, "features")
      BY <1>1, <2>6, KindAt, Zenon
    <3>2. got[p]["features json"] \in Values
      BY <3>1 DEF Wants
    <3>3. Shown(got, p).features[2] # NotAsked
      BY <3>2, NotAnswers DEF Shown, Best, Answers
    <3> QED BY <2>4, <2>6, <3>3
  <2> QED BY <2>1, <2>5, <2>6
<1> QED BY <1>2, <1>3 DEF CaptureInv

LEMMA StartStep ==
  ASSUME CaptureInv, TypeOK', StartRecord \/ StartReplay
  PROVE  CaptureInv'
<1>1. PICK m \in {"record", "replay"}, f \in Flags : Begin(m, f)
  BY DEF StartRecord, StartReplay
<1>2. /\ mode' = m /\ pc' = "probe" /\ lspci' = NotAsked /\ got' = NoAnswers
      /\ pos' = [p \in Ports |-> 1] /\ UNCHANGED <<file, given, taken>> /\ mode = "off"
      /\ \A p \in Ports : listing'[p] = NotAsked
  BY <1>1 DEF Begin, NoListing
<1>3. WholeRecording' /\ Looked'
  BY <1>2 DEF CaptureInv, WholeRecording, TakenNames, Loads, Looked
<1>4. Asked'
  <2>1. \A p \in Ports : pos'[p] = 1
    BY <1>2
  <2> QED BY <2>1 DEF Asked
<1>5. ReplayReal'
  <2>1. \A p \in Ports, k \in Kinds : got'[p][k] \notin Answers
    BY <1>2, NotAnswers DEF NoAnswers
  <2> QED BY <1>2, <2>1, NotAnswers DEF ReplayReal
<1>6. CASE StartRecord
  <2>1. mode' = "record" /\ store' = Empty
    BY <1>6 DEF StartRecord, Begin
  <2>2. \A r \in Requests : given'[r] = {} /\ store'[Key(r)] = Missing
    BY <1>2, <2>1, RequestsOf DEF CaptureInv, Along, Empty, Key
  <2>3. Along' /\ Kept'
    BY <1>2, <2>1, <2>2 DEF Along, Kept, Keeps
  <2> QED BY <1>3, <1>4, <1>5, <2>3 DEF CaptureInv
<1>7. CASE StartReplay
  <2>1. mode' = "replay" /\ store' = file.store /\ Loads
    BY <1>7 DEF StartReplay, Begin, Loads
  <2>2. Along' /\ Kept'
    BY <1>2, <2>1 DEF Along, Kept, Loads
  <2> QED BY <1>3, <1>4, <1>5, <2>2 DEF CaptureInv
<1> QED BY <1>6, <1>7

\* The end of a run: what is not in the file is gone.
LEMMA EndStep ==
  ASSUME CaptureInv, TypeOK', End
  PROVE  CaptureInv'
<1>1. /\ mode' = "off" /\ pc' = "over" /\ pos' = [p \in Ports |-> 1]
      /\ given' = [r \in Requests |-> {}] /\ UNCHANGED <<file, taken>>
  BY DEF End
<1>2. Along' /\ Looked' /\ Kept' /\ Asked' /\ ReplayReal'
  BY <1>1 DEF Along, Looked, Kept, Asked, ReplayReal, Replaying
<1>3. WholeRecording'
  BY <1>1 DEF CaptureInv, WholeRecording, TakenNames, Loads
<1> QED BY <1>2, <1>3 DEF CaptureInv

\* The file gets the recording of a run that has asked for everything.
LEMMA SaveDumpStep ==
  ASSUME CaptureInv, TypeOK', SaveDump
  PROVE  CaptureInv'
<1>1. /\ pc = "dump" /\ pc' = "over" /\ file' = [store |-> store, meta |-> meta]
      /\ taken' = [flags |-> flags, listing |-> listing, probe |-> probe, lspci |-> lspci,
                   got |-> got, given |-> given]
      /\ UNCHANGED <<mode, flags, listing, probe, lspci, got, pos, store, meta, given>>
  BY DEF SaveDump, runVars
<1>2. TypeOK /\ mode = "record" /\ AllAsked /\ meta = flags.root /\ Keeps(store, given)
  BY <1>1 DEF CaptureInv, Along, Kept
<1>3. taken' # None
  <2>1. taken' \in Takes
    BY <1>1, <1>2 DEF Takes, TypeOK
  <2> QED BY <2>1
<1>4. \A p \in Names : /\ Shown(got, p).stamp[2] # NotAsked
                       /\ Shown(got, p).features[2] # NotAsked
  <2> SUFFICES ASSUME NEW p \in Names
               PROVE  Shown(got, p).stamp[2] # NotAsked /\ Shown(got, p).features[2] # NotAsked
      OBVIOUS
  <2>1. p \in Ports /\ pos[p] = 6
    BY <1>2, SomeName DEF TypeOK, Names, AllAsked
  <2>2. Asked /\ pos[p] > 1 /\ pos[p] > 5
    BY <2>1 DEF CaptureInv
  <2>3. NotAsked \notin Values
    BY NotAnswers DEF Answers
  <2> QED BY <2>1, <2>2, <2>3 DEF Asked, Shown, Best
<1>5. WholeRecording'
  <2>1. file'.meta = taken'.flags.root /\ file'.store = store /\ taken'.given = given
        /\ taken'.got = got /\ taken'.flags = flags
    BY <1>1, <1>2
  <2>2. \A r \in Requests : IF taken'.given[r] = {} THEN file'.store[Key(r)] = Missing
                            ELSE file'.store[Key(r)] \in taken'.given[r]
    BY <1>2, <2>1 DEF Keeps
  <2>3. TakenNames' = Names
    BY <1>1 DEF TakenNames, Names, Listed
  <2>4. flags.virtual \/ \A p \in Ports : store[DeviceRequest(p)] # Missing
    <3>1. flags.virtual \/ \A p \in Ports : given[DeviceRequest(p)] # {}
      BY <1>1, <1>2 DEF CaptureInv, Looked
    <3>2. \A p \in Ports : given[DeviceRequest(p)] # {} =>
                           store[DeviceRequest(p)] \in given[DeviceRequest(p)]
      BY <1>2, RequestsOf DEF Keeps, Key
    <3>3. \A p \in Ports : given[DeviceRequest(p)] \subseteq Answers
      BY <1>2, RequestsOf DEF TypeOK
    <3> QED BY <3>1, <3>2, <3>3, NotAnswers
  <2>5. taken'.flags.virtual \/ \A p \in Ports : file'.store[Key(DeviceRequest(p))'] # Missing
    BY <2>1, <2>4 DEF Key
  <2>6. \A p \in TakenNames' : /\ Shown(taken'.got, p).stamp[2] # NotAsked
                               /\ Shown(taken'.got, p).features[2] # NotAsked
    BY <1>4, <2>1, <2>3
  <2> QED BY <1>3, <2>1, <2>2, <2>5, <2>6 DEF WholeRecording, Key, Shown, Best
<1>6. Along' /\ Looked' /\ Kept' /\ Asked' /\ ReplayReal'
  BY <1>1, <1>2 DEF CaptureInv, Along, Looked, Kept, Asked, Shown, Best, ReplayReal, Replaying, Keeps
<1> QED BY <1>5, <1>6 DEF CaptureInv

LEMMA SaveOpenStep ==
  ASSUME CaptureInv, TypeOK', SaveOpen
  PROVE  CaptureInv'
<1>1. /\ pc = "save" /\ pc' = "dump" /\ file' = Torn /\ mode = "record" /\ AllAsked
      /\ UNCHANGED <<mode, flags, listing, probe, lspci, got, pos, store, meta, given>>
  BY DEF SaveOpen, runVars, CaptureInv, Along
<1>2. Along' /\ Looked' /\ Kept' /\ Asked' /\ ReplayReal'
  BY <1>1 DEF CaptureInv, Along, AllAsked, Names, Looked, Kept, Keeps, Asked, Shown, Best, ReplayReal,
              Replaying
<1>3. WholeRecording'
  BY <1>1 DEF WholeRecording, Loads
<1> QED BY <1>2, <1>3 DEF CaptureInv

LEMMA ReturnStep ==
  ASSUME CaptureInv, TypeOK', Return \/ SetMeta
  PROVE  CaptureInv'
<1>1. /\ \/ pc = "ports" /\ AllAsked /\ mode # "off" /\ meta' = meta
            /\ pc' = IF mode = "record" THEN "meta" ELSE "over"
         \/ pc = "meta" /\ pc' = "save" /\ meta' = flags.root
      /\ UNCHANGED <<mode, flags, listing, probe, lspci, got, pos, store, file, given, taken>>
  BY DEF Return, SetMeta, runVars
<1>2. Along'
  BY <1>1 DEF CaptureInv, Along, AllAsked, Names, Loads
<1>3. Looked' /\ Kept' /\ Asked' /\ ReplayReal' /\ WholeRecording'
  BY <1>1 DEF CaptureInv, Looked, Kept, Keeps, Asked, Shown, Best, ReplayReal, Replaying, WholeRecording,
              TakenNames, Loads
<1> QED BY <1>2, <1>3 DEF CaptureInv

LEMMA CaptureStep == CaptureInv /\ [Next]_vars => CaptureInv'
<1> SUFFICES ASSUME CaptureInv, [Next]_vars PROVE CaptureInv'
    OBVIOUS
<1>1. TypeOK'
  BY TypeStep DEF CaptureInv
<1>2. CASE UNCHANGED vars
  BY <1>1, <1>2 DEF vars, runVars, CaptureInv, Along, AllAsked, Names, Looked, Kept, Keeps,
                    Asked, Shown, Best, ReplayReal, Replaying, WholeRecording, TakenNames, Loads
<1>3. CASE Next
  BY <1>1, <1>3, StartStep, LookStep, ProbeStep, ScanStep, AskStep, SkipStep, ReturnStep, SaveOpenStep,
     SaveDumpStep, EndStep DEF Next
<1> QED BY <1>2, <1>3

THEOREM CaptureInvHolds == Spec => []CaptureInv
BY CaptureInit, CaptureStep, PTL DEF Spec

\* capture.py:3-5: whatever the options of the two runs were, a replay shows no
\* answer that the machine did not give to that very request.
THEOREM ReplayRealHolds == Spec => []ReplayReal
<1>1. CaptureInv => ReplayReal
  BY DEF CaptureInv
<1> QED BY <1>1, CaptureInvHolds, PTL

\* capture.py:55-62: wherever a recording run dies, a capture file that loads is the
\* recording of a whole collection and names the user who made it.
THEOREM WholeRecordingHolds == Spec => []WholeRecording
<1>1. CaptureInv => WholeRecording
  BY DEF CaptureInv
<1> QED BY <1>1, CaptureInvHolds, PTL
-----------------------------------------------------------------------------
(* Two runs                                                                *)

\* The job of port p asks for this in a run with the flags f, in which the probe
\* answered pr and the jobs have the answers g.
Must(f, pr, g, p, kind) ==
  \/ kind = "stamp"
  \/ kind = "stamp json" /\ g[p]["stamp"] \in Values /\ pr \in Values
  \/ kind = "ioctl" /\ g[p]["stamp"] \in Values /\ f.ioctl
  \/ kind = "features json" /\ pr \in Values
  \/ kind = "features" /\ g[p]["features json"] \notin Values

\* The jobs have asked for what they must, as far as they have come, and for nothing else.
Exactly(names, f, pr, g, at) ==
  \A p \in Ports, i \in 1 .. 5 :
    g[p][Kind[i]] # NotAsked <=> p \in names /\ at[p] > i /\ Must(f, pr, g, p, Kind[i])

\* What was given to each request is what the run has of it.  The features of the
\* first port are asked for twice; a clock may be asked through several ports.
GivenTo(names, li, pr, ls, g, asked) ==
  /\ \A p \in Ports : asked[DeviceRequest(p)] = {li[p]} \ {NotAsked}
  /\ asked[LspciRequest] = {ls} \ {NotAsked}
  /\ \A p \in Ports, kind \in Kinds \ {"ioctl"} :
       asked[Request(kind, p)] =
         ({g[p][kind]} \cup (IF kind = "features json" /\ p = FirstPort(names)
                                THEN {pr} ELSE {})) \ {NotAsked}
  /\ \A p \in Ports : g[p]["ioctl"] # NotAsked => g[p]["ioctl"] \in asked[Request("ioctl", p)]

AtEnd == [p \in Ports |-> 6]

Orderly ==
  mode # "off" =>
    /\ Exactly(Names, flags, probe, got, pos)
    /\ probe # NotAsked <=> pc # "probe"
    /\ lspci # NotAsked <=> pc \notin {"probe", "lspci"} /\ MayScan
    /\ pc \in {"probe", "lspci"} => \A p \in Ports : pos[p] = 1
    /\ flags.virtual => \A p \in Ports : listing[p] = NotAsked

Heard == mode = "record" => GivenTo(Names, listing, probe, lspci, got, given)

\* A replay has what its file holds under the key of each request.
Repeats ==
  mode = "replay" =>
    /\ meta = file.meta /\ (pc = "over" => AllAsked)
    /\ probe \in {NotAsked, store[Request("features json", FirstPort(Names))]}
    /\ lspci \in {NotAsked, store[LspciRequest]}
    /\ \A p \in Ports : listing[p] \in {NotAsked, Replayed(DeviceRequest(p))}
    /\ \A p \in Ports, kind \in Kinds : got[p][kind] \in {NotAsked, store[Request(kind, p)]}

\* The run whose capture loads went through all of this.
Finished ==
  Loads =>
    /\ Exactly(TakenNames, taken.flags, taken.probe, taken.got, AtEnd)
    /\ GivenTo(TakenNames, taken.listing, taken.probe, taken.lspci, taken.got, taken.given)
    /\ taken.probe # NotAsked
    /\ \A p \in Ports : taken.listing[p] = NotAsked <=> taken.flags.virtual
    /\ taken.lspci # NotAsked <=> taken.flags.root \/ ~taken.flags.skip

ReplayInv == CaptureInv /\ Orderly /\ Heard /\ Repeats /\ Finished

LEMMA ReplayInit == Init => ReplayInv
<1> SUFFICES ASSUME Init PROVE ReplayInv
    OBVIOUS
<1>1. mode = "off" /\ file = None
  BY DEF Init
<1> QED BY <1>1, CaptureInit DEF ReplayInv, Orderly, Heard, Repeats, Finished, Loads

\* Requests of two kinds differ, and those of two ports that are not about a clock.
LEMMA RequestsApart ==
  /\ \A k, l \in Kinds, p, q \in Ports :
       Request(k, p) = Request(l, q) => k = l /\ (k # "ioctl" => p = q)
  /\ \A k \in Kinds, p \in Ports : Request(k, p) # LspciRequest
  /\ \A k \in Kinds, p, q \in Ports : Request(k, p) # DeviceRequest(q)
  /\ \A p \in Ports : DeviceRequest(p) # LspciRequest
  /\ \A p, q \in Ports : DeviceRequest(p) = DeviceRequest(q) => p = q
BY DEF Request, Kinds, LspciRequest, DeviceRequest

LEMMA KindsApart ==
  /\ \A i, j \in 1 .. 5 : Kind[i] = Kind[j] => i = j
  /\ \A kind \in Kinds : \E i \in 1 .. 5 : kind = Kind[i]
<1>1. \A i \in 1 .. 5 : i = 1 \/ i = 2 \/ i = 3 \/ i = 4 \/ i = 5
  OBVIOUS
<1>2. \A i, j \in 1 .. 5 : Kind[i] = Kind[j] => i = j
  BY <1>1, KindAt
<1>3. 1 \in 1 .. 5 /\ 2 \in 1 .. 5 /\ 3 \in 1 .. 5 /\ 4 \in 1 .. 5 /\ 5 \in 1 .. 5
  OBVIOUS
<1>4. \A kind \in Kinds : \E i \in 1 .. 5 : kind = Kind[i]
  BY <1>3, KindAt DEF Kinds
<1> QED BY <1>2, <1>4

\* What a recording run keeps of who was told what.
LEMMA AnsweredGives ==
  ASSUME TypeOK, NEW request \in Requests, NEW a, Answered(request, a), mode = "record"
  PROVE  /\ given'[request] = given[request] \cup {a} /\ a # NotAsked
         /\ \A r \in Requests \ {request} : given'[r] = given[r]
<1>1. a \in Answers /\ given' = [given EXCEPT ![request] = @ \cup {a}]
  BY DEF Answered
<1>2. given \in [Requests -> SUBSET Answers]
  BY DEF TypeOK
<1> QED BY <1>1, <1>2, NotAnswers

\* What a job must ask next depends on its answer to `ethtool -T` and, at the end, on
\* that to `ethtool --json -k`.
LEMMA MustSame ==
  ASSUME NEW f, NEW pr, NEW g, NEW h, NEW p, NEW kind \in Kinds,
         kind = "stamp" \/ g[p]["stamp"] = h[p]["stamp"],
         kind # "features" \/ g[p]["features json"] = h[p]["features json"]
  PROVE  Must(f, pr, g, p, kind) <=> Must(f, pr, h, p, kind)
BY Zenon DEF Must

LEMMA WantsIsMust ==
  ASSUME NEW p \in Ports, NEW kind \in Kinds
  PROVE  Wants(p, kind) <=> Must(flags, probe, got, p, kind)
BY DEF Kinds, Wants, Must, Json

LEMMA FinishedStays == Finished /\ UNCHANGED <<file, taken>> => Finished'
BY DEF Finished, TakenNames, Loads

LEMMA NamesStay == UNCHANGED <<flags, listing>> => Names' = Names
BY DEF Names, Listed

\* Before the job of a port starts it has asked for nothing.
LEMMA NoneAskedYet ==
  ASSUME Orderly, mode # "off", pc = "probe"
  PROVE  /\ \A p \in Ports, kind \in Kinds : got[p][kind] = NotAsked
         /\ probe = NotAsked /\ lspci = NotAsked /\ \A p \in Ports : pos[p] = 1
<1>1. probe = NotAsked /\ lspci = NotAsked /\ \A p \in Ports : pos[p] = 1
  BY DEF Orderly
<1>2. ASSUME NEW p \in Ports, NEW i \in 1 .. 5 PROVE got[p][Kind[i]] = NotAsked
  BY <1>1 DEF Orderly, Exactly
<1> QED BY <1>1, <1>2, KindsApart

-----------------------------------------------------------------------------
(* Two runs, step by step                                                  *)

LEMMA LookOfTwo ==
  ASSUME ReplayInv, CaptureInv', NEW p \in Ports, Look(p)
  PROVE  ReplayInv'
<1>1. PICK a \in Got \ {NotAsked} :
        /\ mode # "off" /\ pc = "probe" /\ ~flags.virtual /\ listing[p] = NotAsked
        /\ Answered(DeviceRequest(p), a) /\ listing' = [listing EXCEPT ![p] = a]
        /\ UNCHANGED <<mode, flags, pc, probe, lspci, got, pos, meta, file, taken>>
  BY LookDoes DEF ReplayInv, CaptureInv
<1>2. /\ TypeOK /\ DeviceRequest(p) \in Requests /\ listing \in [Ports -> Got]
      /\ listing'[p] = a /\ \A q \in Ports \ {p} : listing'[q] = listing[q]
  BY <1>1, RequestsOf DEF ReplayInv, CaptureInv, TypeOK
<1>3. /\ \A q \in Ports, kind \in Kinds : got[q][kind] = NotAsked
      /\ probe = NotAsked /\ lspci = NotAsked /\ \A q \in Ports : pos[q] = 1
  BY <1>1, NoneAskedYet DEF ReplayInv
<1>4. Orderly'
  <2>1. Exactly(Names', flags, probe, got, pos)
    BY <1>3, KindsOf DEF Exactly
  <2>2. Exactly(Names, flags, probe, got, pos)'
    BY <1>1, <2>1 DEF Exactly, Must
  <2> QED BY <1>1, <1>3, <2>2 DEF Orderly
<1>5. Heard'
  <2> SUFFICES ASSUME mode = "record" PROVE GivenTo(Names', listing', probe, lspci, got, given')
      BY <1>1 DEF Heard, GivenTo
  <2>1. /\ given'[DeviceRequest(p)] = given[DeviceRequest(p)] \cup {a}
        /\ \A r \in Requests \ {DeviceRequest(p)} : given'[r] = given[r]
    BY <1>1, <1>2, AnsweredGives
  <2>2. GivenTo(Names, listing, probe, lspci, got, given)
    BY DEF ReplayInv, Heard
  <2>3. \A q \in Ports : given'[DeviceRequest(q)] = {listing'[q]} \ {NotAsked}
    <3> SUFFICES ASSUME NEW q \in Ports PROVE given'[DeviceRequest(q)] = {listing'[q]} \ {NotAsked}
        OBVIOUS
    <3>1. given[DeviceRequest(q)] = {listing[q]} \ {NotAsked} /\ DeviceRequest(q) \in Requests
      BY <2>2, RequestsOf DEF GivenTo
    <3>2. q # p => DeviceRequest(q) # DeviceRequest(p)
      BY RequestsApart
    <3> QED BY <1>1, <1>2, <2>1, <3>1, <3>2
  <2>4. \A q \in Ports, kind \in Kinds : given'[Request(kind, q)] = given[Request(kind, q)]
    BY <2>1, RequestsApart, RequestsOf
  <2>5. given'[LspciRequest] = given[LspciRequest]
    BY <2>1, RequestsApart, RequestsOf
  <2>6. ASSUME NEW q \in Ports, NEW kind \in Kinds \ {"ioctl"}
        PROVE  given'[Request(kind, q)] = {}
    <3>1. given[Request(kind, q)] = {}
      <4>1. got[q][kind] = NotAsked /\ probe = NotAsked
        BY <1>3
      <4>2. given[Request(kind, q)] =
              ({got[q][kind]} \cup (IF kind = "features json" /\ q = FirstPort(Names)
                                      THEN {probe} ELSE {})) \ {NotAsked}
        BY <2>2 DEF GivenTo
      <4> QED BY <4>1, <4>2
    <3> QED BY <2>4, <3>1
  <2>7. \A q \in Ports : got[q]["ioctl"] = NotAsked
    BY <1>3 DEF Kinds
  <2>8. \A q \in Ports, kind \in Kinds \ {"ioctl"} : got[q][kind] = NotAsked
    BY <1>3
  <2>9. given'[LspciRequest] = {lspci} \ {NotAsked}
    BY <2>2, <2>5 DEF GivenTo
  <2> QED BY <1>3, <2>3, <2>6, <2>7, <2>8, <2>9 DEF GivenTo
<1>6. Repeats'
  <2> SUFFICES ASSUME mode = "replay" PROVE Repeats'
      BY <1>1 DEF Repeats
  <2>1. a = Replayed(DeviceRequest(p)) /\ UNCHANGED <<store, given>>
    BY <1>1, <1>2, AnsweredDoes
  <2>2. \A q \in Ports : listing'[q] \in {NotAsked, Replayed(DeviceRequest(q))'}
    BY <1>2, <2>1 DEF ReplayInv, Repeats, Replayed, Key
  <2> QED BY <1>1, <1>3, <2>1, <2>2 DEF ReplayInv, Repeats
<1> QED BY <1>1, <1>4, <1>5, <1>6, FinishedStays DEF ReplayInv

LEMMA ProbeOfTwo ==
  ASSUME ReplayInv, CaptureInv', Probe
  PROVE  ReplayInv'
<1> DEFINE asked == Request("features json", FirstPort(Names))
<1>1. PICK a : Answered(asked, a) /\ probe' = a
  BY ProbeType DEF ReplayInv, CaptureInv
<1>2. /\ mode # "off" /\ pc = "probe" /\ pc' = "lspci" /\ TypeOK
      /\ UNCHANGED <<mode, flags, listing, lspci, got, pos, meta, file, taken>>
  BY DEF Probe, ReplayInv, CaptureInv
<1>3. FirstPort(Names) \in Ports /\ asked \in Requests /\ "features json" \in Kinds
  <2>1. FirstPort(Names) \in Ports
    BY <1>2, SomeName DEF TypeOK, Names
  <2> QED BY <2>1, RequestsOf DEF Kinds
<1>4. a # NotAsked /\ (mode = "replay" => a = store[asked] /\ UNCHANGED <<store, given>>)
  BY <1>1, <1>2, <1>3, DeviceOnly, AnsweredDoes
<1>5. probe = NotAsked /\ lspci = NotAsked /\ \A p \in Ports : pos[p] = 1
  BY <1>2, NoneAskedYet DEF ReplayInv
<1>6. \A p \in Ports, kind \in Kinds : got[p][kind] = NotAsked
  BY <1>2, NoneAskedYet DEF ReplayInv
<1>10. Names' = Names
  BY <1>2, NamesStay
<1>7. Orderly'
  <2>1. Exactly(Names', flags', probe', got', pos')
    BY <1>2, <1>5, <1>6, KindsOf DEF Exactly
  <2> QED BY <1>1, <1>2, <1>4, <1>5, <2>1 DEF Orderly, ReplayInv
<1>8. Heard'
  <2> SUFFICES ASSUME mode = "record" PROVE GivenTo(Names, listing, a, lspci, got, given')
      BY <1>1, <1>2, <1>10 DEF Heard
  <2>1. /\ given'[asked] = given[asked] \cup {a}
        /\ \A r \in Requests \ {asked} : given'[r] = given[r]
    BY <1>1, <1>2, <1>3, AnsweredGives
  <2>2. GivenTo(Names, listing, probe, lspci, got, given)
    BY DEF ReplayInv, Heard
  <2>3. given'[LspciRequest] = {lspci} \ {NotAsked}
    <3>1. LspciRequest # asked /\ LspciRequest \in Requests
      BY <1>3, RequestsApart, RequestsOf
    <3> QED BY <2>1, <2>2, <3>1 DEF GivenTo
  <2>4. ASSUME NEW p \in Ports, NEW kind \in Kinds \ {"ioctl"}
        PROVE  given'[Request(kind, p)] =
                 ({got[p][kind]} \cup (IF kind = "features json" /\ p = FirstPort(Names)
                                         THEN {a} ELSE {})) \ {NotAsked}
    <3>1. CASE kind = "features json" /\ p = FirstPort(Names)
      BY <1>4, <1>5, <1>6, <2>1, <2>2, <2>4, <3>1 DEF GivenTo
    <3>2. CASE ~(kind = "features json" /\ p = FirstPort(Names))
      <4>1. Request(kind, p) \in Requests /\ Request(kind, p) # asked
        <5>1. kind \in Kinds /\ kind # "ioctl" /\ p \in Ports
          BY <2>4
        <5>2. ASSUME Request(kind, p) = asked
              PROVE  kind = "features json" /\ p = FirstPort(Names)
          BY <5>1, <5>2 DEF Request
        <5> QED BY <3>2, <5>1, <5>2, RequestsOf
      <4> QED BY <2>1, <2>2, <2>4, <3>2, <4>1 DEF GivenTo
    <3> QED BY <3>1, <3>2
  <2>5. \A p \in Ports : got[p]["ioctl"] = NotAsked
    BY <1>6 DEF Kinds
  <2>6. \A p \in Ports : given'[DeviceRequest(p)] = given[DeviceRequest(p)]
    BY <1>3, <2>1, RequestsApart, RequestsOf
  <2> QED BY <2>2, <2>3, <2>4, <2>5, <2>6 DEF GivenTo
<1>9. Repeats' /\ Finished'
  BY <1>1, <1>2, <1>4, <1>5, <1>10, FinishedStays DEF ReplayInv, Repeats, Replayed, Key
<1> QED BY <1>7, <1>8, <1>9 DEF ReplayInv

LEMMA ScanOfTwo ==
  ASSUME ReplayInv, CaptureInv', Scan
  PROVE  ReplayInv'
<1>1. /\ mode # "off" /\ pc = "lspci" /\ pc' = "ports" /\ TypeOK
      /\ UNCHANGED <<mode, flags, listing, probe, got, pos, meta, file, taken>>
      /\ lspci = NotAsked
  BY DEF Scan, ReplayInv, CaptureInv, Orderly
<1>2. /\ MayScan' = MayScan
      /\ Exactly(Names', flags', probe', got', pos') /\ probe' # NotAsked /\ Finished'
  BY <1>1, FinishedStays, NamesStay DEF MayScan, Root, ReplayInv, Orderly
<1>5. Names' = Names
  BY <1>1, NamesStay
<1>3. CASE MayScan
  <2>1. PICK a \in Got : Answered(LspciRequest, a) /\ lspci' = a
    BY <1>3 DEF Scan
  <2>2. a # NotAsked /\ (mode = "replay" => a = store[LspciRequest] /\ UNCHANGED <<store, given>>)
    BY <1>1, <2>1, RequestsOf, DeviceOnly, AnsweredDoes
  <2>3. Orderly' /\ Repeats'
    BY <1>1, <1>2, <1>3, <1>5, <2>1, <2>2 DEF Orderly, Repeats, ReplayInv, Replayed, Key
  <2>4. Heard'
    <3> SUFFICES ASSUME mode = "record" PROVE GivenTo(Names, listing, probe, a, got, given')
        BY <1>1, <1>5, <2>1 DEF Heard
    <3>1. /\ given'[LspciRequest] = given[LspciRequest] \cup {a}
          /\ \A r \in Requests \ {LspciRequest} : given'[r] = given[r]
      BY <1>1, <2>1, RequestsOf, AnsweredGives
    <3>2. GivenTo(Names, listing, probe, lspci, got, given)
      BY DEF ReplayInv, Heard
    <3>3. \A p \in Ports, kind \in Kinds : given'[Request(kind, p)] = given[Request(kind, p)]
      BY <3>1, RequestsApart, RequestsOf
    <3>4. "ioctl" \in Kinds
      BY DEF Kinds
    <3>5. \A p \in Ports : given'[DeviceRequest(p)] = given[DeviceRequest(p)]
      BY <3>1, RequestsApart, RequestsOf
    <3> QED BY <1>1, <2>2, <3>1, <3>2, <3>3, <3>4, <3>5 DEF GivenTo
  <2> QED BY <1>2, <2>3, <2>4 DEF ReplayInv
<1>4. CASE ~MayScan
  <2>1. UNCHANGED <<lspci, store, given>>
    BY <1>4 DEF Scan
  <2> QED BY <1>1, <1>2, <1>4, <1>5, <2>1 DEF ReplayInv, Orderly, Heard, Repeats, Replayed, Key
<1> QED BY <1>3, <1>4

LEMMA KindPlace ==
  \A i \in 1 .. 5 : (Kind[i] = "stamp" <=> i = 1) /\ (Kind[i] = "features" <=> i = 5)
<1>1. 1 \in 1 .. 5 /\ 5 \in 1 .. 5
  OBVIOUS
<1> QED BY <1>1, KindAt, KindsApart, Zenon

LEMMA AskOfTwo ==
  ASSUME ReplayInv, CaptureInv', NEW p \in Ports, Ask(p)
  PROVE  ReplayInv'
<1>1. PICK kind \in Kinds, a \in Got \ {NotAsked} :
        /\ kind = Kind[pos[p]] /\ pos[p] \in 1 .. 5 /\ Wants(p, kind)
        /\ Answered(Request(kind, p), a)
        /\ got' = [got EXCEPT ![p][kind] = a] /\ pos' = [pos EXCEPT ![p] = @ + 1]
        /\ UNCHANGED <<mode, flags, listing, pc, probe, lspci, meta, file, taken>>
  BY AskDoes DEF ReplayInv, CaptureInv
<1>2. /\ mode # "off" /\ pc = "ports" /\ p \in Names /\ Names' = Names
      /\ TypeOK /\ Request(kind, p) \in Requests
      /\ got \in [Ports -> [Kinds -> Got]] /\ pos \in [Ports -> 1 .. 6]
  BY <1>1, RequestsOf, NamesStay DEF Ask, ReplayInv, CaptureInv, TypeOK
<1>3. \A q \in Ports, k \in Kinds :
        got'[q][k] = IF q = p /\ k = kind THEN a ELSE got[q][k]
  BY <1>1, <1>2
<1>4. pos'[p] = pos[p] + 1 /\ \A q \in Ports \ {p} : pos'[q] = pos[q]
  BY <1>1, <1>2
<1>5. "stamp" \in Kinds /\ "features json" \in Kinds /\ "ioctl" \in Kinds
  BY DEF Kinds
<1>6. Exactly(Names, flags, probe, got, pos)
  BY <1>2 DEF ReplayInv, Orderly
<1>7. got[p][kind] = NotAsked
  <2>1. ~(pos[p] > pos[p])
    BY <1>1
  <2> QED BY <1>1, <1>6, <2>1 DEF Exactly
<1>8. Exactly(Names, flags, probe, got', pos')
  <2> SUFFICES ASSUME NEW q \in Ports, NEW j \in 1 .. 5
               PROVE  got'[q][Kind[j]] # NotAsked <=>
                        q \in Names /\ pos'[q] > j /\ Must(flags, probe, got', q, Kind[j])
      BY DEF Exactly
  <2>1. Kind[j] \in Kinds
    BY KindsOf
  <2>2. CASE q # p
    <3>1. \A k \in Kinds : got'[q][k] = got[q][k]
      BY <1>3, <2>2
    <3>2. Must(flags, probe, got', q, Kind[j]) <=> Must(flags, probe, got, q, Kind[j])
      BY <1>5, <2>1, <3>1, MustSame
    <3> QED BY <1>4, <1>6, <2>1, <2>2, <3>1, <3>2 DEF Exactly
  <2>3. CASE q = p /\ j = pos[p]
    <3>1. Kind[j] = kind /\ pos'[q] > j
      BY <1>1, <1>4, <2>3
    <3>2. kind = "stamp" \/ got'[p]["stamp"] = got[p]["stamp"]
      BY <1>3, <1>5
    <3>3. kind # "features" \/ got'[p]["features json"] = got[p]["features json"]
      BY <1>3, <1>5
    <3>4. Must(flags, probe, got', p, kind)
      <4>1. Must(flags, probe, got, p, kind)
        BY <1>1, WantsIsMust
      <4> QED BY <3>2, <3>3, <4>1, MustSame
    <3> QED BY <1>1, <1>2, <1>3, <2>3, <3>1, <3>4
  <2>4. CASE q = p /\ j < pos[p]
    <3>1. pos[p] > j /\ pos'[p] > j /\ j # pos[p] /\ pos[p] # 1 /\ j # 5
      BY <1>1, <1>4, <2>4
    <3>2. Kind[j] # kind /\ Kind[j] # "features" /\ kind # "stamp"
      BY <1>1, <3>1, KindsApart, KindPlace
    <3>3. Must(flags, probe, got', p, Kind[j]) <=> Must(flags, probe, got, p, Kind[j])
      <4>1. got'[p]["stamp"] = got[p]["stamp"]
        BY <1>3, <1>5, <3>2
      <4> QED BY <2>1, <3>2, <4>1, MustSame
    <3>4. got'[p][Kind[j]] = got[p][Kind[j]]
      BY <1>3, <2>1, <3>2
    <3> QED BY <1>6, <2>4, <3>1, <3>3, <3>4 DEF Exactly
  <2>5. CASE q = p /\ j > pos[p]
    <3>1. ~(pos[p] > j) /\ ~(pos'[p] > j) /\ j # pos[p]
      BY <1>1, <1>4, <2>5
    <3>2. Kind[j] # kind
      BY <1>1, <3>1, KindsApart
    <3>3. got'[p][Kind[j]] = got[p][Kind[j]]
      BY <1>3, <2>1, <3>2
    <3> QED BY <1>6, <2>5, <3>1, <3>3 DEF Exactly
  <2>6. j = pos[p] \/ j < pos[p] \/ j > pos[p]
    BY <1>1
  <2> QED BY <2>2, <2>3, <2>4, <2>5, <2>6
<1>9. Orderly'
  <2>1. Exactly(Names', flags', probe', got', pos')
    BY <1>1, <1>2, <1>8
  <2>2. /\ (probe # NotAsked <=> pc # "probe") /\ (lspci # NotAsked <=> MayScan)
        /\ flags.virtual => \A q \in Ports : listing[q] = NotAsked
    BY <1>2 DEF ReplayInv, Orderly
  <2> QED BY <1>1, <1>2, <2>1, <2>2 DEF Orderly, MayScan, Root
<1>10. Heard'
  <2> SUFFICES ASSUME mode = "record" PROVE GivenTo(Names, listing, probe, lspci, got', given')
      BY <1>1, <1>2 DEF Heard
  <2>1. /\ given'[Request(kind, p)] = given[Request(kind, p)] \cup {a}
        /\ \A r \in Requests \ {Request(kind, p)} : given'[r] = given[r]
    BY <1>1, <1>2, AnsweredGives
  <2>2. GivenTo(Names, listing, probe, lspci, got, given)
    BY DEF ReplayInv, Heard
  <2>3. given'[LspciRequest] = {lspci} \ {NotAsked}
    <3>1. LspciRequest # Request(kind, p) /\ LspciRequest \in Requests
      BY <1>1, RequestsApart, RequestsOf
    <3> QED BY <2>1, <2>2, <3>1 DEF GivenTo
  <2>4. ASSUME NEW q \in Ports, NEW k \in Kinds \ {"ioctl"}
        PROVE  given'[Request(k, q)] =
                 ({got'[q][k]} \cup (IF k = "features json" /\ q = FirstPort(Names)
                                       THEN {probe} ELSE {})) \ {NotAsked}
    <3>1. given[Request(k, q)] =
                 ({got[q][k]} \cup (IF k = "features json" /\ q = FirstPort(Names)
                                      THEN {probe} ELSE {})) \ {NotAsked}
      BY <2>2, <2>4 DEF GivenTo
    <3>2. CASE q = p /\ k = kind
      <4>1. got'[q][k] = a /\ got[q][k] = NotAsked /\ a # NotAsked
        BY <1>1, <1>3, <1>7, <3>2
      <4>2. given'[Request(k, q)] = given[Request(k, q)] \cup {a}
        BY <2>1, <3>2
      <4> QED BY <3>1, <4>1, <4>2
    <3>3. CASE ~(q = p /\ k = kind)
      <4>1. Request(k, q) # Request(kind, p)
        BY <2>4, <3>3 DEF Request
      <4>2. Request(k, q) \in Requests /\ got'[q][k] = got[q][k]
        BY <1>3, <2>4, <3>3, RequestsOf
      <4> QED BY <2>1, <3>1, <4>1, <4>2
    <3> QED BY <3>2, <3>3
  <2>5. ASSUME NEW q \in Ports, got'[q]["ioctl"] # NotAsked
        PROVE  got'[q]["ioctl"] \in given'[Request("ioctl", q)]
    <3>1. CASE q = p /\ kind = "ioctl"
      BY <1>3, <1>5, <2>1, <3>1
    <3>2. CASE ~(q = p /\ kind = "ioctl")
      <4>1. got'[q]["ioctl"] = got[q]["ioctl"]
        BY <1>3, <1>5, <2>5, <3>2
      <4>2. got[q]["ioctl"] \in given[Request("ioctl", q)] /\ Request("ioctl", q) \in Requests
        BY <1>5, <2>2, <2>5, <4>1, RequestsOf DEF GivenTo
      <4> QED BY <2>1, <4>1, <4>2
    <3> QED BY <3>1, <3>2
  <2>6. \A q \in Ports : given'[DeviceRequest(q)] = given[DeviceRequest(q)]
    BY <1>1, <2>1, RequestsApart, RequestsOf
  <2> QED BY <2>2, <2>3, <2>4, <2>5, <2>6 DEF GivenTo
<1>11. Repeats'
  <2> SUFFICES ASSUME mode = "replay" PROVE Repeats'
      BY <1>1 DEF Repeats
  <2>1. a = store[Request(kind, p)] /\ UNCHANGED <<store, given>>
    BY <1>1, <1>2, DeviceOnly, AnsweredDoes
  <2>2. \A q \in Ports, k \in Kinds : got'[q][k] \in {NotAsked, store'[Request(k, q)]}
    BY <1>3, <2>1 DEF ReplayInv, Repeats
  <2> QED BY <1>1, <1>2, <2>1, <2>2 DEF ReplayInv, Repeats, Replayed, Key
<1> QED BY <1>1, <1>9, <1>10, <1>11, FinishedStays DEF ReplayInv

LEMMA SkipOfTwo ==
  ASSUME ReplayInv, CaptureInv', NEW p \in Ports, Skip(p)
  PROVE  ReplayInv'
<1>1. /\ mode # "off" /\ pc = "ports" /\ pos[p] \in 1 .. 5 /\ ~Wants(p, Kind[pos[p]])
      /\ pos' = [pos EXCEPT ![p] = @ + 1] /\ pos \in [Ports -> 1 .. 6]
      /\ UNCHANGED <<mode, flags, listing, pc, probe, lspci, got, store, meta, file, given, taken>>
  BY DEF Skip, ReplayInv, CaptureInv, TypeOK
<1>2. Exactly(Names, flags, probe, got, pos')
  <2> SUFFICES ASSUME NEW q \in Ports, NEW j \in 1 .. 5
               PROVE  got[q][Kind[j]] # NotAsked <=>
                        q \in Names /\ pos'[q] > j /\ Must(flags, probe, got, q, Kind[j])
      BY DEF Exactly
  <2>1. Exactly(Names, flags, probe, got, pos)
    BY <1>1 DEF ReplayInv, Orderly
  <2>2. CASE q = p /\ j = pos[p]
    <3>1. ~(pos[q] > j)
      BY <1>1, <2>2
    <3>2. ~Must(flags, probe, got, q, Kind[j])
      BY <1>1, <2>2, KindsOf, WantsIsMust
    <3> QED BY <2>1, <3>1, <3>2 DEF Exactly
  <2>3. CASE ~(q = p /\ j = pos[p])
    <3>1. pos'[q] > j <=> pos[q] > j
      BY <1>1, <2>3
    <3> QED BY <2>1, <3>1 DEF Exactly
  <2> QED BY <2>2, <2>3
<1>5. Names' = Names
  BY <1>1, NamesStay
<1>3. Orderly'
  BY <1>1, <1>2, <1>5 DEF ReplayInv, Orderly, MayScan, Root
<1>4. Heard' /\ Repeats' /\ Finished'
  BY <1>1, <1>5, FinishedStays DEF ReplayInv, Heard, Repeats, Replayed, Key
<1> QED BY <1>3, <1>4 DEF ReplayInv

LEMMA ReturnOfTwo ==
  ASSUME ReplayInv, CaptureInv', Return \/ SetMeta
  PROVE  ReplayInv'
<1>1. /\ \/ pc = "ports" /\ AllAsked /\ mode # "off" /\ meta' = meta
            /\ pc' = IF mode = "record" THEN "meta" ELSE "over"
         \/ pc = "meta" /\ pc' = "save" /\ mode = "record"
      /\ UNCHANGED <<mode, flags, listing, probe, lspci, got, pos, store, file, given, taken>>
  BY DEF Return, SetMeta, runVars, ReplayInv, CaptureInv, Along
<1>4. Names' = Names
  BY <1>1, NamesStay
<1>2. Orderly'
  BY <1>1, <1>4 DEF ReplayInv, Orderly, MayScan, Root
<1>3. Heard' /\ Repeats' /\ Finished'
  BY <1>1, <1>4, FinishedStays DEF ReplayInv, Heard, Repeats, AllAsked, Replayed, Key
<1> QED BY <1>2, <1>3 DEF ReplayInv

LEMMA SaveOfTwo ==
  ASSUME ReplayInv, CaptureInv', SaveOpen \/ SaveDump
  PROVE  ReplayInv'
<1>1. /\ pc \in {"save", "dump"} /\ pc' \in {"dump", "over"} /\ mode = "record" /\ AllAsked
      /\ UNCHANGED <<mode, flags, listing, probe, lspci, got, pos, store, meta, given>>
  BY DEF SaveOpen, SaveDump, runVars, ReplayInv, CaptureInv, Along
<1>5. Names' = Names
  BY <1>1, NamesStay
<1>2. Orderly' /\ Heard' /\ Repeats'
  BY <1>1, <1>5 DEF ReplayInv, Orderly, Heard, Repeats, MayScan, Root
<1>3. CASE SaveOpen
  BY <1>2, <1>3 DEF SaveOpen, ReplayInv, Finished, Loads
<1>4. CASE SaveDump
  <2>1. /\ taken' = [flags |-> flags, listing |-> listing, probe |-> probe, lspci |-> lspci,
                     got |-> got, given |-> given]
        /\ TakenNames' = Names
    BY <1>4 DEF SaveDump, TakenNames, Names, Listed
  <2>2. probe # NotAsked /\ (lspci # NotAsked <=> flags.root \/ ~flags.skip)
    BY <1>1 DEF ReplayInv, Orderly, MayScan, Root
  <2>3. Exactly(Names, flags, probe, got, AtEnd)
    <3> SUFFICES ASSUME NEW p \in Names, NEW i \in 1 .. 5, p \in Ports
                 PROVE  AtEnd[p] > i /\ pos[p] > i
        BY <1>1 DEF ReplayInv, Orderly, Exactly
    <3> QED BY <1>1 DEF AllAsked, AtEnd
  <2>6. \A p \in Ports : listing[p] = NotAsked <=> flags.virtual
    BY <1>1 DEF ReplayInv, CaptureInv, Looked, Orderly
  <2>4. GivenTo(Names, listing, probe, lspci, got, given)
    BY <1>1 DEF ReplayInv, Heard
  <2>5. Finished'
    BY <2>1, <2>2, <2>3, <2>4, <2>6 DEF Finished
  <2> QED BY <1>2, <2>5 DEF ReplayInv
<1> QED BY <1>3, <1>4

LEMMA StartOfTwo ==
  ASSUME ReplayInv, CaptureInv', StartRecord \/ StartReplay
  PROVE  ReplayInv'
<1>1. PICK m \in {"record", "replay"}, f \in Flags : Begin(m, f)
  BY DEF StartRecord, StartReplay
<1>2. /\ mode' = m /\ pc' = "probe" /\ probe' = NotAsked /\ lspci' = NotAsked
      /\ got' = NoAnswers /\ pos' = [p \in Ports |-> 1] /\ \A p \in Ports : listing'[p] = NotAsked
      /\ UNCHANGED <<file, given, taken>> /\ mode = "off"
  BY <1>1 DEF Begin, NoListing
<1>3. /\ \A p \in Ports, kind \in Kinds : got'[p][kind] = NotAsked
      /\ \A p \in Ports : pos'[p] = 1
  BY <1>2 DEF NoAnswers
<1>4. Orderly'
  <2>1. Exactly(Names', flags', probe', got', pos')
    BY <1>3, KindsOf DEF Exactly
  <2> QED BY <1>2, <1>3, <2>1 DEF Orderly
<1>5. Heard'
  <2>1. \A r \in Requests : given'[r] = {}
    BY <1>2 DEF ReplayInv, CaptureInv, Along
  <2>2. "ioctl" \in Kinds
    BY DEF Kinds
  <2> QED BY <1>2, <1>3, <2>1, <2>2, RequestsOf DEF Heard, GivenTo
<1>6. Repeats'
  <2>1. m = "replay" => meta' = file'.meta
    BY <1>1, <1>2 DEF StartRecord, StartReplay, Begin
  <2> QED BY <1>2, <1>3, <2>1 DEF Repeats
<1> QED BY <1>2, <1>4, <1>5, <1>6, FinishedStays DEF ReplayInv

LEMMA ReplayStep == ReplayInv /\ [Next]_vars => ReplayInv'
<1> SUFFICES ASSUME ReplayInv, [Next]_vars PROVE ReplayInv'
    OBVIOUS
<1>1. CaptureInv'
  BY CaptureStep DEF ReplayInv
<1>2. CASE UNCHANGED vars
  BY <1>1, <1>2, FinishedStays DEF vars, runVars, ReplayInv, Orderly, MayScan, Root, Heard, Repeats, AllAsked,
                                   Names, Listed, Replayed, Key
<1>3. CASE End
  <2>1. mode' = "off" /\ UNCHANGED <<file, taken>>
    BY <1>3 DEF End
  <2> QED BY <1>1, <2>1, FinishedStays DEF ReplayInv, Orderly, Heard, Repeats
<1>4. CASE Next /\ ~End
  BY <1>1, <1>4, StartOfTwo, LookOfTwo, ProbeOfTwo, ScanOfTwo, AskOfTwo, SkipOfTwo, ReturnOfTwo,
     SaveOfTwo DEF Next
<1> QED BY <1>2, <1>3, <1>4

THEOREM ReplayInvHolds == Spec => []ReplayInv
BY ReplayInit, ReplayStep, PTL DEF Spec

-----------------------------------------------------------------------------
(* What a replay has from the recording                                    *)

\* What the run that is over has asked of a port is what it must have asked.
LEMMA AskedAtEnd ==
  ASSUME NEW names, NEW f, NEW pr, NEW g, Exactly(names, f, pr, g, AtEnd),
         NEW p \in Ports, NEW kind \in Kinds
  PROVE  g[p][kind] # NotAsked <=> p \in names /\ Must(f, pr, g, p, kind)
<1>1. PICK i \in 1 .. 5 : kind = Kind[i]
  BY KindsApart
<1>2. AtEnd[p] > i
  BY DEF AtEnd
<1> QED BY <1>1, <1>2 DEF Exactly

LEMMA Loaded ==
  ASSUME ReplayInv, mode = "replay"
  PROVE  /\ Loads /\ taken # None /\ store = file.store /\ file.meta = taken.flags.root
         /\ taken \in Takes /\ TakenNames \subseteq Ports
         /\ FirstPort(TakenNames) \in TakenNames
         /\ \A r \in Requests : IF taken.given[r] = {} THEN store[r] = Missing
                                ELSE store[r] \in taken.given[r]
         /\ \A r \in Requests : Missing \notin taken.given[r]
<1>1. Loads /\ store = file.store /\ TypeOK
  BY DEF ReplayInv, CaptureInv, Along
<1>2. /\ taken # None /\ file.meta = taken.flags.root
      /\ \A r \in Requests : IF taken.given[r] = {} THEN store[r] = Missing
                             ELSE store[r] \in taken.given[r]
  BY <1>1 DEF ReplayInv, CaptureInv, WholeRecording, Key
<1>3. taken \in Takes
  BY <1>1, <1>2 DEF TypeOK
<1>4. taken.flags \in Flags /\ taken.given \in [Requests -> SUBSET Answers]
  BY <1>3 DEF Takes
<1>5. TakenNames \subseteq Ports /\ FirstPort(TakenNames) \in TakenNames
  BY <1>4, SomeName DEF TakenNames
<1> QED BY <1>1, <1>2, <1>3, <1>4, <1>5, NotAnswers

\* What the recording holds of a request that a port's job has made: an answer that was
\* given to it, and the one that the job got when the machine did not change its mind.
LEMMA Recorded ==
  ASSUME ReplayInv, mode = "replay", NEW p \in Ports, NEW kind \in Kinds,
         taken.got[p][kind] # NotAsked
  PROVE  /\ store[Request(kind, p)] \in taken.given[Request(kind, p)]
         /\ Steady(Request(kind, p)) => store[Request(kind, p)] = taken.got[p][kind]
         /\ kind # "ioctl" /\ (kind # "features json" \/ Steady(ProbeRequest)) =>
              store[Request(kind, p)] = taken.got[p][kind]
<1>1. Request(kind, p) \in Requests /\ "features json" \in Kinds
  BY RequestsOf DEF Kinds
<1>2. GivenTo(TakenNames, taken.listing, taken.probe, taken.lspci, taken.got, taken.given)
  BY Loaded DEF ReplayInv, Finished
<1>3. taken.got[p][kind] \in taken.given[Request(kind, p)]
  <2>1. CASE kind = "ioctl"
    BY <1>2, <2>1 DEF GivenTo
  <2>2. CASE kind # "ioctl"
    <3>1. taken.given[Request(kind, p)] =
           ({taken.got[p][kind]} \cup (IF kind = "features json" /\ p = FirstPort(TakenNames)
                                         THEN {taken.probe} ELSE {})) \ {NotAsked}
      BY <1>2, <2>2 DEF GivenTo
    <3> QED BY <3>1
  <2> QED BY <2>1, <2>2
<1>4. store[Request(kind, p)] \in taken.given[Request(kind, p)]
  BY <1>1, <1>3, Loaded
<1>5. Steady(Request(kind, p)) => store[Request(kind, p)] = taken.got[p][kind]
  BY <1>3, <1>4 DEF Steady
<1>6. ASSUME kind # "ioctl", kind # "features json" \/ Steady(ProbeRequest)
      PROVE  store[Request(kind, p)] = taken.got[p][kind]
  <2>1. taken.given[Request(kind, p)] =
         ({taken.got[p][kind]} \cup (IF kind = "features json" /\ p = FirstPort(TakenNames)
                                       THEN {taken.probe} ELSE {})) \ {NotAsked}
    BY <1>2, <1>6 DEF GivenTo
  <2>2. CASE kind = "features json" /\ p = FirstPort(TakenNames)
    BY <1>5, <1>6, <2>2 DEF ProbeRequest
  <2>3. CASE ~(kind = "features json" /\ p = FirstPort(TakenNames))
    BY <1>4, <2>1, <2>3
  <2> QED BY <2>2, <2>3
<1> QED BY <1>4, <1>5, <1>6

\* The same of the request that decides about --json, and of lspci.
LEMMA RecordedProbe ==
  ASSUME ReplayInv, mode = "replay"
  PROVE  /\ taken.probe \in taken.given[ProbeRequest]
         /\ Steady(ProbeRequest) => store[ProbeRequest] = taken.probe
         /\ taken.lspci # NotAsked => store[LspciRequest] = taken.lspci
                                      /\ store[LspciRequest] # Missing
<1>1. FirstPort(TakenNames) \in Ports /\ "features json" \in Kinds /\ Loads
  BY Loaded DEF Kinds
<1>2. ProbeRequest \in Requests /\ LspciRequest \in Requests
  BY <1>1, RequestsOf DEF ProbeRequest
<1>3. /\ GivenTo(TakenNames, taken.listing, taken.probe, taken.lspci, taken.got, taken.given)
      /\ taken.probe # NotAsked
  BY <1>1 DEF ReplayInv, Finished
<1>4. taken.probe \in taken.given[ProbeRequest]
  <2>1. taken.given[ProbeRequest] =
          ({taken.got[FirstPort(TakenNames)]["features json"]} \cup {taken.probe}) \ {NotAsked}
    BY <1>1, <1>3 DEF GivenTo, ProbeRequest
  <2> QED BY <1>3, <2>1
<1>5. taken.given[LspciRequest] = {taken.lspci} \ {NotAsked}
  BY <1>3 DEF GivenTo
<1>6. Steady(ProbeRequest) => store[ProbeRequest] = taken.probe
  <2>1. store[ProbeRequest] \in taken.given[ProbeRequest]
    BY <1>2, <1>4, Loaded
  <2> QED BY <1>4, <2>1 DEF Steady
<1>7. ASSUME taken.lspci # NotAsked
      PROVE  store[LspciRequest] = taken.lspci /\ store[LspciRequest] # Missing
  <2>1. store[LspciRequest] \in taken.given[LspciRequest]
    BY <1>2, <1>5, <1>7, Loaded
  <2> QED BY <1>2, <1>5, <2>1, Loaded
<1> QED BY <1>4, <1>6, <1>7

\* A replay that asks for the devices of ports as the recording run did lists what it listed.
LEMMA ListsTheSame ==
  ASSUME ReplayInv, mode = "replay", pc # "probe", flags.virtual = taken.flags.virtual
  PROVE  Names \cap taken.flags.ports = TakenNames \cap flags.ports
<1>1. /\ \A p \in Ports : taken.listing[p] = NotAsked <=> taken.flags.virtual
      /\ GivenTo(TakenNames, taken.listing, taken.probe, taken.lspci, taken.got, taken.given)
  BY Loaded DEF ReplayInv, Finished
<1>2. CASE flags.virtual
  BY <1>2 DEF Names, TakenNames, Listed
<1>3. CASE ~flags.virtual
  <2>1. ASSUME NEW p \in Ports PROVE listing[p] = taken.listing[p]
    <3>1. DeviceRequest(p) \in Requests /\ taken.given[DeviceRequest(p)] = {taken.listing[p]}
      BY <1>1, <1>3, RequestsOf DEF GivenTo
    <3>2. store[DeviceRequest(p)] = taken.listing[p] /\ store[DeviceRequest(p)] # Missing
      BY <3>1, Loaded
    <3>3. listing[p] = Replayed(DeviceRequest(p))
      BY <1>3 DEF ReplayInv, CaptureInv, Looked, Repeats
    <3> QED BY <3>2, <3>3 DEF Replayed, Key
  <2>2. flags.ports \subseteq Ports /\ taken.flags.ports \subseteq Ports
    BY Loaded DEF ReplayInv, CaptureInv, TypeOK, Takes, Flags
  <2> QED BY <1>3, <2>1, <2>2 DEF Names, TakenNames, Listed
<1> QED BY <1>2, <1>3

\* run.py:57-66: a replay with the options of the recording, by any user, asks for what
\* the recording has, when the machine answered the --json probe in one way.
LEMMA NothingIsMissing == ReplayInv => NothingMissing
<1> SUFFICES ASSUME ReplayInv, mode = "replay", [flags EXCEPT !.root = taken.flags.root] = taken.flags,
                    Steady(ProbeRequest)
             PROVE  /\ Missing \notin {probe, lspci}
                    /\ pc = "over" => lspci = taken.lspci
                    /\ \A p \in Ports, k \in Kinds : got[p][k] # Missing
                    /\ \A p \in Ports : listing[p] # NotAsked => store[Key(DeviceRequest(p))] # Missing
    BY DEF NothingMissing, Replaying
<1>1. /\ flags.ports = taken.flags.ports /\ flags.virtual = taken.flags.virtual
      /\ flags.skip = taken.flags.skip /\ flags.ioctl = taken.flags.ioctl
  <2>1. flags \in Flags /\ taken.flags \in Flags
    BY Loaded DEF ReplayInv, CaptureInv, TypeOK, Takes
  <2> QED BY <2>1 DEF Flags
<1>2. /\ Exactly(Names, flags, probe, got, pos)
      /\ Exactly(TakenNames, taken.flags, taken.probe, taken.got, AtEnd)
      /\ probe # NotAsked <=> pc # "probe"
      /\ lspci # NotAsked <=> pc \notin {"probe", "lspci"} /\ MayScan
      /\ pc \in {"probe", "lspci"} => \A p \in Ports : pos[p] = 1
      /\ taken.lspci # NotAsked <=> taken.flags.root \/ ~taken.flags.skip
  BY Loaded DEF ReplayInv, Orderly, Finished
<1>3. Missing # NotAsked /\ "features json" \in Kinds /\ "stamp" \in Kinds
  BY DEF Kinds
<1>10. pc # "probe" => Names = TakenNames
  <2>1. pc # "probe" => Names \cap flags.ports = TakenNames \cap flags.ports
    BY <1>1, ListsTheSame
  <2>2. Names \subseteq flags.ports /\ TakenNames \subseteq flags.ports
    BY <1>1 DEF Names, TakenNames, Listed
  <2> QED BY <2>1, <2>2
<1>4. probe \in {NotAsked, taken.probe}
  BY <1>2, <1>10, RecordedProbe DEF ReplayInv, Repeats, ProbeRequest
<1>5. probe # Missing
  <2>1. ProbeRequest \in Requests
    BY <1>3, Loaded, RequestsOf DEF ProbeRequest
  <2>2. taken.probe # Missing
    BY <2>1, Loaded, RecordedProbe
  <2> QED BY <1>3, <1>4, <2>2
<1>6. lspci # Missing /\ (pc = "over" => lspci = taken.lspci)
  <2>1. MayScan <=> taken.lspci # NotAsked
    BY <1>1, <1>2, Loaded DEF MayScan, Root, ReplayInv, Repeats
  <2>2. lspci \in {NotAsked, store[LspciRequest]}
    BY DEF ReplayInv, Repeats
  <2> QED BY <1>2, <1>3, <2>1, <2>2, RecordedProbe
<1>7. \A p \in Ports, kind \in Kinds :
        taken.got[p][kind] # NotAsked <=>
          p \in TakenNames /\ Must(taken.flags, taken.probe, taken.got, p, kind)
  BY <1>2, AskedAtEnd
<1>8. \A p \in Ports, i \in 1 .. 5 :
        p \in Names /\ pos[p] > i /\ Must(flags, probe, got, p, Kind[i]) =>
          got[p][Kind[i]] # NotAsked
  BY <1>2 DEF Exactly
<1>9. ASSUME NEW p \in Ports, NEW kind \in Kinds PROVE got[p][kind] # Missing
  <2> SUFFICES ASSUME got[p][kind] = Missing PROVE FALSE
      OBVIOUS
  <2>1. PICK i \in 1 .. 5 : kind = Kind[i]
    BY KindsApart
  <2>2. pos[p] > i /\ p \in Names /\ Must(flags, probe, got, p, kind)
    BY <1>2, <1>3, <2>1 DEF Exactly
  <2>3. pos[p] # 1 /\ pos[p] \in 1 .. 6
    <3>1. pos[p] \in 1 .. 6
      BY DEF ReplayInv, CaptureInv, TypeOK
    <3> QED BY <2>2, <3>1
  <2>4. probe = taken.probe
    BY <1>2, <1>4, <2>3
  <2>11. p \in TakenNames
    BY <1>2, <1>10, <2>2, <2>3
  <2>5. taken.got[p][kind] = NotAsked
    <3>1. store[Request(kind, p)] = Missing /\ Request(kind, p) \in Requests
      BY <1>3, RequestsOf DEF ReplayInv, Repeats
    <3>2. store[Request(kind, p)] \notin taken.given[Request(kind, p)]
      BY <3>1, Loaded
    <3> QED BY <3>2, Recorded
  <2>6. ~Must(taken.flags, taken.probe, taken.got, p, kind)
    BY <1>1, <1>2, <2>5, <2>11, AskedAtEnd
  <2>7. CASE kind = "stamp"
    BY <2>6, <2>7 DEF Must
  <2>8. CASE kind = "features json"
    BY <2>2, <2>4, <2>6, <2>8 DEF Must
  <2>9. CASE kind \in {"stamp json", "ioctl"}
    <3>1. got[p]["stamp"] \in Values
      BY <2>2, <2>9 DEF Must
    <3>2. got[p]["stamp"] = store[Request("stamp", p)]
      BY <1>3, <3>1, NotAnswers DEF ReplayInv, Repeats, Answers
    <3>3. taken.got[p]["stamp"] # NotAsked
      <4>1. Must(taken.flags, taken.probe, taken.got, p, "stamp")
        BY DEF Must
      <4> QED BY <1>3, <1>7, <2>11, <4>1, Zenon
    <3>4. taken.got[p]["stamp"] = got[p]["stamp"]
      BY <1>3, <3>2, <3>3, Recorded
    <3> QED BY <1>1, <2>2, <2>4, <2>6, <2>9, <3>1, <3>4 DEF Must
  <2>10. CASE kind = "features"
    <3>1. got[p]["features json"] \notin Values
      BY <2>2, <2>10 DEF Must
    <3>2. taken.got[p]["features json"] \in Values
      BY <2>6, <2>10 DEF Must
    <3>3. taken.got[p]["features json"] # NotAsked
      BY <3>2, NotAnswers DEF Answers
    <3>4. taken.probe \in Values
      <4>1. Must(taken.flags, taken.probe, taken.got, p, "features json")
        BY <1>2, <1>3, <3>3, AskedAtEnd
      <4> QED BY <4>1 DEF Must
    <3>5. store[Request("features json", p)] = taken.got[p]["features json"]
      BY <1>3, <3>3, Recorded
    <3>6. got[p]["features json"] # NotAsked
      <4>1. i = 5
        BY <2>1, <2>10, KindPlace
      <4>2. 4 \in 1 .. 5 /\ pos[p] > 4
        BY <2>2, <2>3, <4>1
      <4>3. Kind[4] = "features json"
        BY KindAt
      <4>4. Must(flags, probe, got, p, "features json")
        BY <2>4, <3>4 DEF Must
      <4>5. got[p][Kind[4]] # NotAsked
        <5>1. Must(flags, probe, got, p, Kind[4]) /\ p \in Names
          BY <2>2, <4>3, <4>4
        <5> QED BY <1>8, <4>2, <5>1
      <4> QED BY <4>3, <4>5, Zenon
    <3> QED BY <1>3, <3>1, <3>2, <3>5, <3>6 DEF ReplayInv, Repeats
  <2> QED BY <2>7, <2>8, <2>9, <2>10 DEF Kinds
<1>11. \A p \in Ports : listing[p] # NotAsked => store[Key(DeviceRequest(p))] # Missing
  <2> SUFFICES ASSUME NEW p \in Ports, listing[p] # NotAsked PROVE store[DeviceRequest(p)] # Missing
      BY DEF Key
  <2>1. ~taken.flags.virtual
    BY <1>1 DEF ReplayInv, Orderly
  <2> QED BY <2>1, Loaded DEF ReplayInv, CaptureInv, WholeRecording, Key
<1> QED BY <1>3, <1>5, <1>6, <1>9, <1>11

THEOREM NothingMissingHolds == Spec => []NothingMissing
BY NothingIsMissing, ReplayInvHolds, PTL

\* README.md:190-192: a replay shows of a port what the recording run showed, unless the
\* machine gave two answers to one request of this port.
LEMMA ReplayIsFaithful == ReplayInv => ReplayFaithful
<1> SUFFICES ASSUME ReplayInv, mode = "replay", pc = "over", flags.ioctl = taken.flags.ioctl,
                    SameRoute, NEW p \in Names \cap TakenNames, SteadyFor(p)
             PROVE  Shown(got, p) = Shown(taken.got, p)
    BY ListsTheSame DEF ReplayFaithful, Replaying
<1>1. /\ p \in Ports /\ p \in Names /\ p \in TakenNames /\ Loads
      /\ {"stamp", "stamp json", "ioctl", "features json", "features"} \subseteq Kinds
  BY Loaded DEF Kinds
<1>2. /\ Exactly(TakenNames, taken.flags, taken.probe, taken.got, AtEnd)
      /\ Exactly(Names, flags, probe, got, pos) /\ AllAsked /\ probe # NotAsked
  <2>1. Orderly /\ Finished /\ Repeats
    BY DEF ReplayInv
  <2> QED BY <1>1, <2>1 DEF Orderly, Finished, Repeats
<1>3. \A kind \in Kinds : taken.got[p][kind] # NotAsked <=>
                            Must(taken.flags, taken.probe, taken.got, p, kind)
  <2>1. \A q \in Ports, kind \in Kinds :
          taken.got[q][kind] # NotAsked <=>
            q \in TakenNames /\ Must(taken.flags, taken.probe, taken.got, q, kind)
    BY <1>2, AskedAtEnd
  <2> QED BY <1>1, <2>1
<1>4. ASSUME NEW kind \in Kinds
      PROVE  got[p][kind] # NotAsked <=> Must(flags, probe, got, p, kind)
  <2>1. PICK i \in 1 .. 5 : kind = Kind[i]
    BY KindsApart
  <2>2. pos[p] > i
    BY <1>2 DEF AllAsked
  <2> QED BY <1>1, <1>2, <2>1, <2>2 DEF Exactly
<1>5. \A kind \in Kinds : got[p][kind] # NotAsked => got[p][kind] = store[Request(kind, p)]
  BY <1>1 DEF ReplayInv, Repeats
<1>6. \A kind \in Kinds : taken.got[p][kind] # NotAsked =>
                            store[Request(kind, p)] = taken.got[p][kind]
  BY <1>1, Recorded DEF SteadyFor
<1>7. got[p]["stamp"] = taken.got[p]["stamp"]
  BY <1>1, <1>3, <1>4, <1>5, <1>6 DEF Must
<1>8. got[p]["ioctl"] = taken.got[p]["ioctl"]
  <2>1. Must(flags, probe, got, p, "ioctl") <=> Must(taken.flags, taken.probe, taken.got, p, "ioctl")
    BY <1>7 DEF Must
  <2> QED BY <1>1, <1>3, <1>4, <1>5, <1>6, <2>1
<1>10. NotAsked \notin Values
  BY NotAnswers DEF Answers
<1> DEFINE json == got[p]["features json"]
           plain == got[p]["features"]
           tjson == taken.got[p]["features json"]
           tplain == taken.got[p]["features"]
<1>11. /\ json # NotAsked <=> probe \in Values
       /\ tjson # NotAsked <=> taken.probe \in Values
       /\ plain # NotAsked <=> json \notin Values
       /\ tplain # NotAsked <=> tjson \notin Values
  BY <1>1, <1>3, <1>4 DEF Must
<1>12. /\ json # NotAsked => json = store[Request("features json", p)]
       /\ tjson # NotAsked => store[Request("features json", p)] = tjson
       /\ plain # NotAsked => plain = store[Request("features", p)]
       /\ tplain # NotAsked => store[Request("features", p)] = tplain
  BY <1>1, <1>5, <1>6
\* The two runs ask for the same, or the replay asks this port alone.
<1>13. \/ probe \in Values <=> taken.probe \in Values
       \/ /\ probe = store[Request("features json", p)]
          /\ taken.got[p]["stamp json"] \notin Values
  <2>1. CASE probe \in Values <=> taken.probe \in Values
    BY <2>1
  <2>2. CASE ~(probe \in Values <=> taken.probe \in Values)
    <3>1. Names = {p} /\ taken.got[p]["stamp json"] \notin Values
      BY <2>2 DEF SameRoute, Json
    <3>2. FirstPort(Names) = p
      <4>1. FirstPort(Names) \in Names
        BY SomeName DEF ReplayInv, CaptureInv, TypeOK, Names
      <4> QED BY <3>1, <4>1
    <3> QED BY <1>2, <3>1, <3>2 DEF ReplayInv, Repeats
  <2> QED BY <2>1, <2>2
\* Then the answers that the probe could decide against are in the recording.
<1>14. ~(probe \in Values <=> taken.probe \in Values) =>
         probe \notin Values /\ taken.probe \in Values
  <2> SUFFICES ASSUME probe \in Values, taken.probe \notin Values PROVE FALSE
      OBVIOUS
  <2>1. probe = store[Request("features json", p)] /\ tjson = NotAsked
    BY <1>11, <1>13
  <2>2. Request("features json", p) \in Requests
    BY <1>1, RequestsOf
  <2>3. CASE p = FirstPort(TakenNames)
    BY <2>1, <2>3, RecordedProbe DEF SteadyFor, ProbeRequest
  <2>4. CASE p # FirstPort(TakenNames)
    <3>1. taken.given[Request("features json", p)] = ({tjson} \cup {}) \ {NotAsked}
      <4>1. GivenTo(TakenNames, taken.listing, taken.probe, taken.lspci, taken.got, taken.given)
        BY <1>1 DEF ReplayInv, Finished
      <4> QED BY <1>1, <2>4, <4>1 DEF GivenTo
    <3>2. store[Request("features json", p)] = Missing
      BY <2>1, <2>2, <3>1, Loaded
    <3> QED BY <2>1, <3>2, NotAnswers DEF Answers
  <2> QED BY <2>3, <2>4
<1>9. Shown(got, p).features = Shown(taken.got, p).features
  <2>1. (json \in Values <=> tjson \in Values) /\ (json \in Values => json = tjson)
    <3>1. CASE probe \in Values <=> taken.probe \in Values
      BY <1>10, <1>11, <1>12, <3>1
    <3>2. CASE ~(probe \in Values <=> taken.probe \in Values)
      BY <1>10, <1>11, <1>12, <1>13, <1>14, <3>2
    <3> QED BY <3>1, <3>2
  <2>2. json \notin Values => plain = tplain
    BY <1>11, <1>12, <2>1
  <2> QED BY <2>1, <2>2 DEF Shown, Best
<1>15. Shown(got, p).stamp = Shown(taken.got, p).stamp
  <2> DEFINE stamps == got[p]["stamp json"]
             tstamps == taken.got[p]["stamp json"]
  <2>1. /\ stamps # NotAsked <=> got[p]["stamp"] \in Values /\ probe \in Values
        /\ tstamps # NotAsked <=> taken.got[p]["stamp"] \in Values /\ taken.probe \in Values
    BY <1>1, <1>3, <1>4 DEF Must
  <2>2. /\ stamps # NotAsked => stamps = store[Request("stamp json", p)]
        /\ tstamps # NotAsked => store[Request("stamp json", p)] = tstamps
    BY <1>1, <1>5, <1>6
  <2>3. (stamps \in Values <=> tstamps \in Values) /\ (stamps \in Values => stamps = tstamps)
    <3>1. CASE probe \in Values <=> taken.probe \in Values
      BY <1>7, <1>10, <2>1, <2>2, <3>1
    <3>2. CASE ~(probe \in Values <=> taken.probe \in Values)
      BY <1>10, <1>13, <1>14, <2>1, <3>2
    <3> QED BY <3>1, <3>2
  <2> QED BY <1>7, <2>3 DEF Shown, Best
<1> QED BY <1>8, <1>9, <1>15 DEF Shown

\* README.md:190-192: for any ports, answers and command lines, a replay lists and shows
\* what the recording run did, but for the time stamps of a replay of one port that comes
\* to another answer about --json.
THEOREM ReplayFaithfulHolds == Spec => []ReplayFaithful
BY ReplayIsFaithful, ReplayInvHolds, PTL
=============================================================================
