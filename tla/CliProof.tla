------------------------------ MODULE CliProof ------------------------------
(***************************************************************************)
(* What holds of calls of `nicscope` for any cards, names, labels and      *)
(* command lines: --diff tells the truth about the cards, and --label does *)
(* all or nothing.                                                         *)
(***************************************************************************)
EXTENDS Cli, FiniteSetTheorems, WellFoundedInduction, TLAPS

\* A report is of a machine: a permanent address that was read is the card's own or
\* "not set", the cards
\* are in their order, and no two ports have one name.
Genuine(ports) ==
  /\ \A i \in Indices(ports) : ports[i].permaddr \in {None, NotSet, ports[i].card}
  /\ \A i, j \in Indices(ports) : i < j => <<ports[i].card, ports[j].card>> \in Slots
  /\ \A i, j \in Indices(ports) : ports[i].name = ports[j].name => i = j

\* How far a call is, and what the label file and Labels.entries are by then.
Underway ==
  /\ pc = "terminal" => WantsTerminal(flags)
  /\ pc \in {"terminal", "collect", "record", "label"} => stored = before
  /\ pc \in {"collect", "record"} => mem = stored /\ applied = 0
  /\ pc = "label" /\ applied = 0 => mem = stored
  /\ pc = "act" => applied = Len(flags.pairs)

\* The pairs behind the position were all accepted.
Accepted ==
  pc \in {"label", "act"} => \A k \in 1 .. applied : Named(flags.pairs[k][1]) # {}

\* Until the save, the report shows what is in memory.
InMemory ==
  pc \in {"record", "label"} /\ OwnKeys(report) =>
    \A i \in Indices(report) : report[i].label = mem[KeyOf(report[i])]

\* A call that came to --diff ends with what the comparison found.
Compared ==
  Acted /\ flags.diff /\ export # None =>
    /\ found = Compare(export, report)
    /\ exit = 0 <=> NoChange(Compare(export, report))

CliInv ==
  /\ TypeOK /\ DistinctNames(machine)
  /\ Genuine(report) /\ (export # None => Genuine(export))
  /\ Underway /\ Accepted /\ InMemory /\ Compared /\ LabelsAllOrNothing

-----------------------------------------------------------------------------
(* Positions                                                               *)

\* A set of numbers that is not empty has a least one.
LEMMA LeastOf ==
  ASSUME NEW S \in SUBSET Nat, S # {}
  PROVE  \E x \in S : \A y \in S : x <= y
<1> DEFINE less == {ss \in Nat \X Nat : ss[1] < ss[2]}
<1>1. IsWellFoundedOn(less, Nat)
  BY NatLessThanWellFounded, Zenon DEF OpToRel
<1>2. \E x \in S : \A y \in S : ~ (<<y, x>> \in less)
  <2> HIDE DEF less
  <2> QED BY <1>1, WFMin, Zenon
<1>3. PICK x \in S : \A y \in S : ~ (<<y, x>> \in less)
  BY <1>2
<1>4. ASSUME NEW y \in S PROVE x <= y
  <2>1. ~(y < x)
    BY <1>3
  <2> QED BY <2>1
<1> QED BY <1>4

LEMMA GreatestOf ==
  ASSUME NEW n \in Nat, NEW S \in SUBSET (1 .. n), S # {}
  PROVE  \E x \in S : \A y \in S : y <= x
<1> DEFINE T == {n - x : x \in S}
<1>0. \A x \in S : x \in Nat /\ n - x \in Nat
  OBVIOUS
<1>1. T \in SUBSET Nat /\ T # {}
  <2>1. \A k \in T : k \in Nat
    BY <1>0
  <2>2. PICK z : z \in S
    OBVIOUS
  <2>3. n - z \in T
    BY <2>2
  <2> HIDE DEF T
  <2> QED BY <2>1, <2>3, Zenon
<1>2. PICK m \in T : \A k \in T : m <= k
  <2> HIDE DEF T
  <2> QED BY <1>1, LeastOf
<1>3. PICK x \in S : m = n - x
  OBVIOUS
<1>4. ASSUME NEW y \in S PROVE y <= x
  <2>1. n - y \in T
    BY <1>4
  <2>2. n - x <= n - y
    BY <1>2, <1>3, <2>1
  <2>3. x \in Nat /\ y \in Nat
    OBVIOUS
  <2> QED BY <2>2, <2>3
<1> QED BY <1>4

LEMMA NamedFirst ==
  ASSUME report \in Seq(PortOf), NEW name, Named(name) # {}
  PROVE  First(name) \in Indices(report) /\ report[First(name)].name = name
<1>1. Named(name) \in SUBSET Nat
  BY DEF Named, Indices
<1>2. \E i \in Named(name) : \A j \in Named(name) : i <= j
  BY <1>1, LeastOf
<1>3. First(name) \in Named(name)
  BY <1>2 DEF First
<1> QED BY <1>3 DEF Named

-----------------------------------------------------------------------------
(* Keys and reports                                                        *)

LEMMA PortFields ==
  ASSUME NEW ports \in Seq(PortOf), NEW i \in Indices(ports)
  PROVE  /\ ports[i] \in PortOf /\ ports[i].card \in Cards
         /\ ports[i].permaddr \in Cards \cup {None, NotSet} /\ ports[i].mac \in Cards \cup {None}
         /\ ports[i].name \in Names /\ ports[i].label \in Labels
         /\ KeyOf(ports[i]) \in Keys
<1>1. ports[i] \in PortOf
  BY DEF Indices
<1> QED BY <1>1 DEF PortOf, KeyOf, Keys

LEMMA KeysOfReport ==
  ASSUME NEW ports \in Seq(PortOf)
  PROVE  KeysOf(ports) \subseteq Keys
BY PortFields DEF KeysOf

\* Of the ports with one key, the last one is compared.
LEMMA ByKeyLast ==
  ASSUME NEW ports \in Seq(PortOf), NEW key \in KeysOf(ports)
  PROVE  \E i \in Indices(ports) :
           /\ ByKey(ports, key) = ports[i] /\ KeyOf(ports[i]) = key
           /\ \A j \in Indices(ports) : KeyOf(ports[j]) = key => j <= i
<1> DEFINE S == {i \in Indices(ports) : KeyOf(ports[i]) = key}
<1>1. S # {} /\ S \in SUBSET (1 .. Len(ports)) /\ Len(ports) \in Nat
  BY DEF KeysOf, Indices
<1>2. \E x \in S : \A y \in S : y <= x
  <2> HIDE DEF S
  <2> QED BY <1>1, GreatestOf
<1>3. \E i \in Indices(ports) :
        /\ KeyOf(ports[i]) = key
        /\ \A j \in Indices(ports) : KeyOf(ports[j]) = key => j <= i
  BY <1>2
<1> QED BY <1>3, Zenon DEF ByKey

LEMMA ByOwnKey ==
  ASSUME NEW ports \in Seq(PortOf), OwnKeys(ports), NEW i \in Indices(ports)
  PROVE  ByKey(ports, KeyOf(ports[i])) = ports[i] /\ KeyOf(ports[i]) \in KeysOf(ports)
<1>1. KeyOf(ports[i]) \in KeysOf(ports)
  BY DEF KeysOf
<1>2. PICK j \in Indices(ports) :
        ByKey(ports, KeyOf(ports[i])) = ports[j] /\ KeyOf(ports[j]) = KeyOf(ports[i])
  BY <1>1, ByKeyLast
<1> QED BY <1>1, <1>2 DEF OwnKeys

\* When all permanent addresses were read, they are the keys.
LEMMA PermanentKeys ==
  ASSUME NEW ports \in Seq(PortOf), Genuine(ports), Permanent(ports)
  PROVE  OwnKeys(ports) /\ \A i \in Indices(ports) : KeyOf(ports[i]) = ports[i].card
<1>1. \A i \in Indices(ports) : KeyOf(ports[i]) = ports[i].card
  BY CliAssumption DEF Genuine, Permanent, KeyOf
<1>2. ASSUME NEW i \in Indices(ports), NEW j \in Indices(ports), ports[i].card = ports[j].card
      PROVE  i = j
  <2>1. ~(i < j) /\ ~(j < i)
    BY CliAssumption, <1>2, PortFields DEF Genuine
  <2> QED BY <2>1 DEF Indices
<1> QED BY <1>1, <1>2 DEF OwnKeys

-----------------------------------------------------------------------------
(* What a comparison finds                                                 *)

\* Nothing is found when the keys are the same and what is watched under each of them.
LEMMA NothingChanged ==
  ASSUME NEW old, NEW new
  PROVE  NoChange(Compare(old, new)) <=>
           /\ KeysOf(old) = KeysOf(new)
           /\ \A key \in KeysOf(old) : \A k \in Watched :
                ByKey(old, key)[k] = ByKey(new, key)[k]
<1> DEFINE both == (KeysOf(old) \cap KeysOf(new)) \X Watched
           differ == {c \in both : ByKey(old, c[1])[c[2]] # ByKey(new, c[1])[c[2]]}
<1>1. NoChange(Compare(old, new)) <=>
        KeysOf(new) \ KeysOf(old) = {} /\ KeysOf(old) \ KeysOf(new) = {} /\ differ = {}
  BY DEF NoChange, Compare
<1>2. KeysOf(new) \ KeysOf(old) = {} /\ KeysOf(old) \ KeysOf(new) = {} <=>
        KeysOf(old) = KeysOf(new)
  OBVIOUS
<1>3. ASSUME differ = {}, NEW key \in KeysOf(old) \cap KeysOf(new), NEW k \in Watched
      PROVE  ByKey(old, key)[k] = ByKey(new, key)[k]
  <2>1. <<key, k>> \in both
    OBVIOUS
  <2> QED BY <1>3, <2>1
<1>4. ASSUME \A key \in KeysOf(old) \cap KeysOf(new) : \A k \in Watched :
               ByKey(old, key)[k] = ByKey(new, key)[k]
      PROVE  differ = {}
  <2>1. \A c \in both : ByKey(old, c[1])[c[2]] = ByKey(new, c[1])[c[2]]
    BY <1>4
  <2> QED BY <2>1
<1> HIDE DEF differ, both
<1> QED BY <1>1, <1>2, <1>3, <1>4

\* What a comparison that finds nothing has compared: every port, when each has a key
\* of its own.
LEMMA QuietKeyed ==
  ASSUME NEW old \in Seq(PortOf), NEW new \in Seq(PortOf), OwnKeys(old),
         KeysOf(old) \subseteq KeysOf(new),
         \A key \in KeysOf(old) : \A k \in Watched :
           ByKey(old, key)[k] = ByKey(new, key)[k]
  PROVE  Keyed(old) \subseteq Keyed(new)
<1>1. ASSUME NEW i \in Indices(old)
      PROVE  \E j \in Indices(new) :
               /\ KeyOf(old[i]) = KeyOf(new[j])
               /\ [k \in Watched |-> old[i][k]] = [k \in Watched |-> new[j][k]]
  <2>1. ByKey(old, KeyOf(old[i])) = old[i] /\ KeyOf(old[i]) \in KeysOf(old)
    BY ByOwnKey, Zenon
  <2>2. KeyOf(old[i]) \in KeysOf(new)
    BY <2>1, Zenon
  <2>3. PICK j \in Indices(new) :
          ByKey(new, KeyOf(old[i])) = new[j] /\ KeyOf(new[j]) = KeyOf(old[i])
    BY <2>2, ByKeyLast, Zenon
  <2>4. \A k \in Watched : ByKey(old, KeyOf(old[i]))[k] = ByKey(new, KeyOf(old[i]))[k]
    BY <2>1
  <2>5. \A k \in Watched : old[i][k] = new[j][k]
    BY <2>1, <2>3, <2>4
  <2>6. [k \in Watched |-> old[i][k]] = [k \in Watched |-> new[j][k]]
    BY <2>5
  <2> QED BY <2>3, <2>6, Zenon
<1>2. ASSUME NEW e \in Keyed(old) PROVE e \in Keyed(new)
  <2>1. PICK i \in Indices(old) : e = <<KeyOf(old[i]), [k \in Watched |-> old[i][k]]>>
    BY DEF Keyed
  <2>2. PICK j \in Indices(new) : e = <<KeyOf(new[j]), [k \in Watched |-> new[j][k]]>>
    BY <1>1, <2>1
  <2> QED BY <2>2 DEF Keyed
<1> QED BY <1>2, Zenon

LEMMA QuietMeansKeyed ==
  ASSUME NEW old \in Seq(PortOf), NEW new \in Seq(PortOf), OwnKeys(old), OwnKeys(new),
         NoChange(Compare(old, new))
  PROVE  Keyed(old) = Keyed(new)
<1>1. KeysOf(old) = KeysOf(new)
  BY NothingChanged, Zenon
<1>2. \A key \in KeysOf(old) : \A k \in Watched : ByKey(old, key)[k] = ByKey(new, key)[k]
  BY NothingChanged
<1>3. Keyed(old) \subseteq Keyed(new)
  BY <1>1, <1>2, QuietKeyed, Zenon
<1>4. \A key \in KeysOf(new) : \A k \in Watched : ByKey(new, key)[k] = ByKey(old, key)[k]
  BY <1>1, <1>2, Zenon
<1>5. Keyed(new) \subseteq Keyed(old)
  BY <1>1, <1>4, QuietKeyed, Zenon
<1> QED BY <1>3, <1>5

\* The same cards with the same rows: the port of one report has its like in the other.
LEMMA Alike ==
  ASSUME NEW old \in Seq(PortOf), NEW new \in Seq(PortOf), Genuine(new),
         Watch(old) \subseteq Watch(new), Keyed(old) \subseteq Keyed(new),
         NEW i \in Indices(old)
  PROVE  \E j \in Indices(new) :
           /\ KeyOf(new[j]) = KeyOf(old[i]) /\ new[j].card = old[i].card
           /\ \A k \in Watched : new[j][k] = old[i][k]
<1> DEFINE row(port) == [k \in Watched |-> port[k]]
           seen(port) == [k \in {"card"} \cup Watched |-> port[k]]
<1>1. \E j \in Indices(new) :
        KeyOf(new[j]) = KeyOf(old[i]) /\ \A k \in Watched : new[j][k] = old[i][k]
  <2>0. <<KeyOf(old[i]), row(old[i])>> \in Keyed(old)
    BY Zenon DEF Keyed
  <2>1. <<KeyOf(old[i]), row(old[i])>> \in Keyed(new)
    BY <2>0, Zenon
  <2>2. PICK j \in Indices(new) :
          <<KeyOf(old[i]), row(old[i])>> = <<KeyOf(new[j]), row(new[j])>>
    BY <2>1 DEF Keyed
  <2>3. KeyOf(old[i]) = KeyOf(new[j]) /\ row(old[i]) = row(new[j])
    BY <2>2
  <2>4. \A k \in Watched : row(old[i])[k] = old[i][k] /\ row(new[j])[k] = new[j][k]
    OBVIOUS
  <2> HIDE DEF row
  <2> QED BY <2>3, <2>4
<1>2. \E h \in Indices(new) :
        new[h].card = old[i].card /\ \A k \in Watched : new[h][k] = old[i][k]
  <2>0. seen(old[i]) \in Watch(old)
    BY Zenon DEF Watch
  <2>1. seen(old[i]) \in Watch(new)
    BY <2>0, Zenon
  <2>2. PICK h \in Indices(new) : seen(old[i]) = seen(new[h])
    BY <2>1 DEF Watch
  <2>3. \A k \in {"card"} \cup Watched :
          seen(old[i])[k] = old[i][k] /\ seen(new[h])[k] = new[h][k]
    OBVIOUS
  <2> HIDE DEF seen
  <2>4. \A k \in {"card"} \cup Watched : old[i][k] = new[h][k]
    BY <2>2, <2>3
  <2>5. old[i]["card"] = new[h]["card"]
    BY <2>4
  <2> QED BY <2>4, <2>5
<1>3. PICK j \in Indices(new) :
        KeyOf(new[j]) = KeyOf(old[i]) /\ \A k \in Watched : new[j][k] = old[i][k]
  BY <1>1
<1>4. PICK h \in Indices(new) :
        new[h].card = old[i].card /\ \A k \in Watched : new[h][k] = old[i][k]
  BY <1>2
<1>5. "name" \in Watched
  BY DEF Watched
<1>6. new[j].name = new[h].name
  BY <1>3, <1>4, <1>5
<1>7. j = h
  BY <1>6 DEF Genuine
<1> QED BY <1>3, <1>4, <1>7

\* Two collections of the same machine: of two ports with one key the later one is
\* compared, and the cards are in one order, so it is the same port both times.
LEMMA SameMeansQuiet ==
  ASSUME NEW old \in Seq(PortOf), NEW new \in Seq(PortOf), Genuine(old), Genuine(new),
         Watch(old) = Watch(new), Keyed(old) = Keyed(new)
  PROVE  NoChange(Compare(old, new))
<1>1. ASSUME NEW i \in Indices(old)
      PROVE  \E j \in Indices(new) :
               /\ KeyOf(new[j]) = KeyOf(old[i]) /\ new[j].card = old[i].card
               /\ \A k \in Watched : new[j][k] = old[i][k]
  BY Alike
<1>2. ASSUME NEW j \in Indices(new)
      PROVE  \E i \in Indices(old) :
               /\ KeyOf(new[j]) = KeyOf(old[i]) /\ new[j].card = old[i].card
               /\ \A k \in Watched : new[j][k] = old[i][k]
  <2>1. \E i \in Indices(old) :
           /\ KeyOf(old[i]) = KeyOf(new[j]) /\ old[i].card = new[j].card
           /\ \A k \in Watched : old[i][k] = new[j][k]
    BY Alike
  <2> QED BY <2>1
<1>3. KeysOf(old) = KeysOf(new)
  <2>1. \A i \in Indices(old) : KeyOf(old[i]) \in KeysOf(new)
    BY <1>1 DEF KeysOf
  <2>2. \A j \in Indices(new) : KeyOf(new[j]) \in KeysOf(old)
    BY <1>2 DEF KeysOf
  <2> QED BY <2>1, <2>2 DEF KeysOf
<1>4. ASSUME NEW key \in KeysOf(old), NEW k \in Watched
      PROVE  ByKey(old, key)[k] = ByKey(new, key)[k]
  <2>1. PICK i \in Indices(old) :
          /\ ByKey(old, key) = old[i] /\ KeyOf(old[i]) = key
          /\ \A y \in Indices(old) : KeyOf(old[y]) = key => y <= i
    BY ByKeyLast
  <2>2. PICK j \in Indices(new) :
          /\ ByKey(new, key) = new[j] /\ KeyOf(new[j]) = key
          /\ \A y \in Indices(new) : KeyOf(new[y]) = key => y <= j
    BY <1>3, ByKeyLast
  <2>3. PICK y \in Indices(new) :
          /\ KeyOf(new[y]) = KeyOf(old[i]) /\ new[y].card = old[i].card
          /\ new[y][k] = old[i][k]
    BY <1>1
  <2>4. PICK x \in Indices(old) :
          KeyOf(new[j]) = KeyOf(old[x]) /\ new[j].card = old[x].card
    BY <1>2
  <2>5. y <= j /\ x <= i
    BY <2>1, <2>2, <2>3, <2>4
  <2>6. ~(y < j)
    <3>1. y < j => <<old[i].card, old[x].card>> \in Slots
      BY <2>3, <2>4 DEF Genuine
    <3>2. x < i => <<old[x].card, old[i].card>> \in Slots
      BY DEF Genuine
    <3>3. old[i].card \in Cards /\ old[x].card \in Cards
      BY PortFields
    <3>4. x < i \/ x = i
      BY <2>5 DEF Indices
    <3> QED BY CliAssumption, <3>1, <3>2, <3>3, <3>4
  <2>7. y = j
    BY <2>5, <2>6 DEF Indices
  <2> QED BY <2>1, <2>2, <2>3, <2>7
<1> QED BY <1>3, <1>4, NothingChanged

\* Where all addresses were read, the rows under the keys are the rows of the cards.
LEMMA PermanentRows ==
  ASSUME NEW old \in Seq(PortOf), NEW new \in Seq(PortOf), Genuine(old), Genuine(new),
         Permanent(old), Permanent(new)
  PROVE  Watch(old) \subseteq Watch(new) <=> Keyed(old) \subseteq Keyed(new)
<1> DEFINE row(port) == [k \in Watched |-> port[k]]
           seen(port) == [k \in {"card"} \cup Watched |-> port[k]]
<1>1. /\ \A i \in Indices(old) : KeyOf(old[i]) = old[i].card
      /\ \A j \in Indices(new) : KeyOf(new[j]) = new[j].card
  BY PermanentKeys
<1>2. Watch(old) = {seen(old[i]) : i \in Indices(old)}
      /\ Watch(new) = {seen(new[i]) : i \in Indices(new)}
  BY DEF Watch
<1>3. Keyed(old) = {<<KeyOf(old[i]), row(old[i])>> : i \in Indices(old)}
      /\ Keyed(new) = {<<KeyOf(new[i]), row(new[i])>> : i \in Indices(new)}
  BY DEF Keyed
<1>4. ASSUME NEW i \in Indices(old), NEW j \in Indices(new)
      PROVE  seen(old[i]) = seen(new[j]) <=>
               KeyOf(old[i]) = KeyOf(new[j]) /\ row(old[i]) = row(new[j])
  <2>1. seen(old[i]) = seen(new[j]) <=>
          \A k \in {"card"} \cup Watched : old[i][k] = new[j][k]
    OBVIOUS
  <2>2. row(old[i]) = row(new[j]) <=> \A k \in Watched : old[i][k] = new[j][k]
    OBVIOUS
  <2>3. KeyOf(old[i]) = KeyOf(new[j]) <=> old[i]["card"] = new[j]["card"]
    BY <1>1
  <2> HIDE DEF row, seen
  <2> QED BY <2>1, <2>2, <2>3
<1> HIDE DEF row, seen
<1>5. ASSUME NEW i \in Indices(old), NEW j \in Indices(new)
      PROVE  <<KeyOf(old[i]), row(old[i])>> = <<KeyOf(new[j]), row(new[j])>> <=>
               KeyOf(old[i]) = KeyOf(new[j]) /\ row(old[i]) = row(new[j])
  OBVIOUS
<1>6. Watch(old) \subseteq Watch(new) <=>
        \A i \in Indices(old) : \E j \in Indices(new) : seen(old[i]) = seen(new[j])
  BY <1>2, Zenon
<1>7. Keyed(old) \subseteq Keyed(new) <=>
        \A i \in Indices(old) : \E j \in Indices(new) :
          KeyOf(old[i]) = KeyOf(new[j]) /\ row(old[i]) = row(new[j])
  <2>1. Keyed(old) \subseteq Keyed(new) <=>
          \A i \in Indices(old) : \E j \in Indices(new) :
            <<KeyOf(old[i]), row(old[i])>> = <<KeyOf(new[j]), row(new[j])>>
    BY <1>3, Zenon
  <2> QED BY <1>5, <2>1
<1> QED BY <1>4, <1>6, <1>7

\* What --diff says is true of the two reports it compares.
LEMMA ComparisonHonest ==
  ASSUME NEW old \in Seq(PortOf), NEW new \in Seq(PortOf), Genuine(old), Genuine(new)
  PROVE  /\ Permanent(old) /\ Permanent(new) =>
              (NoChange(Compare(old, new)) <=> Watch(old) = Watch(new))
         /\ \A i \in Indices(old), j \in Indices(new) :
              old[i].permaddr = new[j].permaddr /\ new[j].permaddr \in Cards =>
                new[j].card \notin Compare(old, new).added \cup Compare(old, new).removed
<1>1. ASSUME Permanent(old), Permanent(new), Watch(old) = Watch(new)
      PROVE  NoChange(Compare(old, new))
  <2>1. Keyed(old) \subseteq Keyed(new) /\ Keyed(new) \subseteq Keyed(old)
    BY <1>1, PermanentRows
  <2>2. Keyed(old) = Keyed(new)
    BY <2>1
  <2> QED BY <1>1, <2>2, SameMeansQuiet
<1>2. ASSUME Permanent(old), Permanent(new), NoChange(Compare(old, new))
      PROVE  Watch(old) = Watch(new)
  <2>1. OwnKeys(old) /\ OwnKeys(new)
    BY <1>2, PermanentKeys
  <2>2. Keyed(old) = Keyed(new)
    BY <1>2, <2>1, QuietMeansKeyed
  <2>3. Keyed(old) \subseteq Keyed(new) /\ Keyed(new) \subseteq Keyed(old)
    BY <2>2
  <2>4. Watch(old) \subseteq Watch(new) /\ Watch(new) \subseteq Watch(old)
    BY <1>2, <2>3, PermanentRows
  <2> QED BY <2>4
<1>3. ASSUME NEW i \in Indices(old), NEW j \in Indices(new),
             old[i].permaddr = new[j].permaddr, new[j].permaddr \in Cards
      PROVE  new[j].card \notin Compare(old, new).added \cup Compare(old, new).removed
  <2>1. KeyOf(new[j]) = new[j].card /\ KeyOf(old[i]) = new[j].card
    BY CliAssumption, <1>3 DEF Genuine, KeyOf
  <2>2. new[j].card \in KeysOf(new) /\ new[j].card \in KeysOf(old)
    BY <2>1 DEF KeysOf
  <2> QED BY <2>2 DEF Compare
<1> QED BY <1>1, <1>2, <1>3

LEMMA CompareType ==
  ASSUME NEW old \in Seq(PortOf), NEW new \in Seq(PortOf)
  PROVE  /\ Compare(old, new).added \subseteq Keys /\ Compare(old, new).removed \subseteq Keys
         /\ Compare(old, new).changed \subseteq Keys \X Watched
BY KeysOfReport DEF Compare

-----------------------------------------------------------------------------
(* What a collection sees, and what a label changes                        *)

LEMMA PortSeenFields ==
  ASSUME TypeOK, NEW c \in Cards
  PROVE  /\ Labelled(PortSeen(c)) \in PortOf
         /\ Labelled(PortSeen(c)).card = c /\ Labelled(PortSeen(c)).name = machine[c].name
         /\ Labelled(PortSeen(c)).permaddr \in {None, NotSet, c}
         /\ Labelled(PortSeen(c)).label = mem[KeyOf(Labelled(PortSeen(c)))]
         /\ KeyOf(PortSeen(c)) \in Keys
<1>1. /\ machine[c] \in States /\ mem \in [Keys -> Labels]
      /\ machine[c].name \in Names /\ machine[c].setting \in {"old", "new"}
      /\ machine[c].result \in Verdicts /\ machine[c].mac \in Cards \cup {None}
      /\ machine[c].perm \in {"own", "nothing", "text"}
  BY DEF TypeOK, States
<1> DEFINE p == PortSeen(c)
<1>2. /\ p.card = c /\ p.name = machine[c].name /\ p.permaddr \in {None, NotSet, c}
      /\ p.mac \in Cards \cup {None}
      /\ p \in PortOf
  BY <1>1 DEF PortSeen, PermAddr, PortOf, Labels
<1>3. KeyOf(p) \in Keys
  BY <1>1, <1>2 DEF KeyOf, Keys
<1>4. mem[KeyOf(p)] \in Labels
  BY <1>1, <1>3
<1> HIDE DEF p
<1> DEFINE q == [p EXCEPT !.label = mem[KeyOf(p)]]
<1>5. /\ q \in PortOf /\ q.card = p.card /\ q.name = p.name /\ q.permaddr = p.permaddr
      /\ q.mac = p.mac /\ q.label = mem[KeyOf(p)]
  BY <1>2, <1>4 DEF PortOf
<1>6. Labelled(p) = q
  BY DEF Labelled
<1>7. KeyOf(q) = KeyOf(p)
  <2> HIDE DEF q
  <2> QED BY <1>5 DEF KeyOf
<1> HIDE DEF q
<1>8. /\ Labelled(p) \in PortOf
      /\ Labelled(p).card = c /\ Labelled(p).name = machine[c].name
      /\ Labelled(p).permaddr \in {None, NotSet, c}
      /\ Labelled(p).label = mem[KeyOf(Labelled(p))]
  BY <1>2, <1>5, <1>6, <1>7
<1> QED BY <1>3, <1>8 DEF p

LEMMA SeenGenuine ==
  ASSUME TypeOK, DistinctNames(machine), NEW only, NEW ports \in Seen(only)
  PROVE  /\ ports \in Seq(PortOf) /\ Genuine(ports)
         /\ \A i \in Indices(ports) : ports[i].label = mem[KeyOf(ports[i])]
<1> DEFINE n == Cardinality(Present(only))
<1>1. Present(only) \subseteq Cards
  BY DEF Present
<1>2. n \in Nat
  BY <1>1, CliAssumption, FS_Subset, FS_CardinalityType
<1>3. PICK s \in InOrder(Present(only)) :
        ports = [i \in 1 .. n |-> Labelled(PortSeen(s[i]))]
  BY DEF Seen
<1>4. /\ s \in [1 .. n -> Present(only)]
      /\ \A i, j \in 1 .. n : i < j => <<s[i], s[j]>> \in Slots
  BY <1>3 DEF InOrder
<1> HIDE DEF n
<1>5. \A i \in 1 .. n : s[i] \in Cards /\ machine[s[i]].plugged
  BY <1>4 DEF Present
<1>6. \A i \in 1 .. n : ports[i] = Labelled(PortSeen(s[i]))
  BY <1>3
<1>7. ASSUME NEW i \in 1 .. n
      PROVE  /\ ports[i] \in PortOf
             /\ ports[i].card = s[i] /\ ports[i].name = machine[s[i]].name
             /\ ports[i].permaddr \in {None, NotSet, s[i]}
             /\ ports[i].label = mem[KeyOf(ports[i])]
  BY <1>5, <1>6, PortSeenFields
<1>8. ports \in [1 .. n -> PortOf]
  BY <1>3, <1>6, <1>7
<1>9. ports \in Seq(PortOf) /\ Len(ports) = n
  BY <1>2, <1>8
<1>10. ASSUME NEW i \in 1 .. n, NEW j \in 1 .. n, ports[i].name = ports[j].name PROVE i = j
  <2>1. s[i] = s[j]
    BY <1>5, <1>7, <1>10 DEF DistinctNames
  <2>2. <<s[i], s[j]>> \notin Slots /\ <<s[j], s[i]>> \notin Slots
    BY <1>5, <2>1, CliAssumption
  <2>3. ~(i < j) /\ ~(j < i)
    BY <1>4, <2>2
  <2> QED BY <1>2, <2>3
<1>11. \A i, j \in 1 .. n : i < j => <<ports[i].card, ports[j].card>> \in Slots
  BY <1>4, <1>7
<1>12. Indices(ports) = 1 .. n
  BY <1>9 DEF Indices
<1> QED BY <1>7, <1>9, <1>10, <1>11, <1>12 DEF Genuine

\* Of the ports, only the label of one is another.
OnlyLabel(ports, after, x, t) ==
  /\ after \in Seq(PortOf) /\ Indices(after) = Indices(ports)
  /\ \A i \in Indices(ports) :
       /\ after[i].card = ports[i].card /\ after[i].permaddr = ports[i].permaddr
       /\ after[i].mac = ports[i].mac /\ after[i].name = ports[i].name
       /\ KeyOf(after[i]) = KeyOf(ports[i])
  /\ after[x].label = t
  /\ \A i \in Indices(ports) : i # x => after[i] = ports[i]

\* A label changes nothing but the label of one port.
LEMMA Relabelled ==
  ASSUME NEW ports \in Seq(PortOf), NEW x \in Indices(ports), NEW t \in Labels,
         NEW after, after = [ports EXCEPT ![x].label = t]
  PROVE  OnlyLabel(ports, after, x, t)
<1> DEFINE p == [ports[x] EXCEPT !.label = t]
<1>1. ports[x] \in PortOf
  BY PortFields
<1>2. /\ p \in PortOf /\ p.card = ports[x].card /\ p.permaddr = ports[x].permaddr
      /\ p.mac = ports[x].mac /\ p.name = ports[x].name /\ p.label = t
  BY <1>1 DEF PortOf
<1>3. after = [ports EXCEPT ![x] = p]
  OBVIOUS
<1> HIDE DEF p
<1>4. after \in Seq(PortOf) /\ Len(after) = Len(ports)
  BY <1>2, <1>3 DEF Indices
<1>5. after[x] = p /\ \A i \in Indices(ports) : i # x => after[i] = ports[i]
  BY <1>3 DEF Indices
<1>6. KeyOf(p) = KeyOf(ports[x])
  BY <1>2 DEF KeyOf
<1> QED BY <1>2, <1>4, <1>5, <1>6 DEF Indices, OnlyLabel

\* So the report stays one of a machine, and as good as it was at telling ports apart.
LEMMA RelabelledGenuine ==
  ASSUME NEW ports, NEW after, Genuine(ports), Indices(after) = Indices(ports),
         \A i \in Indices(ports) :
           /\ after[i].card = ports[i].card /\ after[i].permaddr = ports[i].permaddr
           /\ after[i].name = ports[i].name /\ KeyOf(after[i]) = KeyOf(ports[i])
  PROVE  Genuine(after) /\ (OwnKeys(after) <=> OwnKeys(ports))
<1>1. Genuine(after)
  BY DEF Genuine
<1>2. OwnKeys(after) <=> OwnKeys(ports)
  BY DEF OwnKeys
<1> QED BY <1>1, <1>2

-----------------------------------------------------------------------------
(* Every step keeps the invariant                                          *)

LEMMA NoPorts == << >> \in Seq(PortOf)
OBVIOUS

LEMMA CallFields ==
  ASSUME NEW f \in Calls
  PROVE  f.pairs \in Seq((Names \cup {None}) \X Labels) /\ Len(f.pairs) \in Nat
<1>1. f \in Flags
  BY CliAssumption
<1>2. f.pairs \in Seq((Names \cup {None}) \X Labels)
  BY <1>1 DEF Flags
<1> QED BY <1>2

\* What the comparison found and how the call ended say the same.
LEMMA ComparedKept ==
  ASSUME Compared, UNCHANGED <<flags, report, export, found, exit, pc>>
  PROVE  Compared'
BY DEF Compared, Acted, Refused, Named, Indices

LEMMA CliInit == Init => CliInv
<1> SUFFICES ASSUME Init PROVE CliInv
  OBVIOUS
<1>1. flags \in Calls
  BY CliAssumption DEF Init
<1>2. TypeOK
  <2>1. /\ stored \in [Keys -> Labels] /\ mem \in [Keys -> Labels] /\ before \in [Keys -> Labels]
    BY DEF Init, Labels
  <2>2. machine \in [Cards -> States]
    BY DEF Init
  <2>3. /\ export \in Seq(PortOf) \cup {None} /\ report \in Seq(PortOf)
        /\ pc \in PCs /\ exit \in Exits /\ captured \in BOOLEAN
    <3>1. export = None /\ report = << >> /\ pc = "shell" /\ exit = -1 /\ captured = FALSE
      BY Zenon DEF Init
    <3>2. pc \in PCs /\ exit \in Exits
      BY <3>1 DEF PCs, Exits
    <3>3. export \in Seq(PortOf) \cup {None} /\ report \in Seq(PortOf) /\ captured \in BOOLEAN
      BY <3>1, NoPorts, Zenon
    <3> QED BY <3>2, <3>3
  <2>4. changes \in 0 .. MaxChanges /\ calls \in 0 .. MaxCalls /\ applied \in 0 .. Len(flags.pairs)
    <3>1. Len(flags.pairs) \in Nat
      BY <1>1, CallFields
    <3>2. changes = 0 /\ calls = 0 /\ applied = 0 /\ MaxChanges \in Nat /\ MaxCalls \in Nat
      BY CliAssumption, Zenon DEF Init
    <3> QED BY <3>1, <3>2
  <2>5. /\ found.added \subseteq Keys /\ found.removed \subseteq Keys
        /\ found.changed \subseteq Keys \X Watched
    BY DEF Init, NothingFound
  <2> QED BY <1>1, <2>1, <2>2, <2>3, <2>4, <2>5 DEF TypeOK
<1>3. DistinctNames(machine)
  BY DEF Init
<1>4. Genuine(report) /\ (export # None => Genuine(export))
  BY DEF Init, Genuine, Indices
<1>5. Underway /\ Accepted /\ InMemory /\ Compared /\ LabelsAllOrNothing
  BY DEF Init, Underway, Accepted, InMemory, Compared, Acted, LabelsAllOrNothing
<1> QED BY <1>2, <1>3, <1>4, <1>5 DEF CliInv

LEMMA StartKeeps ==
  ASSUME CliInv, Start
  PROVE  CliInv'
<1> USE DEF Start, Ends
<1>1. flags' \in Calls /\ pc' \in PCs /\ pc' \in {"terminal", "collect", "over"}
  BY DEF PCs
<1>2. TypeOK'
  <2>1. /\ machine' = machine /\ changes' = changes /\ stored' = stored /\ export' = export
        /\ mem' = stored /\ before' = stored /\ report' = << >> /\ captured' = FALSE
    OBVIOUS
  <2>2. /\ machine' \in [Cards -> States] /\ changes' \in 0 .. MaxChanges
        /\ stored' \in [Keys -> Labels] /\ mem' \in [Keys -> Labels]
        /\ before' \in [Keys -> Labels]
        /\ export' \in Seq(PortOf) \cup {None} /\ report' \in Seq(PortOf)
        /\ captured' \in BOOLEAN
    <3> HIDE DEF Start
    <3> QED BY <2>1, NoPorts, Zenon DEF CliInv, TypeOK
  <2>3. calls' \in 0 .. MaxCalls
    <3>1. MaxCalls \in Nat /\ calls \in 0 .. MaxCalls /\ calls < MaxCalls /\ calls' = calls + 1
      BY CliAssumption, Zenon DEF CliInv, TypeOK
    <3> QED BY <3>1
  <2>4. applied' \in 0 .. Len(flags'.pairs)
    <3>1. Len(flags'.pairs) \in Nat /\ applied' = 0
      BY <1>1, CallFields
    <3> QED BY <3>1
  <2>5. exit' \in Exits
    BY DEF Exits
  <2>6. /\ found'.added \subseteq Keys /\ found'.removed \subseteq Keys
        /\ found'.changed \subseteq Keys \X Watched
    BY DEF NothingFound
  <2> QED BY <1>1, <2>2, <2>3, <2>4, <2>5, <2>6 DEF TypeOK
<1>3. DistinctNames(machine')
  BY DEF CliInv
<1>4. Genuine(report') /\ (export' # None => Genuine(export'))
  BY DEF CliInv, Genuine, Indices
<1>5. Underway' /\ Accepted' /\ InMemory'
  BY <1>1 DEF Underway, Accepted, InMemory
<1>6. ~Acted'
  BY DEF Acted
<1>7. Compared' /\ LabelsAllOrNothing'
  BY <1>1, <1>6 DEF Compared, LabelsAllOrNothing
<1> QED BY <1>2, <1>3, <1>4, <1>5, <1>7 DEF CliInv, DistinctNames, Genuine, Indices

\* A call that takes the interface does not come to --diff, whatever it ends with.
LEMMA TerminalKeeps ==
  ASSUME CliInv, Terminal
  PROVE  CliInv'
<1>1. /\ pc = "terminal" /\ pc' = "over" /\ exit' \in {0, 1}
      /\ UNCHANGED <<machine, changes, export, calls, flags, mem, applied, captured, found, before>>
      /\ stored' = stored
           \/ stored' \in {[stored EXCEPT ![KeyOf(PortSeen(c))] = t] : c \in Cards, t \in Labels}
      /\ report' = report \/ report' \in Seen(flags.only)
  BY DEF Terminal, Ends, CheckExit
<1>2. TypeOK /\ DistinctNames(machine) /\ Genuine(report) /\ (export # None => Genuine(export))
  BY Zenon DEF CliInv
<1>3. stored' \in [Keys -> Labels]
  <2>1. stored \in [Keys -> Labels]
    BY <1>2, Zenon DEF TypeOK
  <2>2. CASE stored' = stored
    BY <2>1, <2>2
  <2>3. ASSUME NEW c \in Cards, NEW t \in Labels, stored' = [stored EXCEPT ![KeyOf(PortSeen(c))] = t]
        PROVE  stored' \in [Keys -> Labels]
    <3>1. KeyOf(PortSeen(c)) \in Keys
      BY <1>2, PortSeenFields
    <3> QED BY <2>1, <2>3, <3>1
  <2> QED BY <1>1, <2>2, <2>3
<1>4. report' \in Seq(PortOf) /\ Genuine(report')
  <2>1. CASE report' = report
    BY <1>2, <2>1, Zenon DEF TypeOK
  <2>2. CASE report' \in Seen(flags.only)
    BY <1>2, <2>2, SeenGenuine, Zenon
  <2> QED BY <1>1, <2>1, <2>2
<1>5. TypeOK'
  <2>1. pc' \in PCs /\ exit' \in Exits
    BY <1>1 DEF PCs, Exits
  <2> QED BY <1>1, <1>2, <1>3, <1>4, <2>1, Zenon DEF TypeOK
<1>6. Underway' /\ Accepted' /\ InMemory' /\ LabelsAllOrNothing'
  BY <1>1 DEF Underway, Accepted, InMemory, LabelsAllOrNothing
<1>7. Compared'
  <2>1. WantsTerminal(flags') /\ pc' = "over"
    BY <1>1 DEF CliInv, Underway
  <2> QED BY <2>1 DEF Compared, Acted
<1>8. DistinctNames(machine)' /\ Genuine(report)' /\ (export # None => Genuine(export))'
  BY <1>1, <1>2, <1>4
<1> QED BY <1>5, <1>6, <1>7, <1>8, Zenon DEF CliInv

LEMMA CollectKeeps ==
  ASSUME CliInv, Collect
  PROVE  CliInv'
<1>1. /\ pc = "collect" /\ pc' = "record" /\ report' \in Seen(flags.only)
      /\ UNCHANGED <<machine, changes, stored, export, calls, flags, mem, applied, exit, captured,
                     found, before>>
  BY DEF Collect
<1>2. TypeOK /\ DistinctNames(machine) /\ (export # None => Genuine(export))
  BY Zenon DEF CliInv
<1>3. /\ report' \in Seq(PortOf) /\ Genuine(report')
      /\ \A i \in Indices(report') : report'[i].label = mem[KeyOf(report'[i])]
  BY <1>1, <1>2, SeenGenuine, Zenon
<1>4. TypeOK'
  <2>1. pc' \in PCs
    BY <1>1 DEF PCs
  <2> QED BY <1>1, <1>2, <1>3, <2>1, Zenon DEF TypeOK
<1>5. DistinctNames(machine)' /\ Genuine(report)' /\ (export # None => Genuine(export))'
  BY <1>1, <1>2, <1>3
<1>6. Underway' /\ Accepted'
  BY <1>1 DEF CliInv, Underway, Accepted
<1>7. InMemory'
  BY <1>1, <1>3, Zenon DEF InMemory
<1>8. Compared' /\ LabelsAllOrNothing'
  BY <1>1 DEF Compared, Acted, LabelsAllOrNothing
<1> QED BY <1>4, <1>5, <1>6, <1>7, <1>8, Zenon DEF CliInv

LEMMA SaveCaptureKeeps ==
  ASSUME CliInv, SaveCapture
  PROVE  CliInv'
<1>1. /\ pc = "record" /\ pc' \in {"label", "raised"} /\ exit' \in {exit, 1}
      /\ captured' \in {captured, flags.record}
      /\ UNCHANGED <<machine, changes, stored, export, calls, flags, report, mem, applied, found,
                     before>>
  BY DEF SaveCapture, Raises
<1>2. TypeOK'
  <2>1. pc' \in PCs /\ exit' \in Exits
    BY <1>1 DEF PCs, Exits, CliInv, TypeOK
  <2>2. captured' \in BOOLEAN
    <3>1. captured \in BOOLEAN /\ flags \in Flags
      BY CliAssumption DEF CliInv, TypeOK
    <3>2. flags.record \in BOOLEAN
      BY <3>1 DEF Flags
    <3> QED BY <1>1, <3>1, <3>2
  <2> QED BY <1>1, <2>1, <2>2, Zenon DEF CliInv, TypeOK
<1>3. DistinctNames(machine)' /\ Genuine(report)' /\ (export # None => Genuine(export))'
  BY <1>1 DEF CliInv
<1>4. Underway' /\ Accepted' /\ applied = 0
  BY <1>1 DEF CliInv, Underway, Accepted
<1>5. InMemory'
  BY <1>1 DEF CliInv, InMemory, OwnKeys, Indices
<1>6. Compared' /\ LabelsAllOrNothing'
  BY <1>1 DEF Compared, Acted, LabelsAllOrNothing
<1> QED BY <1>2, <1>3, <1>4, <1>5, <1>6, Zenon DEF CliInv

\* A pair that is refused: what is in memory is lost, the label file was not touched.
LEMMA RefusePairKeeps ==
  ASSUME CliInv, ApplyPair, Named(flags.pairs[applied + 1][1]) = {}
  PROVE  CliInv'
<1>1. /\ pc = "label" /\ pc' = "over" /\ exit' = 2 /\ applied < Len(flags.pairs)
      /\ UNCHANGED <<machine, changes, stored, export, calls, flags, report, mem, applied, captured,
                     found, before>>
  BY DEF ApplyPair, Ends
<1>2. TypeOK'
  <2>1. pc' \in PCs /\ exit' \in Exits
    BY <1>1 DEF PCs, Exits
  <2> QED BY <1>1, <2>1, Zenon DEF CliInv, TypeOK
<1>3. DistinctNames(machine)' /\ Genuine(report)' /\ (export # None => Genuine(export))'
  BY <1>1 DEF CliInv
<1>4. Underway' /\ Accepted' /\ InMemory'
  BY <1>1 DEF Underway, Accepted, InMemory
<1>5. stored' = before'
  BY <1>1 DEF CliInv, Underway
<1>6. Refused(flags.pairs)' # {}
  <2>1. Len(flags.pairs) \in Nat /\ applied \in 0 .. Len(flags.pairs)
    BY CallFields DEF CliInv, TypeOK
  <2>2. applied + 1 \in 1 .. Len(flags.pairs)
    BY <1>1, <2>1
  <2>3. applied + 1 \in Refused(flags.pairs)
    BY <2>2 DEF Refused
  <2>4. Refused(flags.pairs)' = Refused(flags.pairs)
    BY <1>1 DEF Refused, Named, Indices
  <2> QED BY <2>3, <2>4
<1>7. Compared'
  BY <1>6 DEF Compared, Acted
<1>8. LabelsAllOrNothing'
  BY <1>1, <1>5 DEF LabelsAllOrNothing
<1> QED BY <1>2, <1>3, <1>4, <1>7, <1>8, Zenon DEF CliInv

\* A pair that is taken: the same label in memory and in the report.
LEMMA TakePairKeeps ==
  ASSUME CliInv, ApplyPair, Named(flags.pairs[applied + 1][1]) # {}
  PROVE  CliInv'
<1> DEFINE pair == flags.pairs[applied + 1]
           x == First(pair[1])
<1>1. /\ pc = "label" /\ pc' = pc /\ exit' = exit /\ applied < Len(flags.pairs)
      /\ applied' = applied + 1
      /\ mem' = [mem EXCEPT ![KeyOf(report[x])] = pair[2]]
      /\ report' = [report EXCEPT ![x].label = pair[2]]
      /\ UNCHANGED <<machine, changes, stored, export, calls, flags, captured, found, before>>
  BY DEF ApplyPair, TakePair
<1>2. /\ TypeOK /\ report \in Seq(PortOf) /\ mem \in [Keys -> Labels] /\ Genuine(report)
      /\ flags \in Calls /\ applied \in 0 .. Len(flags.pairs)
  BY Zenon DEF CliInv, TypeOK
<1>3. applied + 1 \in 1 .. Len(flags.pairs) /\ applied \in Nat
  <2>1. Len(flags.pairs) \in Nat
    BY <1>2, CallFields
  <2> QED BY <1>1, <1>2, <2>1
<1>4. pair[2] \in Labels
  <2>1. flags.pairs \in Seq((Names \cup {None}) \X Labels)
    BY <1>2, CallFields
  <2>2. pair \in (Names \cup {None}) \X Labels
    BY <1>3, <2>1
  <2> QED BY <2>2
<1>5. x \in Indices(report)
  BY <1>2, NamedFirst
<1>6. KeyOf(report[x]) \in Keys
  BY <1>2, <1>5, PortFields
<1> HIDE DEF x, pair
<1>7. /\ report' \in Seq(PortOf) /\ Indices(report') = Indices(report)
      /\ \A i \in Indices(report) :
           /\ report'[i].card = report[i].card /\ report'[i].permaddr = report[i].permaddr
           /\ report'[i].mac = report[i].mac /\ report'[i].name = report[i].name
           /\ KeyOf(report'[i]) = KeyOf(report[i])
      /\ report'[x].label = pair[2]
      /\ \A i \in Indices(report) : i # x => report'[i] = report[i]
  <2>1. report' = [report EXCEPT ![x].label = pair[2]]
    BY <1>1
  <2>2. OnlyLabel(report, report', x, pair[2])
    BY <1>2, <1>4, <1>5, <2>1, Relabelled, Zenon
  <2> QED BY <2>2, Zenon DEF OnlyLabel
<1>8. mem' \in [Keys -> Labels]
  BY <1>1, <1>2, <1>4, <1>6
<1>9. TypeOK'
  <2>1. applied' \in 0 .. Len(flags'.pairs)
    BY <1>1, <1>3
  <2> QED BY <1>1, <1>2, <1>7, <1>8, <2>1, Zenon DEF TypeOK
<1>10. Genuine(report') /\ (OwnKeys(report') <=> OwnKeys(report))
  BY <1>2, <1>7, RelabelledGenuine
<1>11. DistinctNames(machine)' /\ Genuine(report)' /\ (export # None => Genuine(export))'
  BY <1>1, <1>10 DEF CliInv
<1>12. Underway'
  <2>1. applied' # 0 /\ pc' = "label"
    BY <1>1, <1>3
  <2>2. stored' = before'
    BY <1>1 DEF CliInv, Underway
  <2> QED BY <2>1, <2>2 DEF Underway
<1>13. \A name : Named(name)' = Named(name)
  BY <1>7 DEF Named
<1>14. Accepted'
  <2>1. \A k \in 1 .. applied : Named(flags.pairs[k][1]) # {}
    BY <1>1 DEF CliInv, Accepted
  <2>2. Named(flags.pairs[applied + 1][1]) # {}
    OBVIOUS
  <2>3. \A k \in 1 .. applied' : k \in 1 .. applied \/ k = applied + 1
    BY <1>1, <1>3
  <2>4. \A k \in 1 .. applied' : Named(flags.pairs[k][1]) # {}
    BY <2>1, <2>2, <2>3, Zenon
  <2>5. flags' = flags
    BY <1>1
  <2>6. (\A k \in 1 .. applied : Named(flags.pairs[k][1]) # {})'
    BY <1>13, <2>4, <2>5
  <2> QED BY <2>6 DEF Accepted
<1>15. InMemory'
  <2>1. ASSUME OwnKeys(report'), NEW i \in Indices(report')
        PROVE  report'[i].label = mem'[KeyOf(report'[i])]
    <3>1. OwnKeys(report) /\ i \in Indices(report)
      BY <1>7, <1>10, <2>1
    <3>2. report[i].label = mem[KeyOf(report[i])]
      BY <1>1, <3>1 DEF CliInv, InMemory
    <3>3. KeyOf(report[i]) \in Keys
      BY <1>2, <3>1, PortFields
    <3>4. CASE i = x
      BY <1>1, <1>2, <1>6, <1>7, <3>1, <3>4
    <3>5. CASE i # x
      <4>1. KeyOf(report[i]) # KeyOf(report[x])
        BY <1>5, <3>1, <3>5 DEF OwnKeys
      <4>2. mem'[KeyOf(report[i])] = mem[KeyOf(report[i])]
        BY <1>1, <1>2, <3>3, <4>1
      <4> QED BY <1>7, <3>1, <3>2, <3>5, <4>2
    <3> QED BY <3>4, <3>5
  <2> QED BY <2>1 DEF InMemory
<1>16. Compared' /\ LabelsAllOrNothing'
  BY <1>1 DEF Compared, Acted, LabelsAllOrNothing
<1> QED BY <1>9, <1>11, <1>12, <1>14, <1>15, <1>16, Zenon DEF CliInv

LEMMA SaveLabelsKeeps ==
  ASSUME CliInv, SaveLabels
  PROVE  CliInv'
<1>1. /\ pc = "label" /\ applied = Len(flags.pairs)
      /\ UNCHANGED <<machine, changes, export, calls, flags, report, mem, applied, captured, found,
                     before>>
      /\ \/ /\ pc' = "act" /\ exit' = exit
            /\ stored' = IF flags.pairs = << >> THEN stored ELSE mem
         \/ pc' = "raised" /\ exit' = 1 /\ stored' = stored
  BY DEF SaveLabels, Raises
<1>2. TypeOK'
  <2>1. pc' \in PCs /\ exit' \in Exits
    BY <1>1 DEF PCs, Exits, CliInv, TypeOK
  <2>2. stored' \in [Keys -> Labels]
    BY <1>1 DEF CliInv, TypeOK
  <2> QED BY <1>1, <2>1, <2>2, Zenon DEF CliInv, TypeOK
<1>3. DistinctNames(machine)' /\ Genuine(report)' /\ (export # None => Genuine(export))'
  BY <1>1 DEF CliInv
<1>4. Underway' /\ InMemory' /\ Compared'
  BY <1>1 DEF Underway, InMemory, Compared, Acted
<1>5. Accepted'
  BY <1>1 DEF CliInv, Accepted, Named, Indices
<1>6. pc' = "act" => stored' = mem
  <2>1. flags.pairs = << >> => applied = 0
    BY <1>1
  <2>2. applied = 0 => mem = stored
    BY <1>1 DEF CliInv, Underway
  <2> QED BY <1>1, <2>1, <2>2
<1>7. LabelsAllOrNothing'
  <2>1. OwnKeys(report) => \A i \in Indices(report) : report[i].label = mem[KeyOf(report[i])]
    BY <1>1 DEF CliInv, InMemory
  <2>2. report' = report /\ pc' # "over"
    BY <1>1
  <2> QED BY <1>6, <2>1, <2>2 DEF LabelsAllOrNothing
<1> QED BY <1>2, <1>3, <1>4, <1>5, <1>7, Zenon DEF CliInv

\* Once the call acts, none of its pairs was refused.
LEMMA NoneRefused ==
  ASSUME CliInv, pc = "act"
  PROVE  Refused(flags.pairs) = {}
BY DEF CliInv, Underway, Accepted, Refused

LEMMA RunDiffKeeps ==
  ASSUME CliInv, RunDiff
  PROVE  CliInv'
<1>1. /\ pc = "act" /\ pc' = "over" /\ exit' \in {0, 1, 2}
      /\ UNCHANGED <<machine, changes, stored, export, calls, flags, report, mem, applied, captured,
                     before>>
  BY DEF RunDiff, Ends
<1>2. /\ export = None => found' = found
      /\ export # None => found' = Compare(export, report) /\ (exit' = 0 <=> NoChange(found'))
  BY DEF RunDiff, Ends
<1>3. TypeOK'
  <2>1. pc' \in PCs /\ exit' \in Exits
    BY <1>1 DEF PCs, Exits
  <2>2. /\ found'.added \subseteq Keys /\ found'.removed \subseteq Keys
        /\ found'.changed \subseteq Keys \X Watched
    <3>1. /\ export # None => export \in Seq(PortOf)
          /\ report \in Seq(PortOf)
          /\ found.added \subseteq Keys /\ found.removed \subseteq Keys
          /\ found.changed \subseteq Keys \X Watched
      BY Zenon DEF CliInv, TypeOK
    <3>2. CASE export = None
      BY <1>2, <3>1, <3>2
    <3>3. CASE export # None
      <4>1. /\ Compare(export, report).added \subseteq Keys
            /\ Compare(export, report).removed \subseteq Keys
            /\ Compare(export, report).changed \subseteq Keys \X Watched
        BY <3>1, <3>3, CompareType, Zenon
      <4> QED BY <1>2, <3>3, <4>1, Zenon
    <3> QED BY <3>2, <3>3
  <2> QED BY <1>1, <2>1, <2>2, Zenon DEF CliInv, TypeOK
<1>4. DistinctNames(machine)' /\ Genuine(report)' /\ (export # None => Genuine(export))'
  BY <1>1 DEF CliInv
<1>5. Underway' /\ Accepted' /\ InMemory'
  BY <1>1 DEF Underway, Accepted, InMemory
<1>6. Compared'
  BY <1>1, <1>2 DEF Compared
<1>7. LabelsAllOrNothing'
  <2>1. Refused(flags.pairs)' = Refused(flags.pairs)
    BY <1>1 DEF Refused, Named, Indices
  <2>2. Refused(flags.pairs)' = {} /\ pc' # "act"
    BY <1>1, <2>1, NoneRefused
  <2> QED BY <2>2 DEF LabelsAllOrNothing
<1> QED BY <1>3, <1>4, <1>5, <1>6, <1>7, Zenon DEF CliInv

LEMMA RunCheckKeeps ==
  ASSUME CliInv, RunCheck
  PROVE  CliInv'
<1>1. /\ pc = "act" /\ pc' = "over" /\ exit' \in {0, 1} /\ ~flags.diff
      /\ UNCHANGED <<machine, changes, stored, export, calls, flags, report, mem, applied, captured,
                     found, before>>
  BY DEF RunCheck, Ends, CheckExit
<1>2. TypeOK'
  <2>1. pc' \in PCs /\ exit' \in Exits
    BY <1>1 DEF PCs, Exits
  <2> QED BY <1>1, <2>1, Zenon DEF CliInv, TypeOK
<1>3. DistinctNames(machine)' /\ Genuine(report)' /\ (export # None => Genuine(export))'
  BY <1>1 DEF CliInv
<1>4. Underway' /\ Accepted' /\ InMemory' /\ Compared'
  BY <1>1 DEF Underway, Accepted, InMemory, Compared
<1>5. LabelsAllOrNothing'
  BY <1>1 DEF LabelsAllOrNothing
<1> QED BY <1>2, <1>3, <1>4, <1>5, Zenon DEF CliInv

LEMMA WriteKeeps ==
  ASSUME CliInv, Write
  PROVE  CliInv'
<1>1. /\ pc = "act" /\ pc' = "over" /\ exit' \in {0, 2} /\ ~flags.diff
      /\ export' \in {export, report, None}
      /\ UNCHANGED <<machine, changes, stored, calls, flags, report, mem, applied, captured, found,
                     before>>
  BY DEF Write, Ends
<1>2. TypeOK'
  <2>1. pc' \in PCs /\ exit' \in Exits
    BY <1>1 DEF PCs, Exits
  <2>2. export' \in Seq(PortOf) \cup {None}
    <3>1. export \in Seq(PortOf) \cup {None} /\ report \in Seq(PortOf)
      BY Zenon DEF CliInv, TypeOK
    <3> QED BY <1>1, <3>1
  <2> QED BY <1>1, <2>1, <2>2, Zenon DEF CliInv, TypeOK
<1>3. DistinctNames(machine)' /\ Genuine(report)' /\ (export # None => Genuine(export))'
  BY <1>1 DEF CliInv
<1>4. Underway' /\ Accepted' /\ InMemory' /\ Compared'
  BY <1>1 DEF Underway, Accepted, InMemory, Compared
<1>5. LabelsAllOrNothing'
  <2>1. Refused(flags.pairs)' = Refused(flags.pairs)
    BY <1>1 DEF Refused, Named, Indices
  <2>2. Refused(flags.pairs)' = {} /\ pc' # "act"
    BY <1>1, <2>1, NoneRefused
  <2> QED BY <2>2 DEF LabelsAllOrNothing
<1> QED BY <1>2, <1>3, <1>4, <1>5, Zenon DEF CliInv

\* Between two calls the machine becomes another one, and nothing else happens.
LEMMA ChangeKeeps ==
  ASSUME CliInv, Rename \/ Degrade \/ Replug \/ Hide
  PROVE  CliInv'
<1>1. machine \in [Cards -> States] /\ changes \in 0 .. MaxChanges
  BY Zenon DEF CliInv, TypeOK
<1>2. /\ changes < MaxChanges /\ changes' = changes + 1 /\ DistinctNames(machine') /\ pc' = "shell"
      /\ UNCHANGED <<stored, export, calls, callVars>>
  BY DEF Rename, Degrade, Replug, Hide, Change
<1>3. machine' \in [Cards -> States]
  <2>1. CASE Rename
    BY <1>1, <2>1 DEF Rename, Change, States
  <2>2. CASE Degrade
    <3>1. PICK c \in Cards, r \in Verdicts :
            machine' = [machine EXCEPT ![c].setting = "new", ![c].result = r]
      BY <2>2 DEF Degrade, Change
    <3>2. [machine[c] EXCEPT !.setting = "new", !.result = r] \in States
      BY <1>1 DEF States
    <3>3. machine' = [machine EXCEPT ![c] = [machine[c] EXCEPT !.setting = "new", !.result = r]]
      BY <1>1, <3>1
    <3> QED BY <1>1, <3>2, <3>3
  <2>3. CASE Replug
    <3>1. PICK c \in Cards : machine' = [machine EXCEPT ![c].plugged = ~@]
      BY <2>3 DEF Replug, Change
    <3>2. [machine[c] EXCEPT !.plugged = ~@] \in States
      BY <1>1 DEF States
    <3>3. machine' = [machine EXCEPT ![c] = [machine[c] EXCEPT !.plugged = ~@]]
      BY <1>1, <3>1
    <3> QED BY <1>1, <3>2, <3>3
  <2>4. CASE Hide
    <3>1. PICK c \in Cards, p \in {"nothing", "text"}, a \in Cards \cup {None} :
            machine' = [machine EXCEPT ![c].perm = p, ![c].mac = a]
      <4> DEFINE next == {[machine EXCEPT ![c].perm = p, ![c].mac = a] :
                            c \in Cards, p \in {"nothing", "text"}, a \in Cards \cup {None}}
      <4>1. Change(next)
        BY <2>4 DEF Hide
      <4>2. machine' \in next
        <5> HIDE DEF next
        <5> QED BY <4>1 DEF Change
      <4> QED BY <4>2
    <3>2. [machine[c] EXCEPT !.perm = p, !.mac = a] \in States
      BY <1>1 DEF States
    <3>3. machine' = [machine EXCEPT ![c] = [machine[c] EXCEPT !.perm = p, !.mac = a]]
      BY <1>1, <3>1
    <3> QED BY <1>1, <3>2, <3>3
  <2> QED BY <2>1, <2>2, <2>3, <2>4
<1>4. changes' \in 0 .. MaxChanges
  BY <1>1, <1>2, CliAssumption
<1>5. TypeOK'
  <2>1. pc' \in PCs
    BY <1>2 DEF PCs
  <2> QED BY <1>2, <1>3, <1>4, <2>1, Zenon DEF CliInv, TypeOK, callVars
<1>6. DistinctNames(machine)' /\ Genuine(report)' /\ (export # None => Genuine(export))'
  BY <1>2 DEF CliInv, callVars
<1>7. Underway' /\ Accepted' /\ InMemory' /\ Compared' /\ LabelsAllOrNothing'
  BY <1>2 DEF Underway, Accepted, InMemory, Compared, Acted, LabelsAllOrNothing
<1> QED BY <1>5, <1>6, <1>7, Zenon DEF CliInv

LEMMA CliStutters ==
  ASSUME CliInv, UNCHANGED vars
  PROVE  CliInv'
BY DEF CliInv, vars, callVars, TypeOK, DistinctNames, Genuine, Underway, Accepted, InMemory, Compared,
       Acted, LabelsAllOrNothing, Refused, Named, Indices, OwnKeys

LEMMA CliStep == CliInv /\ [Next]_vars => CliInv'
<1> SUFFICES ASSUME CliInv, [Next]_vars PROVE CliInv'
  OBVIOUS
<1>1. CASE Start
  BY <1>1, StartKeeps
<1>2. CASE Terminal
  BY <1>2, TerminalKeeps
<1>3. CASE Collect
  BY <1>3, CollectKeeps
<1>4. CASE SaveCapture
  BY <1>4, SaveCaptureKeeps
<1>5. CASE ApplyPair
  BY <1>5, RefusePairKeeps, TakePairKeeps
<1>6. CASE SaveLabels
  BY <1>6, SaveLabelsKeeps
<1>7. CASE RunDiff
  BY <1>7, RunDiffKeeps
<1>8. CASE RunCheck
  BY <1>8, RunCheckKeeps
<1>9. CASE Write
  BY <1>9, WriteKeeps
<1>10. CASE Rename \/ Degrade \/ Replug \/ Hide
  BY <1>10, ChangeKeeps
<1>11. CASE UNCHANGED vars
  BY <1>11, CliStutters
<1> QED BY <1>1, <1>2, <1>3, <1>4, <1>5, <1>6, <1>7, <1>8, <1>9, <1>10, <1>11 DEF Next

LEMMA CliInvHolds == Spec => []CliInv
<1>1. Init => CliInv
  BY CliInit
<1>2. CliInv /\ [Next]_vars => CliInv'
  BY CliStep
<1> QED BY <1>1, <1>2, PTL DEF Spec

-----------------------------------------------------------------------------
(* The theorems                                                            *)

\* Every variable of a call, of the files and of the machine keeps its type.
THEOREM CliTypeCorrect == Spec => []TypeOK
<1>1. CliInv => TypeOK
  BY DEF CliInv
<1> QED BY <1>1, CliInvHolds, PTL

\* diff.py:8-10: where every permanent address was read, --diff ends with 0 exactly
\* when the machine shows what the export showed, and it never calls a card gone or
\* new whose permanent address was read both times.
THEOREM DiffHonestHolds == Spec => []DiffHonest
<1>1. ASSUME CliInv PROVE DiffHonest
  <2>1. SUFFICES ASSUME Acted, flags.diff, export # None
        PROVE  /\ Permanent(export) /\ Permanent(report) =>
                    (exit = 0 <=> Watch(export) = Watch(report))
               /\ \A i \in Indices(export), j \in Indices(report) :
                    export[i].permaddr = report[j].permaddr /\ report[j].permaddr \in Cards =>
                      report[j].card \notin found.added \cup found.removed
    BY DEF DiffHonest
  <2>2. found = Compare(export, report) /\ (exit = 0 <=> NoChange(Compare(export, report)))
    BY <1>1, <2>1, Zenon DEF CliInv, Compared
  <2>3. /\ export \in Seq(PortOf) /\ report \in Seq(PortOf)
        /\ Genuine(export) /\ Genuine(report)
    BY <1>1, <2>1, Zenon DEF CliInv, TypeOK
  <2>4. /\ Permanent(export) /\ Permanent(report) =>
             (NoChange(Compare(export, report)) <=> Watch(export) = Watch(report))
        /\ \A i \in Indices(export), j \in Indices(report) :
             export[i].permaddr = report[j].permaddr /\ report[j].permaddr \in Cards =>
               report[j].card
                 \notin Compare(export, report).added \cup Compare(export, report).removed
    BY <2>3, ComparisonHonest
  <2> QED BY <2>2, <2>4
<1> QED BY <1>1, CliInvHolds, PTL

\* diff.py:122-129: where an address could not be read, --diff is quiet about two
\* collections of the same machine, and, as long as no two ports of a report share
\* a key, about nothing else than two that show the same under every key.
THEOREM DiffOfUnknownHolds == Spec => []DiffOfUnknown
<1>1. ASSUME CliInv PROVE DiffOfUnknown
  <2>1. SUFFICES ASSUME Acted, flags.diff, export # None
        PROVE  /\ Watch(export) = Watch(report) /\ Keyed(export) = Keyed(report) => exit = 0
               /\ exit = 0 /\ OwnKeys(export) /\ OwnKeys(report) => Keyed(export) = Keyed(report)
    BY DEF DiffOfUnknown
  <2>2. exit = 0 <=> NoChange(Compare(export, report))
    BY <1>1, <2>1, Zenon DEF CliInv, Compared
  <2>3. /\ export \in Seq(PortOf) /\ report \in Seq(PortOf)
        /\ Genuine(export) /\ Genuine(report)
    BY <1>1, <2>1, Zenon DEF CliInv, TypeOK
  <2>4. Watch(export) = Watch(report) /\ Keyed(export) = Keyed(report) =>
          NoChange(Compare(export, report))
    BY <2>3, SameMeansQuiet
  <2>5. NoChange(Compare(export, report)) /\ OwnKeys(export) /\ OwnKeys(report) =>
          Keyed(export) = Keyed(report)
    BY <2>3, QuietMeansKeyed
  <2> QED BY <2>2, <2>4, <2>5
<1> QED BY <1>1, CliInvHolds, PTL

\* cli.py:292-306: a call refused for a --label pair leaves the label file as it was,
\* and one that goes on shows the labels that the file holds.
THEOREM LabelsAllOrNothingHolds == Spec => []LabelsAllOrNothing
<1>1. CliInv => LabelsAllOrNothing
  BY DEF CliInv
<1> QED BY <1>1, CliInvHolds, PTL

\* cli.py:51, 155-162: with --record, and no terminal wanted, a call that comes to its
\* labels or its end has written the recording, and one that could not write it has
\* not touched the label file.
THEOREM RecordWrittenHolds == Spec => []RecordWritten
<1>1. Init => RecordWritten
  BY DEF Init, RecordWritten
<1>2. CliInv /\ RecordWritten /\ [Next]_vars => RecordWritten'
  <2> SUFFICES ASSUME CliInv, RecordWritten, [Next]_vars PROVE RecordWritten'
    OBVIOUS
  <2>1. CASE Start
    BY <2>1 DEF Start, Ends, RecordWritten
  <2>2. CASE Terminal
    <3>1. WantsTerminal(flags)
      BY <2>2 DEF Terminal, CliInv, Underway
    <3>2. flags' = flags
      BY <2>2 DEF Terminal
    <3> QED BY <3>1, <3>2 DEF RecordWritten
  <2>3. CASE Collect
    BY <2>3 DEF Collect, RecordWritten
  <2>4. CASE SaveCapture
    <3>1. stored = before /\ stored' = stored /\ before' = before /\ flags' = flags
      BY <2>4 DEF SaveCapture, CliInv, Underway
    <3>2. /\ pc' = "label" => captured' = flags.record
          /\ pc' \in {"label", "raised"}
      BY <2>4 DEF SaveCapture, Raises
    <3> QED BY <3>1, <3>2 DEF RecordWritten
  <2>5. CASE ApplyPair
    BY <2>5 DEF ApplyPair, TakePair, Ends, RecordWritten
  <2>6. CASE SaveLabels
    BY <2>6 DEF SaveLabels, Raises, RecordWritten
  <2>7. CASE RunDiff
    BY <2>7 DEF RunDiff, Ends, RecordWritten
  <2>8. CASE RunCheck
    BY <2>8 DEF RunCheck, Ends, RecordWritten
  <2>9. CASE Write
    BY <2>9 DEF Write, Ends, RecordWritten
  <2>10. CASE Rename \/ Degrade \/ Replug \/ Hide
    BY <2>10 DEF Rename, Degrade, Replug, Hide, Change, callVars, RecordWritten
  <2>11. CASE UNCHANGED vars
    BY <2>11 DEF vars, callVars, RecordWritten, WantsTerminal
  <2> QED BY <2>1, <2>2, <2>3, <2>4, <2>5, <2>6, <2>7, <2>8, <2>9, <2>10, <2>11 DEF Next
<1> QED BY <1>1, <1>2, CliInvHolds, PTL DEF Spec
=============================================================================
