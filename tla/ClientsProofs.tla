----------------------------- MODULE ClientsProofs -----------------------------
(***************************************************************************)
(* Proofs about Clients, for enumerations of any length: handles are       *)
(* released, the settings reported, the device that is used is the first   *)
(* that may be, and ReadDeviceInfo implements Observations.                *)
(***************************************************************************)
EXTENDS Clients, BasicFacts, TLAPS

-----------------------------------------------------------------------------
\* chooseReader.

\* First is the least number of a set.
LEMMA FirstIs ==
    ASSUME NEW set \in SUBSET Nat, set # {}
    PROVE  /\ First(set) \in set
           /\ \A j \in set : First(set) <= j
<1>1. PICK x \in set : \A y \in set : <<y, x>> \notin OpToRel(<, Nat)
  BY NatLessThanWellFounded, WFMin
<1>2. ASSUME NEW y \in set PROVE x <= y
  <2>1. x \in Nat /\ y \in Nat
    OBVIOUS
  <2>2. y < x => <<y, x>> \in OpToRel(<, Nat)
    BY <2>1 DEF OpToRel
  <2>3. ~(y < x)
    BY <1>1, <2>2
  <2> QED BY <2>1, <2>3
<1> QED BY <1>2 DEF First

LEMMA FirstUnique ==
    ASSUME NEW set \in SUBSET Nat, NEW x \in set, \A j \in set : x <= j
    PROVE  First(set) = x
<1>1. First(set) \in set /\ \A j \in set : First(set) <= j
  BY FirstIs
<1>2. First(set) \in Nat /\ x \in Nat /\ First(set) <= x /\ x <= First(set)
  BY <1>1
<1> QED BY <1>2

\* What may be chosen among the first i readers, and the choice by its meaning.
NamedUpTo(readers, i)   == {j \in 1..i : readers[j].present /\ readers[j].matches}
PresentUpTo(readers, i) == {j \in 1..i : readers[j].present}

Choice(readers, fallback, i) ==
    IF NamedUpTo(readers, i) # {} THEN First(NamedUpTo(readers, i))
    ELSE IF fallback /\ PresentUpTo(readers, i) # {} THEN First(PresentUpTo(readers, i))
    ELSE 0

\* One round of the loop, with the choice before it.
Round(readers, fallback, choice, i) ==
    IF (choice # 0 /\ readers[choice].matches) \/ ~readers[i].present THEN choice
    ELSE IF readers[i].matches \/ (fallback /\ choice = 0) THEN i
    ELSE choice

\* The loop keeps the choice among the readers it has seen.
LEMMA ChoiceStep ==
    ASSUME NEW n \in Nat, NEW readers \in [1..n -> ReaderInfo], NEW fallback \in BOOLEAN,
           NEW i \in 1..n
    PROVE  Choice(readers, fallback, i) =
               Round(readers, fallback, Choice(readers, fallback, i - 1), i)
<1> DEFINE named   == NamedUpTo(readers, i - 1)
           present == PresentUpTo(readers, i - 1)
           before  == Choice(readers, fallback, i - 1)
<1>1. /\ readers[i].present \in BOOLEAN /\ readers[i].matches \in BOOLEAN
      /\ 1..i = (1..(i - 1)) \cup {i} /\ i \notin 1..(i - 1)
      /\ named \in SUBSET (1..(i - 1)) /\ present \in SUBSET (1..(i - 1))
      /\ named \in SUBSET Nat /\ present \in SUBSET Nat
  BY DEF ReaderInfo, NamedUpTo, PresentUpTo
<1>2. /\ NamedUpTo(readers, i) =
            IF readers[i].present /\ readers[i].matches THEN named \cup {i} ELSE named
      /\ PresentUpTo(readers, i) = IF readers[i].present THEN present \cup {i} ELSE present
  BY <1>1 DEF NamedUpTo, PresentUpTo
<1>3. /\ \A j \in named : readers[j].matches
      /\ \A j \in present : j \notin named => ~readers[j].matches
      /\ i \in Nat /\ \A j \in named \cup present : j \in Nat /\ j # 0 /\ j <= i
  BY <1>1 DEF NamedUpTo, PresentUpTo
<1>4. before = IF named # {} THEN First(named)
               ELSE IF fallback /\ present # {} THEN First(present) ELSE 0
  BY DEF Choice
<1> HIDE DEF named, present, before
<1>5. CASE ~readers[i].present
  <2>1. Choice(readers, fallback, i) = before
    BY <1>2, <1>4, <1>5 DEF Choice
  <2> QED BY <1>5, <2>1 DEF Round, before
<1>6. CASE readers[i].present /\ named # {}
  <2>1. /\ First(named) \in named /\ \A j \in named : First(named) <= j
        /\ before = First(named)
    BY <1>1, <1>4, <1>6, FirstIs
  <2>2. before # 0 /\ readers[before].matches
    BY <1>3, <2>1
  <2>3. Round(readers, fallback, before, i) = before
    BY <2>2 DEF Round
  <2> DEFINE all == NamedUpTo(readers, i)
  <2>4. /\ all \in SUBSET Nat /\ before \in all /\ \A j \in all : before <= j
    BY <1>1, <1>2, <1>3, <2>1
  <2> HIDE DEF all
  <2>5. First(all) = before /\ all # {}
    BY <2>4, FirstUnique
  <2> QED BY <2>3, <2>5 DEF Choice, all, before
<1>7. CASE readers[i].present /\ named = {} /\ readers[i].matches
  <2>1. before = 0 \/ ~readers[before].matches
    BY <1>1, <1>3, <1>4, <1>7, FirstIs
  <2>2. Round(readers, fallback, before, i) = i
    BY <1>7, <2>1 DEF Round
  <2>3. NamedUpTo(readers, i) = {i} /\ First({i}) = i
    BY <1>2, <1>7, FirstUnique
  <2> QED BY <2>2, <2>3 DEF Choice, before
<1>8. CASE readers[i].present /\ named = {} /\ ~readers[i].matches
  <2>1. NamedUpTo(readers, i) = {} /\ PresentUpTo(readers, i) = present \cup {i}
    BY <1>2, <1>8
  <2>2. CASE ~fallback
    <3>1. before = 0 /\ Choice(readers, fallback, i) = 0
      BY <1>4, <1>8, <2>1, <2>2 DEF Choice
    <3> QED BY <1>8, <2>2, <3>1 DEF Round, before
  <2>3. CASE fallback /\ present = {}
    <3>1. before = 0 /\ First({i}) = i
      BY <1>4, <1>8, <2>3, FirstUnique
    <3>2. Choice(readers, fallback, i) = i
      BY <2>1, <2>3, <3>1 DEF Choice
    <3> QED BY <1>8, <2>3, <3>1, <3>2 DEF Round, before
  <2>4. CASE fallback /\ present # {}
    <3>1. /\ First(present) \in present /\ \A j \in present : First(present) <= j
          /\ before = First(present)
      BY <1>1, <1>4, <1>8, <2>4, FirstIs
    <3>2. Round(readers, fallback, before, i) = before
      BY <1>1, <1>3, <1>8, <3>1 DEF Round
    <3> DEFINE all == PresentUpTo(readers, i)
    <3>3. all \in SUBSET Nat /\ before \in all /\ \A j \in all : before <= j
      BY <1>1, <1>3, <2>1, <3>1
    <3> HIDE DEF all
    <3>4. First(all) = before /\ all # {}
      BY <3>3, FirstUnique
    <3> QED BY <2>1, <2>4, <3>2, <3>4 DEF Choice, all, before
  <2> QED BY <2>2, <2>3, <2>4
<1> QED BY <1>1, <1>5, <1>6, <1>7, <1>8

\* chooseReader returns the first reader with a card that matches, and only with
\* fallback, when none does, the first with a card.
LEMMA ChooseReaderIs ==
    ASSUME NEW readers \in Seq(ReaderInfo), NEW fallback \in BOOLEAN
    PROVE  ChooseReader(readers, fallback) = Choice(readers, fallback, Len(readers))
<1> DEFINE n == Len(readers)
           loop(f) == [i \in 0..n |-> IF i = 0 THEN 0
                                      ELSE Round(readers, fallback, f[i - 1], i)]
           choice == [i \in 0..n |-> Choice(readers, fallback, i)]
           chosen == CHOOSE f : f = loop(f)
<1>1. n \in Nat /\ readers \in [1..n -> ReaderInfo]
  BY LenProperties
<1>2. ChooseReader(readers, fallback) = chosen[n]
  BY DEF ChooseReader, Round
<1> HIDE DEF n
<1>3. Choice(readers, fallback, 0) = 0
  BY DEF Choice, NamedUpTo, PresentUpTo
<1>4. \A i \in 1..n : Choice(readers, fallback, i) =
                          Round(readers, fallback, Choice(readers, fallback, i - 1), i)
  BY <1>1, ChoiceStep
<1>5. choice = loop(choice)
  <2>1. \A i \in 1..n : i - 1 \in 0..n
    BY <1>1
  <2> QED BY <1>1, <1>3, <1>4, <2>1
<1>6. chosen = loop(chosen)
  <2> HIDE DEF loop, choice
  <2> QED BY <1>5
<1>7. /\ chosen[0] = 0
      /\ \A i \in 1..n : chosen[i] = Round(readers, fallback, chosen[i - 1], i)
  <2> HIDE DEF chosen
  <2> QED BY <1>1, <1>6
<1> HIDE DEF chosen, loop, choice
<1> DEFINE S == {k \in 1..(n + 1) : chosen[k - 1] = Choice(readers, fallback, k - 1)}
<1>8. 1 \in S
  BY <1>1, <1>3, <1>7
<1>9. ASSUME NEW k \in 1..n, k \in S PROVE k + 1 \in S
  <2>1. (k + 1) - 1 = k /\ k + 1 \in 1..(n + 1)
    BY <1>1
  <2>2. chosen[k] = Choice(readers, fallback, k)
    BY <1>4, <1>7, <1>9
  <2> QED BY <2>1, <2>2
<1> HIDE DEF S
<1>10. 1..(n + 1) \subseteq S
  <2>1. n + 1 \in Nat /\ (n + 1) - 1 = n
    BY <1>1
  <2> QED BY <1>8, <1>9, <2>1, IntervalInduction
<1>11. n + 1 \in S /\ (n + 1) - 1 = n
  BY <1>1, <1>10
<1> QED BY <1>2, <1>11 DEF S, n

-----------------------------------------------------------------------------
\* The programs.

Places == {Program[program][i] : i \in DOMAIN Program[program]}

\* The step after another, each of which has one place.
LEMMA SuccessorIs ==
    ASSUME NEW steps, Program[program] = steps, NEW n \in Nat, Len(steps) = n,
           \A i, j \in 1..n : steps[i] = steps[j] => i = j
    PROVE  \A k \in 1..(n - 1) : Successor(steps[k]) = steps[1 + k]
<1> SUFFICES ASSUME NEW k \in 1..(n - 1) PROVE Successor(steps[k]) = steps[1 + k]
  OBVIOUS
<1>1. \A i \in 1..(Len(Program[program]) - 1) : Program[program][i] = steps[k] <=> i = k
  OBVIOUS
<1>2. (CHOOSE i \in 1..(Len(Program[program]) - 1) : Program[program][i] = steps[k]) = k
  BY <1>1
<1> QED BY <1>2 DEF Successor

LEMMA InfoProgram ==
    ASSUME program = "info"
    PROVE  /\ Places = {"open", "serial", "close", "vendor", "atr", "join", "return", "returned"}
           /\ Successor("open") = "serial"
           /\ Successor("serial") = "close"
           /\ Successor("close") = "vendor"
           /\ Successor("vendor") = "atr"
           /\ Successor("atr") = "join"
           /\ Successor("join") = "return"
           /\ Successor("return") = "returned"
<1> DEFINE steps == <<"open", "serial", "close", "vendor", "atr", "join", "return", "returned">>
<1>1. /\ Program[program] = steps /\ Len(steps) = 8 /\ DOMAIN steps = 1..8
      /\ \A i, j \in 1..8 : steps[i] = steps[j] => i = j
  BY DEF Program
<1>2. /\ steps[1] = "open" /\ steps[2] = "serial" /\ steps[3] = "close" /\ steps[4] = "vendor"
      /\ steps[5] = "atr" /\ steps[6] = "join" /\ steps[7] = "return" /\ steps[8] = "returned"
  OBVIOUS
<1> HIDE DEF steps
<1>3. Places = {steps[i] : i \in 1..8}
  BY <1>1 DEF Places
<1>4. \A k \in 1..(8 - 1) : Successor(steps[k]) = steps[1 + k]
  <2>1. 8 \in Nat
    OBVIOUS
  <2> QED BY <1>1, <2>1, SuccessorIs
<1>5. /\ Successor(steps[1]) = steps[1 + 1]
      /\ Successor(steps[2]) = steps[1 + 2]
      /\ Successor(steps[3]) = steps[1 + 3]
      /\ Successor(steps[4]) = steps[1 + 4]
      /\ Successor(steps[5]) = steps[1 + 5]
      /\ Successor(steps[6]) = steps[1 + 6]
      /\ Successor(steps[7]) = steps[1 + 7]
  BY <1>4
<1>6. 1..8 = {1, 2, 3, 4, 5, 6, 7, 8}
  OBVIOUS
<1> QED BY <1>2, <1>3, <1>5, <1>6

LEMMA HidProgram ==
    ASSUME program = "hid"
    PROVE  /\ Places = {"next", "open", "serial", "close", "returned"}
           /\ Successor("next") = "open"
           /\ Successor("open") = "serial"
           /\ Successor("serial") = "close"
           /\ Successor("close") = "returned"
<1> DEFINE steps == <<"next", "open", "serial", "close", "returned">>
<1>1. /\ Program[program] = steps /\ Len(steps) = 5 /\ DOMAIN steps = 1..5
      /\ \A i, j \in 1..5 : steps[i] = steps[j] => i = j
  BY DEF Program
<1>2. /\ steps[1] = "next" /\ steps[2] = "open" /\ steps[3] = "serial" /\ steps[4] = "close"
      /\ steps[5] = "returned"
  OBVIOUS
<1> HIDE DEF steps
<1>3. Places = {steps[i] : i \in 1..5}
  BY <1>1 DEF Places
<1>4. \A k \in 1..(5 - 1) : Successor(steps[k]) = steps[1 + k]
  <2>1. 5 \in Nat
    OBVIOUS
  <2> QED BY <1>1, <2>1, SuccessorIs
<1>5. /\ Successor(steps[1]) = steps[1 + 1]
      /\ Successor(steps[2]) = steps[1 + 2]
      /\ Successor(steps[3]) = steps[1 + 3]
      /\ Successor(steps[4]) = steps[1 + 4]
  BY <1>4
<1>6. 1..5 = {1, 2, 3, 4, 5}
  OBVIOUS
<1> QED BY <1>2, <1>3, <1>5, <1>6

LEMMA CtaphidProgram ==
    ASSUME program = "ctaphid"
    PROVE  /\ Places = {"next", "open", "channel", "atr", "close", "returned"}
           /\ Successor("next") = "open"
           /\ Successor("open") = "channel"
           /\ Successor("channel") = "atr"
           /\ Successor("atr") = "close"
           /\ Successor("close") = "returned"
<1> DEFINE steps == <<"next", "open", "channel", "atr", "close", "returned">>
<1>1. /\ Program[program] = steps /\ Len(steps) = 6 /\ DOMAIN steps = 1..6
      /\ \A i, j \in 1..6 : steps[i] = steps[j] => i = j
  BY DEF Program
<1>2. /\ steps[1] = "next" /\ steps[2] = "open" /\ steps[3] = "channel" /\ steps[4] = "atr"
      /\ steps[5] = "close" /\ steps[6] = "returned"
  OBVIOUS
<1> HIDE DEF steps
<1>3. Places = {steps[i] : i \in 1..6}
  BY <1>1 DEF Places
<1>4. \A k \in 1..(6 - 1) : Successor(steps[k]) = steps[1 + k]
  <2>1. 6 \in Nat
    OBVIOUS
  <2> QED BY <1>1, <2>1, SuccessorIs
<1>5. /\ Successor(steps[1]) = steps[1 + 1]
      /\ Successor(steps[2]) = steps[1 + 2]
      /\ Successor(steps[3]) = steps[1 + 3]
      /\ Successor(steps[4]) = steps[1 + 4]
      /\ Successor(steps[5]) = steps[1 + 5]
  BY <1>4
<1>6. 1..6 = {1, 2, 3, 4, 5, 6}
  OBVIOUS
<1> QED BY <1>2, <1>3, <1>5, <1>6

LEMMA PcscProgram ==
    ASSUME program = "pcsc"
    PROVE  /\ Places = {"next", "open", "serial", "atr", "config", "close", "returned"}
           /\ Successor("next") = "open"
           /\ Successor("open") = "serial"
           /\ Successor("serial") = "atr"
           /\ Successor("atr") = "config"
           /\ Successor("config") = "close"
           /\ Successor("close") = "returned"
<1> DEFINE steps == <<"next", "open", "serial", "atr", "config", "close", "returned">>
<1>1. /\ Program[program] = steps /\ Len(steps) = 7 /\ DOMAIN steps = 1..7
      /\ \A i, j \in 1..7 : steps[i] = steps[j] => i = j
  BY DEF Program
<1>2. /\ steps[1] = "next" /\ steps[2] = "open" /\ steps[3] = "serial" /\ steps[4] = "atr"
      /\ steps[5] = "config" /\ steps[6] = "close" /\ steps[7] = "returned"
  OBVIOUS
<1> HIDE DEF steps
<1>3. Places = {steps[i] : i \in 1..7}
  BY <1>1 DEF Places
<1>4. \A k \in 1..(7 - 1) : Successor(steps[k]) = steps[1 + k]
  <2>1. 7 \in Nat
    OBVIOUS
  <2> QED BY <1>1, <2>1, SuccessorIs
<1>5. /\ Successor(steps[1]) = steps[1 + 1]
      /\ Successor(steps[2]) = steps[1 + 2]
      /\ Successor(steps[3]) = steps[1 + 3]
      /\ Successor(steps[4]) = steps[1 + 4]
      /\ Successor(steps[5]) = steps[1 + 5]
      /\ Successor(steps[6]) = steps[1 + 6]
  BY <1>4
<1>6. 1..7 = {1, 2, 3, 4, 5, 6, 7}
  OBVIOUS
<1> QED BY <1>2, <1>3, <1>5, <1>6

LEMMA SettingsProgram ==
    ASSUME program = "settings"
    PROVE  /\ Places = {"parse", "find", "open", "sound", "nfc", "notice", "close", "returned"}
           /\ Successor("parse") = "find"
           /\ Successor("find") = "open"
           /\ Successor("open") = "sound"
           /\ Successor("sound") = "nfc"
           /\ Successor("nfc") = "notice"
           /\ Successor("notice") = "close"
           /\ Successor("close") = "returned"
<1> DEFINE steps == <<"parse", "find", "open", "sound", "nfc", "notice", "close", "returned">>
<1>1. /\ Program[program] = steps /\ Len(steps) = 8 /\ DOMAIN steps = 1..8
      /\ \A i, j \in 1..8 : steps[i] = steps[j] => i = j
  BY DEF Program
<1>2. /\ steps[1] = "parse" /\ steps[2] = "find" /\ steps[3] = "open" /\ steps[4] = "sound"
      /\ steps[5] = "nfc" /\ steps[6] = "notice" /\ steps[7] = "close" /\ steps[8] = "returned"
  OBVIOUS
<1> HIDE DEF steps
<1>3. Places = {steps[i] : i \in 1..8}
  BY <1>1 DEF Places
<1>4. \A k \in 1..(8 - 1) : Successor(steps[k]) = steps[1 + k]
  <2>1. 8 \in Nat
    OBVIOUS
  <2> QED BY <1>1, <2>1, SuccessorIs
<1>5. /\ Successor(steps[1]) = steps[1 + 1]
      /\ Successor(steps[2]) = steps[1 + 2]
      /\ Successor(steps[3]) = steps[1 + 3]
      /\ Successor(steps[4]) = steps[1 + 4]
      /\ Successor(steps[5]) = steps[1 + 5]
      /\ Successor(steps[6]) = steps[1 + 6]
      /\ Successor(steps[7]) = steps[1 + 7]
  BY <1>4
<1>6. 1..8 = {1, 2, 3, 4, 5, 6, 7, 8}
  OBVIOUS
<1> QED BY <1>2, <1>3, <1>5, <1>6

\* Where a program may be.
LEMMA PlaceOf ==
    ASSUME TypeOK
    PROVE  /\ program \in {"info", "hid", "ctaphid", "pcsc", "settings"}
           /\ step \in Places \cup {"drop"}
BY DEF TypeOK, Places, Program

\* What the five programs do after a step.
LEMMA Ways ==
    ASSUME TypeOK
    PROVE  /\ program \in {"info", "hid", "ctaphid", "pcsc", "settings"}
           /\ program = "info" =>
                /\ step \in {"open", "serial", "close", "vendor", "atr", "join", "return",
                             "returned", "drop"}
                /\ Successor("open") = "serial" /\ Successor("serial") = "close"
                /\ Successor("close") = "vendor" /\ Successor("atr") = "join"
                /\ Successor("join") = "return" /\ Successor("return") = "returned"
           /\ program = "hid" =>
                /\ step \in {"next", "open", "serial", "close", "returned", "drop"}
                /\ Successor("next") = "open" /\ Successor("open") = "serial"
                /\ Successor("serial") = "close" /\ Successor("close") = "returned"
           /\ program = "ctaphid" =>
                /\ step \in {"next", "open", "channel", "atr", "close", "returned", "drop"}
                /\ Successor("next") = "open" /\ Successor("open") = "channel"
                /\ Successor("channel") = "atr" /\ Successor("atr") = "close"
                /\ Successor("close") = "returned"
           /\ program = "pcsc" =>
                /\ step \in {"next", "open", "serial", "atr", "config", "close", "returned",
                             "drop"}
                /\ Successor("next") = "open" /\ Successor("open") = "serial"
                /\ Successor("serial") = "atr" /\ Successor("atr") = "config"
                /\ Successor("config") = "close" /\ Successor("close") = "returned"
           /\ program = "settings" =>
                /\ step \in {"parse", "find", "open", "sound", "nfc", "notice", "close",
                             "returned", "drop"}
                /\ Successor("parse") = "find" /\ Successor("find") = "open"
                /\ Successor("open") = "sound" /\ Successor("sound") = "nfc"
                /\ Successor("nfc") = "notice" /\ Successor("notice") = "close"
                /\ Successor("close") = "returned"
<1>1. CASE program = "info"
  BY <1>1, PlaceOf, InfoProgram
<1>2. CASE program = "hid"
  BY <1>2, PlaceOf, HidProgram
<1>3. CASE program = "ctaphid"
  BY <1>3, PlaceOf, CtaphidProgram
<1>4. CASE program = "pcsc"
  BY <1>4, PlaceOf, PcscProgram
<1>5. CASE program = "settings"
  BY <1>5, PlaceOf, SettingsProgram
<1> QED BY <1>1, <1>2, <1>3, <1>4, <1>5, PlaceOf

\* Every place of a program is one that TypeOK allows.
LEMMA PlacesIn ==
    ASSUME TypeOK, NEW place
    PROVE  /\ program = "info" /\ place \in {"open", "serial", "close", "vendor", "atr",
                "join", "return", "returned"} => place \in Places
           /\ program = "hid" /\ place \in {"next", "open", "serial", "close", "returned"}
                => place \in Places
           /\ program = "ctaphid" /\ place \in {"next", "open", "channel", "atr", "close",
                "returned"} => place \in Places
           /\ program = "pcsc" /\ place \in {"next", "open", "serial", "atr", "config",
                "close", "returned"} => place \in Places
           /\ program = "settings" /\ place \in {"parse", "find", "open", "sound", "nfc",
                "notice", "close", "returned"} => place \in Places
BY PlaceOf, InfoProgram, HidProgram, CtaphidProgram, PcscProgram, SettingsProgram

\* What was enumerated.
LEMMA ListedIs ==
    ASSUME TypeOK
    PROVE  /\ listed \in Seq(ReaderInfo)
           /\ Len(listed) \in Nat /\ Len(listed) <= MaxListed /\ DOMAIN listed = 1..Len(listed)
           /\ MaxListed \in Nat \ {0}
           /\ \A i \in 1..Len(listed) :
                 listed[i].matches \in BOOLEAN /\ listed[i].present \in BOOLEAN
<1>1. PICK n \in 0..MaxListed : listed \in [1..n -> ReaderInfo]
  BY DEF TypeOK
<1>2. MaxListed \in Nat \ {0} /\ n \in Nat
  BY MaxListedAssumption DEF MaxListedAssumption
<1>3. listed \in Seq(ReaderInfo)
  BY <1>1, <1>2, SeqDef
<1>4. Len(listed) = n
  BY <1>1, <1>2, <1>3, LenProperties
<1>5. \A i \in 1..n : listed[i] \in ReaderInfo
  BY <1>1
<1> QED BY <1>1, <1>2, <1>3, <1>4, <1>5 DEF ReaderInfo

Errors == Fields \cup Settings
              \cup {"arguments", "enumerate", "none", "open", "channel", "close", "context"}

LEMMA TypeKept ==
    ASSUME TypeOK, UNCHANGED inputs,
           {canceled', acknowledged', notice'} \subseteq BOOLEAN, acks' \subseteq requested,
           step' \in Places \cup {"drop"}, at' \in 0..MaxListed, handles' \in [Devices -> Nat],
           info' \in [Fields -> {"absent", "value", "error"}],
           err' \subseteq Errors, refused' \subseteq Devices
    PROVE  TypeOK'
<1>1. Places' = Places
  BY DEF Places, inputs
<1>2. step' \in Places' \cup {"drop"}
  BY <1>1
<1> QED BY <1>2 DEF TypeOK, inputs, Errors, Places

LEMMA ChooseReaderIn ==
    ASSUME TypeOK
    PROVE  ChooseReader(listed, ~explicit) \in 0..Len(listed)
<1> DEFINE n == Len(listed)
           named == NamedUpTo(listed, n)
           present == PresentUpTo(listed, n)
           fallback == ~explicit
<1>1. n \in Nat /\ listed \in Seq(ReaderInfo)
  BY ListedIs
<1>0. fallback \in BOOLEAN
  OBVIOUS
<1> HIDE DEF fallback
<1>2. ChooseReader(listed, fallback) = Choice(listed, fallback, n)
  BY <1>0, <1>1, ChooseReaderIs
<1>3. named \in SUBSET (1..n) /\ present \in SUBSET (1..n)
  BY DEF NamedUpTo, PresentUpTo
<1>4. Choice(listed, fallback, n) =
          IF named # {} THEN First(named)
          ELSE IF fallback /\ present # {} THEN First(present) ELSE 0
  BY DEF Choice
<1> HIDE DEF named, present, n
<1>5. named \in SUBSET Nat /\ present \in SUBSET Nat
  BY <1>1, <1>3
<1>6. /\ named # {} => First(named) \in named
      /\ present # {} => First(present) \in present
  BY <1>5, FirstIs
<1>7. 0 \in 0..n /\ \A j \in named \cup present : j \in 0..n
  BY <1>1, <1>3
<1>8. Choice(listed, fallback, n) \in 0..n
  BY <1>4, <1>6, <1>7
<1> QED BY <1>2, <1>8 DEF n, fallback

-----------------------------------------------------------------------------
\* The invariant holds initially, and every action preserves it. The lemma of an
\* action first says what the action does in the programs that take it.

LEMMA ParseArgumentsInv == ASSUME Inv, ParseArguments PROVE Inv'
<1> USE DEF inputs, report
<1>1. /\ program = "settings" /\ step = "parse"
      /\ \/ step' = "returned" /\ err' = err \cup {"arguments"}
         \/ step' = "find" /\ err' = err /\ requested # {}
  BY Ways, ListedIs DEF Inv, Searches, ParseArguments, GoTo, GoOn, ReturnWith
<1>2. TypeOK'
  <2>1. step' \in Places \cup {"drop"}
    BY <1>1, Ways, PlacesIn DEF Inv, Settings
  <2>2. handles' \in [Devices -> Nat] /\ at' \in 0..MaxListed
    BY <1>1, ListedIs DEF Inv, Holding, TypeOK, ParseArguments
  <2>3. refused' \subseteq Devices /\ acks' \subseteq requested /\ err' \subseteq Errors
    BY <1>1 DEF Inv, Holding, TypeOK, Errors, ParseArguments
  <2>4. /\ {canceled', acknowledged', notice'} \subseteq BOOLEAN
        /\ info' \in [Fields -> {"absent", "value", "error"}]
    BY <1>1 DEF Inv, TypeOK, ParseArguments
  <2> QED BY <2>1, <2>2, <2>3, <2>4, TypeKept DEF Inv, ParseArguments
<1>3. HandlesHeld'
  BY <1>1, Ways DEF Inv, ParseArguments, HandlesHeld, Holding
<1>4. SettingsFollow'
  BY <1>1, Ways DEF Inv, ParseArguments, SettingsFollow
<1>5. FieldsFollow'
  BY <1>1, Ways DEF ParseArguments, FieldsFollow, TypeOK
<1>6. Searches'
  BY <1>1, Ways DEF Inv, ParseArguments, Searches
<1>7. FoundBySettings'
  BY <1>1, Ways DEF Inv, ParseArguments, FoundBySettings
<1>8. FoundByName'
  BY <1>1, Ways DEF ParseArguments, FoundByName
<1>9. FoundByAnswer'
  BY <1>1, Ways DEF ParseArguments, FoundByAnswer, TypeOK
<1>10. FoundFirst'
  BY <1>1, Ways, ListedIs DEF Inv, ParseArguments, FoundFirst, TypeOK
<1> QED BY <1>2, <1>3, <1>4, <1>5, <1>6, <1>7, <1>8, <1>9, <1>10 DEF Inv

LEMMA FindReaderInv == ASSUME Inv, FindReader PROVE Inv'
<1> USE DEF inputs, report
<1>1. /\ program = "settings" /\ step = "find"
      /\ \/ step' = "returned" /\ err' = err \cup {"enumerate"} /\ at' = at
         \/ /\ at' = ChooseReader(listed, ~explicit)
            /\ \/ at' = 0 /\ step' = "returned" /\ err' = err \cup {"none"}
               \/ at' # 0 /\ step' = "open" /\ err' = err
  BY Ways, ListedIs DEF Inv, Searches, FindReader, GoTo, GoOn, ReturnWith
<1>2. TypeOK'
  <2>1. step' \in Places \cup {"drop"}
    BY <1>1, Ways, PlacesIn DEF Inv, Settings
  <2>2. handles' \in [Devices -> Nat] /\ at' \in 0..MaxListed
    BY <1>1, ListedIs, ChooseReaderIn DEF Inv, Holding, TypeOK, FindReader
  <2>3. refused' \subseteq Devices /\ acks' \subseteq requested /\ err' \subseteq Errors
    BY <1>1 DEF Inv, Holding, TypeOK, Errors, FindReader
  <2>4. /\ {canceled', acknowledged', notice'} \subseteq BOOLEAN
        /\ info' \in [Fields -> {"absent", "value", "error"}]
    BY <1>1 DEF Inv, TypeOK, FindReader
  <2> QED BY <2>1, <2>2, <2>3, <2>4, TypeKept DEF Inv, FindReader
<1>3. HandlesHeld'
  BY <1>1, ListedIs, ChooseReaderIn DEF Inv, FindReader, HandlesHeld, Holding, Devices
<1>4. SettingsFollow'
  BY <1>1, Ways DEF Inv, FindReader, SettingsFollow
<1>5. FieldsFollow'
  BY <1>1, Ways DEF FindReader, FieldsFollow, TypeOK
<1>6. Searches'
  BY <1>1, Ways DEF Inv, FindReader, Searches
<1>7. FoundBySettings'
  BY <1>1, Ways DEF Inv, FindReader, FoundBySettings
<1>8. FoundByName'
  BY <1>1, Ways DEF FindReader, FoundByName
<1>9. FoundByAnswer'
  BY <1>1, Ways DEF FindReader, FoundByAnswer, TypeOK
<1>10. FoundFirst'
  BY <1>1, Ways, ListedIs DEF Inv, FindReader, FoundFirst, TypeOK
<1> QED BY <1>2, <1>3, <1>4, <1>5, <1>6, <1>7, <1>8, <1>9, <1>10 DEF Inv

LEMMA NextListedInv == ASSUME Inv, NextListed PROVE Inv'
<1> USE DEF inputs, report
<1>1. /\ step = "next"
      /\ program \in {"hid", "ctaphid", "pcsc"}
      /\ \/ step' = "returned" /\ err' = err \cup {"enumerate"} /\ at' = at
         \/ at = Len(listed) /\ step' = "returned" /\ err' = err \cup {"none"} /\ at' = at
         \/ /\ at < Len(listed) /\ at' = at + 1 /\ err' = err
            /\ \/ step' = "next" /\ program = "pcsc" /\ explicit /\ ~listed[at'].matches
               \/ step' = "open" /\ (program = "pcsc" /\ explicit => listed[at'].matches)
  BY Ways, ListedIs DEF Inv, Searches, NextListed, GoTo, GoOn, ReturnWith
<1>2. TypeOK'
  <2>1. step' \in Places \cup {"drop"}
    BY <1>1, Ways, PlacesIn DEF Inv, Settings
  <2>2. handles' \in [Devices -> Nat] /\ at' \in 0..MaxListed
    BY <1>1, ListedIs DEF Inv, Holding, TypeOK, NextListed
  <2>3. refused' \subseteq Devices /\ acks' \subseteq requested /\ err' \subseteq Errors
    BY <1>1 DEF Inv, Holding, TypeOK, Errors, NextListed
  <2>4. /\ {canceled', acknowledged', notice'} \subseteq BOOLEAN
        /\ info' \in [Fields -> {"absent", "value", "error"}]
    BY <1>1 DEF Inv, TypeOK, NextListed
  <2> QED BY <2>1, <2>2, <2>3, <2>4, TypeKept DEF Inv, NextListed
<1>3. HandlesHeld'
  <2>1. step' = "open" => at' \in Devices
    BY <1>1, ListedIs DEF Inv, TypeOK, Devices
  <2> QED BY <1>1, <2>1 DEF Inv, NextListed, HandlesHeld, Holding
<1>4. SettingsFollow'
  BY <1>1, Ways DEF NextListed, SettingsFollow
<1>5. FieldsFollow'
  BY <1>1, Ways DEF NextListed, FieldsFollow, TypeOK
<1>6. Searches'
  BY <1>1, Ways DEF Inv, NextListed, Searches
<1>7. FoundBySettings'
  BY <1>1, Ways DEF NextListed, FoundBySettings, TypeOK
<1>8. FoundByName'
  BY <1>1, Ways DEF Inv, NextListed, FoundByName, TypeOK
<1>9. FoundByAnswer'
  BY <1>1, Ways DEF Inv, NextListed, FoundByAnswer, TypeOK
<1>10. FoundFirst'
  BY <1>1, Ways, ListedIs DEF Inv, NextListed, FoundFirst, TypeOK
<1> QED BY <1>2, <1>3, <1>4, <1>5, <1>6, <1>7, <1>8, <1>9, <1>10 DEF Inv

LEMMA OpenInv == ASSUME Inv, Open PROVE Inv'
<1> USE DEF inputs, report
<1>1. /\ step = "open"
      /\ \/ /\ handles' = [handles EXCEPT ![at] = @ + 1]
            /\ UNCHANGED <<info, err, refused>>
            /\ \/ program \in {"info", "hid", "pcsc"} /\ step' = "serial"
               \/ program = "ctaphid" /\ step' = "channel"
               \/ program = "settings" /\ step' = "sound"
         \/ /\ program = "info" /\ step' = "vendor"
            /\ info' = [info EXCEPT !["serial"] = "error"] /\ err' = err \cup {"serial"}
            /\ UNCHANGED <<handles, refused>>
         \/ /\ program = "hid" /\ ~explicit /\ step' = "next" /\ refused' = refused \cup {at}
            /\ UNCHANGED <<handles, info, err>>
         \/ /\ program # "info" /\ (program = "hid" => explicit)
            /\ step' = "returned" /\ err' = err \cup {"open"}
            /\ UNCHANGED <<handles, info, refused>>
  BY Ways, ListedIs DEF Inv, Searches, Open, GoTo, GoOn, ReturnWith, OpenHandle
<1>2. TypeOK'
  <2>1. step' \in Places \cup {"drop"}
    BY <1>1, Ways, PlacesIn DEF Inv, Settings
  <2>2. handles' \in [Devices -> Nat] /\ at' \in 0..MaxListed
    BY <1>1, ListedIs DEF Inv, HandlesHeld, TypeOK, Open
  <2>3. refused' \subseteq Devices /\ acks' \subseteq requested /\ err' \subseteq Errors
    BY <1>1 DEF Inv, HandlesHeld, TypeOK, Errors, Fields, Open
  <2>4. /\ {canceled', acknowledged', notice'} \subseteq BOOLEAN
        /\ info' \in [Fields -> {"absent", "value", "error"}]
    BY <1>1 DEF Inv, TypeOK, Open
  <2> QED BY <2>1, <2>2, <2>3, <2>4, TypeKept DEF Inv, Open
<1>3. HandlesHeld'
  BY <1>1, Ways DEF Inv, Open, HandlesHeld, TypeOK, Holding
<1>4. SettingsFollow'
  BY <1>1, Ways DEF Inv, Open, SettingsFollow, TypeOK
<1>5. FieldsFollow'
  BY <1>1, Ways DEF Inv, Open, FieldsFollow, TypeOK, Fields
<1>6. Searches'
  BY <1>1, Ways DEF Inv, Open, Searches
<1>7. FoundBySettings'
  BY <1>1, Ways DEF Inv, Open, FoundBySettings
<1>8. FoundByName'
  BY <1>1, Ways DEF Inv, Open, FoundByName
<1>9. FoundByAnswer'
  <2>1. at \in Nat /\ (at # 0 => 1..at = (1..(at - 1)) \cup {at})
    BY ListedIs DEF Inv, TypeOK
  <2> QED BY <1>1, <2>1 DEF Inv, Open, FoundByAnswer, Searches
<1>10. FoundFirst'
  BY <1>1, Ways, ListedIs DEF Inv, Open, FoundFirst, TypeOK
<1> QED BY <1>2, <1>3, <1>4, <1>5, <1>6, <1>7, <1>8, <1>9, <1>10 DEF Inv

LEMMA OpenChannelInv == ASSUME Inv, OpenChannel PROVE Inv'
<1> USE DEF inputs, report
<1>1. /\ program = "ctaphid" /\ step = "channel"
      /\ \/ step' = "atr" /\ err' = err
         \/ step' = "drop" /\ err' = err \cup {"channel"}
  BY Ways, ListedIs DEF Inv, Searches, OpenChannel, GoTo, GoOn
<1>2. TypeOK'
  <2>1. step' \in Places \cup {"drop"}
    BY <1>1, Ways, PlacesIn DEF Inv, Settings
  <2>2. handles' \in [Devices -> Nat] /\ at' \in 0..MaxListed
    BY <1>1, ListedIs DEF Inv, Holding, TypeOK, OpenChannel
  <2>3. refused' \subseteq Devices /\ acks' \subseteq requested /\ err' \subseteq Errors
    BY <1>1 DEF Inv, Holding, TypeOK, Errors, OpenChannel
  <2>4. /\ {canceled', acknowledged', notice'} \subseteq BOOLEAN
        /\ info' \in [Fields -> {"absent", "value", "error"}]
    BY <1>1 DEF Inv, TypeOK, OpenChannel
  <2> QED BY <2>1, <2>2, <2>3, <2>4, TypeKept DEF Inv, OpenChannel
<1>3. HandlesHeld'
  BY <1>1, Ways DEF Inv, OpenChannel, HandlesHeld, Holding
<1>4. SettingsFollow'
  BY <1>1, Ways DEF OpenChannel, SettingsFollow
<1>5. FieldsFollow'
  BY <1>1, Ways DEF OpenChannel, FieldsFollow, TypeOK
<1>6. Searches'
  BY <1>1, Ways DEF Inv, OpenChannel, Searches
<1>7. FoundBySettings'
  BY <1>1, Ways DEF OpenChannel, FoundBySettings
<1>8. FoundByName'
  BY <1>1, Ways DEF OpenChannel, FoundByName
<1>9. FoundByAnswer'
  BY <1>1, Ways DEF OpenChannel, FoundByAnswer, TypeOK
<1>10. FoundFirst'
  BY <1>1, Ways, ListedIs DEF Inv, OpenChannel, FoundFirst, TypeOK
<1> QED BY <1>2, <1>3, <1>4, <1>5, <1>6, <1>7, <1>8, <1>9, <1>10 DEF Inv

LEMMA ReadInv == ASSUME Inv, Read PROVE Inv'
<1> USE DEF inputs, report
<1>1. /\ step \in Fields
      /\ \/ /\ info' = [info EXCEPT ![step] = "value"]
            /\ step' = Successor(step)
            /\ UNCHANGED <<err, refused>>
         \/ /\ info' = [info EXCEPT ![step] = "error"]
            /\ \/ program = "info" /\ step' = Successor(step) /\ err' = err \cup {step}
               \/ program = "pcsc" /\ step' = Successor(step) /\ err' = err
               \/ program = "ctaphid" /\ step' = "close" /\ err' = err \cup {step}
            /\ refused' = refused
         \/ /\ info' = [info EXCEPT ![step] = "error"]
            /\ program = "hid" /\ step' = "drop" /\ refused' = refused \cup {at}
            /\ err' = IF explicit THEN err \cup {step} ELSE err
  BY Ways, ListedIs DEF Inv, Searches, Read, GoTo, GoOn, Fields
<1>2. TypeOK'
  <2>1. step' \in Places \cup {"drop"}
    BY <1>1, Ways, PlacesIn DEF Inv, Fields
  <2>2. handles' \in [Devices -> Nat] /\ at' \in 0..MaxListed
    BY <1>1, ListedIs DEF Inv, HandlesHeld, Holding, TypeOK, Devices, Read
  <2>3. refused' \subseteq Devices /\ acks' \subseteq requested /\ err' \subseteq Errors
    BY <1>1 DEF Inv, HandlesHeld, Holding, TypeOK, Errors, Fields, Read
  <2>4. /\ {canceled', acknowledged', notice'} \subseteq BOOLEAN
        /\ info' \in [Fields -> {"absent", "value", "error"}]
    BY <1>1 DEF Inv, TypeOK, Read
  <2> QED BY <2>1, <2>2, <2>3, <2>4, TypeKept DEF Inv, Read
<1>3. HandlesHeld'
  BY <1>1, Ways DEF Inv, Read, HandlesHeld, Holding, Fields
<1>4. SettingsFollow'
  BY <1>1, Ways DEF Inv, Read, SettingsFollow, TypeOK, Fields
<1>5. FieldsFollow'
  BY <1>1, Ways DEF Inv, Read, FieldsFollow, TypeOK, Fields
<1>6. Searches'
  BY <1>1, Ways DEF Inv, Searches, Fields
<1>7. FoundBySettings'
  BY <1>1, Ways DEF Inv, Read, FoundBySettings, Fields
<1>8. FoundByName'
  BY <1>1, Ways DEF Inv, Read, FoundByName, Fields
<1>9. FoundByAnswer'
  <2>1. at \in Nat /\ (at # 0 => 1..at = (1..(at - 1)) \cup {at})
    BY ListedIs DEF Inv, TypeOK
  <2> QED BY <1>1, <2>1, Ways DEF Inv, Read, FoundByAnswer, Searches, Fields
<1>10. FoundFirst'
  BY <1>1, Ways, ListedIs DEF Inv, Read, FoundFirst, TypeOK, Fields
<1> QED BY <1>2, <1>3, <1>4, <1>5, <1>6, <1>7, <1>8, <1>9, <1>10 DEF Inv

LEMMA DropInv == ASSUME Inv, Drop PROVE Inv'
<1> USE DEF inputs, report
<1>1. /\ step = "drop" /\ program \in {"hid", "ctaphid"}
      /\ handles' = [handles EXCEPT ![at] = @ - 1]
      /\ \/ program = "hid" /\ ~explicit /\ step' = "next" /\ err' = err
         \/ /\ ~(program = "hid" /\ ~explicit)
            /\ step' = "returned" /\ err' \in {err, err \cup {"close"}}
  BY Ways, ListedIs DEF Inv, HandlesHeld, Drop, GoTo, ReturnWith, CloseHandle
<1>2. TypeOK'
  <2>1. step' \in Places \cup {"drop"}
    BY <1>1, Ways, PlacesIn DEF Inv, Settings
  <2>2. handles' \in [Devices -> Nat] /\ at' \in 0..MaxListed
    BY <1>1, ListedIs DEF Inv, HandlesHeld, Holding, TypeOK, Drop
  <2>3. refused' \subseteq Devices /\ acks' \subseteq requested /\ err' \subseteq Errors
    BY <1>1 DEF Inv, Holding, TypeOK, Errors, Drop
  <2>4. /\ {canceled', acknowledged', notice'} \subseteq BOOLEAN
        /\ info' \in [Fields -> {"absent", "value", "error"}]
    BY <1>1 DEF Inv, TypeOK, Drop
  <2> QED BY <2>1, <2>2, <2>3, <2>4, TypeKept DEF Inv, Drop
<1>3. HandlesHeld'
  BY <1>1, Ways DEF Inv, HandlesHeld, TypeOK, Holding
<1>4. SettingsFollow'
  BY <1>1, Ways DEF Drop, SettingsFollow
<1>5. FieldsFollow'
  BY <1>1, Ways DEF Drop, FieldsFollow
<1>6. Searches'
  BY <1>1, Ways DEF Inv, Drop, Searches
<1>7. FoundBySettings'
  BY <1>1, Ways DEF Drop, FoundBySettings
<1>8. FoundByName'
  BY <1>1, Ways DEF Drop, FoundByName
<1>9. FoundByAnswer'
  BY <1>1, Ways DEF Inv, Drop, FoundByAnswer
<1>10. FoundFirst'
  BY <1>1, Ways, ListedIs DEF Inv, Drop, FoundFirst, TypeOK
<1> QED BY <1>2, <1>3, <1>4, <1>5, <1>6, <1>7, <1>8, <1>9, <1>10 DEF Inv

LEMMA SetInv == ASSUME Inv, Set PROVE Inv'
<1> USE DEF inputs, report
<1>1. /\ program = "settings" /\ step \in Settings
      /\ \/ /\ step \notin requested \/ acks' = acks \cup {step}
            /\ step = "sound" => step' = "nfc"
            /\ step = "nfc" => step' = "notice"
            /\ err' = err
         \/ step \in requested /\ step' = "notice" /\ err' = err \cup {step}
      /\ UNCHANGED <<notice>>
  BY Ways, ListedIs DEF Inv, Searches, Set, GoTo, GoOn, Settings
<1>2. TypeOK'
  <2>1. step' \in Places \cup {"drop"}
    BY <1>1, Ways, PlacesIn DEF Inv, Settings
  <2>2. handles' \in [Devices -> Nat] /\ at' \in 0..MaxListed
    BY <1>1, ListedIs DEF Inv, Holding, TypeOK, Set
  <2>3. refused' \subseteq Devices /\ acks' \subseteq requested /\ err' \subseteq Errors
    BY <1>1 DEF Inv, Holding, TypeOK, Errors, Set
  <2>4. /\ {canceled', acknowledged', notice'} \subseteq BOOLEAN
        /\ info' \in [Fields -> {"absent", "value", "error"}]
    BY <1>1 DEF Inv, TypeOK, Set
  <2> QED BY <2>1, <2>2, <2>3, <2>4, TypeKept DEF Inv, Set
<1>3. HandlesHeld'
  BY <1>1, Ways DEF Inv, Set, HandlesHeld, Holding, Settings
<1>4. SettingsFollow'
  <2>1. /\ acknowledged <=> acks # {}
        /\ acknowledged' <=> acks' # {}
    BY <1>1 DEF Inv, Set, SettingsFollow
  <2>2. /\ notice' <=> acknowledged' /\ step' \in {"close", "returned"}
        /\ err = {} /\ requested # {} /\ requested \subseteq {"sound", "nfc"}
        /\ requested' = requested
    BY <1>1 DEF Inv, Set, SettingsFollow, TypeOK, Settings
  <2>3. CASE step' = "notice" /\ err' = err \cup {step}
    BY <2>1, <2>2, <2>3 DEF SettingsFollow
  <2>4. CASE step = "sound" /\ step' = "nfc" /\ err' = err
    <3>1. /\ acks = {}
          /\ \/ acks' = acks /\ "sound" \notin requested
             \/ acks' = acks \cup {"sound"} /\ "sound" \in requested
      BY <1>1, <2>4 DEF Inv, Set, SettingsFollow
    <3>2. acks' = requested \cap {"sound"}
      BY <3>1
    <3> QED BY <2>1, <2>2, <2>4, <3>2 DEF SettingsFollow
  <2>5. CASE step = "nfc" /\ step' = "notice" /\ err' = err
    <3>1. /\ acks = requested \cap {"sound"}
          /\ \/ acks' = acks /\ "nfc" \notin requested
             \/ acks' = acks \cup {"nfc"} /\ "nfc" \in requested
      BY <1>1, <2>5 DEF Inv, Set, SettingsFollow
    <3>2. acks' = requested
      BY <2>2, <3>1
    <3> QED BY <2>1, <2>2, <2>5, <3>2 DEF SettingsFollow
  <2> QED BY <1>1, <2>3, <2>4, <2>5 DEF Settings
<1>5. FieldsFollow'
  BY <1>1, Ways DEF Set, FieldsFollow
<1>6. Searches'
  BY <1>1, Ways DEF Inv, Searches, Settings
<1>7. FoundBySettings'
  BY <1>1, Ways DEF Inv, Set, FoundBySettings, Settings
<1>8. FoundByName'
  BY <1>1, Ways DEF Set, FoundByName
<1>9. FoundByAnswer'
  BY <1>1, Ways DEF Set, FoundByAnswer
<1>10. FoundFirst'
  BY <1>1, Ways, ListedIs DEF Inv, Set, FoundFirst, TypeOK
<1> QED BY <1>2, <1>3, <1>4, <1>5, <1>6, <1>7, <1>8, <1>9, <1>10 DEF Inv

LEMMA NoticeInv == ASSUME Inv, Notice PROVE Inv'
<1> USE DEF inputs, report
<1>1. /\ program = "settings" /\ step = "notice" /\ step' = "close"
      /\ notice' = acknowledged
  BY Ways, ListedIs DEF Inv, Searches, Notice, GoTo, GoOn
<1>2. TypeOK'
  <2>1. step' \in Places \cup {"drop"}
    BY <1>1, Ways, PlacesIn DEF Inv, Settings
  <2>2. handles' \in [Devices -> Nat] /\ at' \in 0..MaxListed
    BY <1>1, ListedIs DEF Inv, Holding, TypeOK, Notice
  <2>3. refused' \subseteq Devices /\ acks' \subseteq requested /\ err' \subseteq Errors
    BY <1>1 DEF Inv, Holding, TypeOK, Errors, Notice
  <2>4. /\ {canceled', acknowledged', notice'} \subseteq BOOLEAN
        /\ info' \in [Fields -> {"absent", "value", "error"}]
    BY <1>1 DEF Inv, TypeOK, Notice
  <2> QED BY <2>1, <2>2, <2>3, <2>4, TypeKept DEF Inv, Notice
<1>3. HandlesHeld'
  BY <1>1, Ways DEF Inv, Notice, HandlesHeld, Holding
<1>4. SettingsFollow'
  BY <1>1, Ways DEF Inv, Notice, SettingsFollow
<1>5. FieldsFollow'
  BY <1>1, Ways DEF Inv, Notice, FieldsFollow
<1>6. Searches'
  BY <1>1, Ways DEF Inv, Notice, Searches
<1>7. FoundBySettings'
  BY <1>1, Ways DEF Inv, Notice, FoundBySettings
<1>8. FoundByName'
  BY <1>1, Ways DEF Notice, FoundByName
<1>9. FoundByAnswer'
  BY <1>1, Ways DEF Notice, FoundByAnswer
<1>10. FoundFirst'
  BY <1>1, Ways, ListedIs DEF Inv, Notice, FoundFirst, TypeOK
<1> QED BY <1>2, <1>3, <1>4, <1>5, <1>6, <1>7, <1>8, <1>9, <1>10 DEF Inv

LEMMA CloseInv == ASSUME Inv, Close PROVE Inv'
<1> USE DEF inputs, report
<1>1. /\ step = "close" /\ err' \in {err, err \cup {"close"}}
      /\ handles' = [handles EXCEPT ![at] = @ - 1]
      /\ step' = (IF program = "info" THEN "vendor" ELSE "returned")
      /\ program \in {"info", "hid", "ctaphid", "pcsc", "settings"}
  BY Ways, ListedIs DEF Inv, Searches, Close, GoTo, GoOn, CloseHandle
<1>2. TypeOK'
  <2>1. step' \in Places \cup {"drop"}
    BY <1>1, Ways, PlacesIn DEF Inv, Settings
  <2>2. handles' \in [Devices -> Nat] /\ at' \in 0..MaxListed
    BY <1>1, ListedIs DEF Inv, HandlesHeld, Holding, TypeOK, Close
  <2>3. refused' \subseteq Devices /\ acks' \subseteq requested /\ err' \subseteq Errors
    BY <1>1 DEF Inv, Holding, TypeOK, Errors, Close
  <2>4. /\ {canceled', acknowledged', notice'} \subseteq BOOLEAN
        /\ info' \in [Fields -> {"absent", "value", "error"}]
    BY <1>1 DEF Inv, TypeOK, Close
  <2> QED BY <2>1, <2>2, <2>3, <2>4, TypeKept DEF Inv, Close
<1>3. HandlesHeld'
  BY <1>1, Ways DEF Inv, HandlesHeld, TypeOK, Holding
<1>4. SettingsFollow'
  BY <1>1, Ways DEF Inv, Close, SettingsFollow
<1>5. FieldsFollow'
  BY <1>1, Ways DEF Inv, Close, FieldsFollow
<1>6. Searches'
  BY <1>1, Ways DEF Inv, Searches
<1>7. FoundBySettings'
  BY <1>1, Ways DEF Inv, Close, FoundBySettings
<1>8. FoundByName'
  BY <1>1, Ways DEF Inv, Close, FoundByName
<1>9. FoundByAnswer'
  BY <1>1, Ways DEF Inv, Close, FoundByAnswer
<1>10. FoundFirst'
  BY <1>1, Ways, ListedIs DEF Inv, Close, FoundFirst, TypeOK
<1> QED BY <1>2, <1>3, <1>4, <1>5, <1>6, <1>7, <1>8, <1>9, <1>10 DEF Inv

LEMMA CheckVendorInv == ASSUME Inv, CheckVendor PROVE Inv'
<1> USE DEF inputs, report
<1>1. /\ program = "info" /\ step = "vendor"
      /\ step' = (IF vendor /\ ~canceled THEN "atr" ELSE "join")
  BY Ways, ListedIs DEF Inv, Searches, CheckVendor, GoTo
<1>2. TypeOK'
  <2>1. step' \in Places \cup {"drop"}
    BY <1>1, Ways, PlacesIn DEF Inv, Settings
  <2>2. handles' \in [Devices -> Nat] /\ at' \in 0..MaxListed
    BY <1>1, ListedIs DEF Inv, Holding, TypeOK, CheckVendor
  <2>3. refused' \subseteq Devices /\ acks' \subseteq requested /\ err' \subseteq Errors
    BY <1>1 DEF Inv, Holding, TypeOK, Errors, CheckVendor
  <2>4. /\ {canceled', acknowledged', notice'} \subseteq BOOLEAN
        /\ info' \in [Fields -> {"absent", "value", "error"}]
    BY <1>1 DEF Inv, TypeOK, CheckVendor
  <2> QED BY <2>1, <2>2, <2>3, <2>4, TypeKept DEF Inv, CheckVendor
<1>3. HandlesHeld'
  BY <1>1, Ways DEF Inv, CheckVendor, HandlesHeld, Holding
<1>4. SettingsFollow'
  BY <1>1, Ways DEF CheckVendor, SettingsFollow, TypeOK
<1>5. FieldsFollow'
  BY <1>1, Ways DEF Inv, CheckVendor, FieldsFollow
<1>6. Searches'
  BY <1>1, Ways DEF Inv, CheckVendor, Searches
<1>7. FoundBySettings'
  BY <1>1, Ways DEF CheckVendor, FoundBySettings
<1>8. FoundByName'
  BY <1>1, Ways DEF CheckVendor, FoundByName
<1>9. FoundByAnswer'
  BY <1>1, Ways DEF CheckVendor, FoundByAnswer, TypeOK
<1>10. FoundFirst'
  BY <1>1, Ways, ListedIs DEF Inv, CheckVendor, FoundFirst, TypeOK
<1> QED BY <1>2, <1>3, <1>4, <1>5, <1>6, <1>7, <1>8, <1>9, <1>10 DEF Inv

LEMMA JoinInv == ASSUME Inv, Join PROVE Inv'
<1> USE DEF inputs, report
<1>1. /\ program = "info" /\ step = "join" /\ step' = "return"
      /\ err' = (IF canceled THEN err \cup {"context"} ELSE err)
  BY Ways, ListedIs DEF Inv, Searches, Join, GoTo, GoOn
<1>2. TypeOK'
  <2>1. step' \in Places \cup {"drop"}
    BY <1>1, Ways, PlacesIn DEF Inv, Settings
  <2>2. handles' \in [Devices -> Nat] /\ at' \in 0..MaxListed
    BY <1>1, ListedIs DEF Inv, Holding, TypeOK, Join
  <2>3. refused' \subseteq Devices /\ acks' \subseteq requested /\ err' \subseteq Errors
    BY <1>1 DEF Inv, Holding, TypeOK, Errors, Join
  <2>4. /\ {canceled', acknowledged', notice'} \subseteq BOOLEAN
        /\ info' \in [Fields -> {"absent", "value", "error"}]
    BY <1>1 DEF Inv, TypeOK, Join
  <2> QED BY <2>1, <2>2, <2>3, <2>4, TypeKept DEF Inv, Join
<1>3. HandlesHeld'
  BY <1>1, Ways DEF Inv, Join, HandlesHeld, Holding
<1>4. SettingsFollow'
  BY <1>1, Ways DEF Inv, Join, SettingsFollow
<1>5. FieldsFollow'
  BY <1>1, Ways DEF Inv, Join, FieldsFollow
<1>6. Searches'
  BY <1>1, Ways DEF Inv, Searches
<1>7. FoundBySettings'
  BY <1>1, Ways DEF Join, FoundBySettings
<1>8. FoundByName'
  BY <1>1, Ways DEF Join, FoundByName
<1>9. FoundByAnswer'
  BY <1>1, Ways DEF Join, FoundByAnswer
<1>10. FoundFirst'
  BY <1>1, Ways, ListedIs DEF Inv, Join, FoundFirst, TypeOK
<1> QED BY <1>2, <1>3, <1>4, <1>5, <1>6, <1>7, <1>8, <1>9, <1>10 DEF Inv

LEMMA ReturnInv == ASSUME Inv, Return PROVE Inv'
<1> USE DEF inputs, report
<1>1. /\ program = "info" /\ step = "return" /\ step' = "returned"
  BY Ways, ListedIs DEF Inv, Searches, Return, GoTo, GoOn
<1>2. TypeOK'
  <2>1. step' \in Places \cup {"drop"}
    BY <1>1, Ways, PlacesIn DEF Inv, Settings
  <2>2. handles' \in [Devices -> Nat] /\ at' \in 0..MaxListed
    BY <1>1, ListedIs DEF Inv, Holding, TypeOK, Return
  <2>3. refused' \subseteq Devices /\ acks' \subseteq requested /\ err' \subseteq Errors
    BY <1>1 DEF Inv, Holding, TypeOK, Errors, Return
  <2>4. /\ {canceled', acknowledged', notice'} \subseteq BOOLEAN
        /\ info' \in [Fields -> {"absent", "value", "error"}]
    BY <1>1 DEF Inv, TypeOK, Return
  <2> QED BY <2>1, <2>2, <2>3, <2>4, TypeKept DEF Inv, Return
<1>3. HandlesHeld'
  BY <1>1, Ways DEF Inv, Return, HandlesHeld, Holding
<1>4. SettingsFollow'
  BY <1>1, Ways DEF Inv, Return, SettingsFollow
<1>5. FieldsFollow'
  BY <1>1, Ways DEF Inv, Return, FieldsFollow
<1>6. Searches'
  BY <1>1, Ways DEF Inv, Return, Searches
<1>7. FoundBySettings'
  BY <1>1, Ways DEF Return, FoundBySettings
<1>8. FoundByName'
  BY <1>1, Ways DEF Return, FoundByName
<1>9. FoundByAnswer'
  BY <1>1, Ways DEF Return, FoundByAnswer
<1>10. FoundFirst'
  BY <1>1, Ways, ListedIs DEF Inv, Return, FoundFirst, TypeOK
<1> QED BY <1>2, <1>3, <1>4, <1>5, <1>6, <1>7, <1>8, <1>9, <1>10 DEF Inv

LEMMA CancelInv == ASSUME Inv, Cancel PROVE Inv'
<1> USE DEF inputs, report
<1>1. /\ program = "info" /\ canceled' = TRUE /\ step' = step
  BY Ways, ListedIs DEF Searches, Cancel
<1>2. TypeOK'
  <2>1. step' \in Places \cup {"drop"}
    BY <1>1, Ways, PlacesIn DEF Inv, Settings
  <2>2. handles' \in [Devices -> Nat] /\ at' \in 0..MaxListed
    BY <1>1, ListedIs DEF Inv, Holding, TypeOK, Cancel
  <2>3. refused' \subseteq Devices /\ acks' \subseteq requested /\ err' \subseteq Errors
    BY <1>1 DEF Inv, Holding, TypeOK, Errors, Cancel
  <2>4. /\ {canceled', acknowledged', notice'} \subseteq BOOLEAN
        /\ info' \in [Fields -> {"absent", "value", "error"}]
    BY <1>1 DEF Inv, TypeOK, Cancel
  <2> QED BY <2>1, <2>2, <2>3, <2>4, TypeKept DEF Inv, Cancel
<1>3. HandlesHeld'
  BY <1>1, Ways DEF Inv, Cancel, HandlesHeld, Holding
<1>4. SettingsFollow'
  BY <1>1, Ways DEF Inv, Cancel, SettingsFollow
<1>5. FieldsFollow'
  BY <1>1, Ways DEF Inv, Cancel, FieldsFollow
<1>6. Searches'
  BY <1>1, Ways DEF Inv, Cancel, Searches
<1>7. FoundBySettings'
  BY <1>1, Ways DEF Cancel, FoundBySettings
<1>8. FoundByName'
  BY <1>1, Ways DEF Cancel, FoundByName
<1>9. FoundByAnswer'
  BY <1>1, Ways DEF Cancel, FoundByAnswer
<1>10. FoundFirst'
  BY <1>1, Ways, ListedIs DEF Inv, Cancel, FoundFirst, TypeOK
<1> QED BY <1>2, <1>3, <1>4, <1>5, <1>6, <1>7, <1>8, <1>9, <1>10 DEF Inv

LEMMA InitInv == Init => Inv
<1> SUFFICES ASSUME Init PROVE Inv
  OBVIOUS
<1>1. MaxListed \in Nat \ {0}
  BY MaxListedAssumption DEF MaxListedAssumption
<1>2. /\ program \in {"info", "hid", "ctaphid", "pcsc", "settings"}
      /\ \/ program = "info" /\ step = "open" /\ at = 1
         \/ program \in {"hid", "ctaphid"} /\ explicit /\ step = "open" /\ at = 1
         \/ program \in {"hid", "ctaphid"} /\ ~explicit /\ step = "next" /\ at = 0
         \/ program = "pcsc" /\ step = "next" /\ at = 0
         \/ program = "settings" /\ step = "parse" /\ at = 0
  BY DEF Init, Program
<1>3. step \in Places
  BY <1>2, InfoProgram, HidProgram, CtaphidProgram, PcscProgram, SettingsProgram
<1>4. /\ vendor \in BOOLEAN /\ requested \subseteq Settings
      /\ handles = [d \in Devices |-> 0] /\ info = [f \in Fields |-> "absent"]
      /\ err = {} /\ acks = {} /\ refused = {} /\ canceled = FALSE
      /\ acknowledged = FALSE /\ notice = FALSE /\ explicit \in BOOLEAN
      /\ listed \in UNION {[1..n -> ReaderInfo] : n \in 0..MaxListed}
  BY DEF Init
<1>5. TypeOK
  <2>1. at \in 0..MaxListed
    BY <1>1, <1>2
  <2>2. handles \in [Devices -> Nat] /\ info \in [Fields -> {"absent", "value", "error"}]
    BY <1>4
  <2>3. program \in DOMAIN Program /\ vendor \in BOOLEAN /\ acks \subseteq requested
    BY <1>4 DEF Init
  <2> QED BY <1>3, <1>4, <2>1, <2>2, <2>3 DEF TypeOK, Places
<1>6. Len(listed) \in Nat
  BY <1>5, ListedIs
<1>7. HandlesHeld /\ Searches
  BY <1>1, <1>2, <1>4 DEF HandlesHeld, Searches, Holding, Devices
<1>8. SettingsFollow /\ FieldsFollow
  BY <1>2, <1>4 DEF SettingsFollow, FieldsFollow, Fields
<1>9. FoundBySettings /\ FoundByName /\ FoundByAnswer /\ FoundFirst
  BY <1>2, <1>4, <1>6 DEF FoundBySettings, FoundByName, FoundByAnswer, FoundFirst
<1> QED BY <1>5, <1>7, <1>8, <1>9 DEF Inv

LEMMA NextInv == Inv /\ [Next]_vars => Inv'
<1> SUFFICES ASSUME Inv, [Next]_vars PROVE Inv'
  OBVIOUS
<1>1. CASE Next
  BY <1>1, ParseArgumentsInv, FindReaderInv, NextListedInv, OpenInv, OpenChannelInv,
     ReadInv, DropInv, SetInv, NoticeInv, CloseInv, CheckVendorInv, JoinInv, ReturnInv,
     CancelInv DEF Next
<1>2. CASE UNCHANGED vars
  <2> USE <1>2 DEF vars, inputs, report
  <2>1. TypeOK' /\ SettingsFollow' /\ FieldsFollow'
    BY DEF Inv, TypeOK, SettingsFollow, FieldsFollow
  <2>2. Holding' = Holding
    BY DEF Holding
  <2>3. HandlesHeld' /\ Searches'
    BY <2>2 DEF Inv, HandlesHeld, Searches
  <2>4. FoundBySettings' /\ FoundByName' /\ FoundByAnswer' /\ FoundFirst'
    BY DEF Inv, FoundBySettings, FoundByName, FoundByAnswer, FoundFirst
  <2> QED BY <2>1, <2>3, <2>4 DEF Inv
<1> QED BY <1>1, <1>2

\* The inductive invariant: which handle is open, what was passed over in a
\* search, what the settings and the fields have come to.
THEOREM ClientsInvariance == Spec => []Inv
BY InitInv, NextInv, PTL DEF Spec

-----------------------------------------------------------------------------
\* The properties.

LEMMA InvReleased == Inv => HandlesReleased
<1> SUFFICES ASSUME Inv PROVE HandlesReleased
  OBVIOUS
<1>1. step = "drop" => ~(step = "atr")
  OBVIOUS
<1> QED BY <1>1 DEF Inv, HandlesHeld, Holding, HandlesReleased

\* A device is used while it is open, and every handle is closed once, on every
\* way out of every program.
THEOREM HandlesAlwaysReleased == Spec => []HandlesReleased
BY ClientsInvariance, InvReleased, PTL

LEMMA InvReported == Inv => SettingsReported
BY DEF Inv, SettingsFollow, SettingsReported

\* The notice to power-cycle follows an acknowledgement, and only one; success is
\* the acknowledgement of everything that was asked for.
THEOREM SettingsAlwaysReported == Spec => []SettingsReported
BY ClientsInvariance, InvReported, PTL

\* The candidates of the settings are what chooseReader chooses from.
LEMMA SettingsChoice ==
    ASSUME TypeOK, program = "settings"
    PROVE  ChooseReader(listed, ~explicit) = IF Candidates # {} THEN First(Candidates) ELSE 0
<1> DEFINE n == Len(listed)
           fallback == ~explicit
           named == NamedUpTo(listed, n)
           present == PresentUpTo(listed, n)
<1>1. n \in Nat /\ listed \in Seq(ReaderInfo) /\ DOMAIN listed = 1..n
  BY ListedIs
<1>2. explicit \in BOOLEAN
  BY DEF TypeOK
<1>3. fallback \in BOOLEAN /\ (fallback <=> ~explicit)
  OBVIOUS
<1>4. Candidates = IF named # {} \/ explicit THEN named ELSE present
  <2>1. named = {i \in {i \in DOMAIN listed : listed[i].present} : listed[i].matches}
    BY <1>1 DEF NamedUpTo
  <2>2. present = {i \in DOMAIN listed : listed[i].present}
    BY <1>1 DEF PresentUpTo
  <2> HIDE DEF named, present
  <2> QED BY <2>1, <2>2 DEF Candidates
<1> HIDE DEF fallback
<1>5. ChooseReader(listed, fallback) = Choice(listed, fallback, n)
  BY <1>1, <1>3, ChooseReaderIs
<1>6. Choice(listed, fallback, n) = IF named # {} THEN First(named)
                                    ELSE IF fallback /\ present # {} THEN First(present) ELSE 0
  BY DEF Choice
<1> HIDE DEF named, present, n
<1>7. CASE explicit
  BY <1>3, <1>4, <1>5, <1>6, <1>7 DEF fallback
<1>8. CASE ~explicit
  BY <1>3, <1>4, <1>5, <1>6, <1>8 DEF fallback
<1> QED BY <1>2, <1>7, <1>8

LEMMA InvChoice == Inv => ChoiceRight
<1> SUFFICES ASSUME Inv PROVE ChoiceRight
  OBVIOUS
<1> DEFINE n == Len(listed)
           using == step \in {"open", "channel", "serial", "sound", "nfc", "close"}
<1>1. /\ TypeOK /\ n \in Nat /\ DOMAIN listed = 1..n /\ explicit \in BOOLEAN
      /\ at \in Nat
      /\ \A i \in 1..n : listed[i].matches \in BOOLEAN
  BY ListedIs DEF Inv, TypeOK
<1>2. using => at # 0
  BY DEF Inv, HandlesHeld, Holding, Devices
<1> DEFINE found == /\ using => Candidates # {} /\ at = First(Candidates)
                    /\ "none" \in err => Candidates = {}
<1>3. ASSUME program = "settings" PROVE found
  <2>1. Candidates \in SUBSET (1..n)
    BY <1>1, <1>3 DEF Candidates
  <2>2. Candidates # {} => First(Candidates) # 0
    <3>1. Candidates \in SUBSET Nat /\ 0 \notin Candidates
      BY <1>1, <2>1
    <3> QED BY <3>1, FirstIs
  <2>3. ChooseReader(listed, ~explicit) = IF Candidates # {} THEN First(Candidates) ELSE 0
    BY <1>1, <1>3, SettingsChoice
  <2>4. /\ using => at = ChooseReader(listed, ~explicit)
        /\ "none" \in err => ChooseReader(listed, ~explicit) = 0
    BY <1>3 DEF Inv, FoundBySettings
  <2> QED BY <1>2, <2>2, <2>3, <2>4
<1>4. ASSUME program = "pcsc" PROVE found
  <2>1. Candidates = {i \in 1..n : explicit => listed[i].matches}
    BY <1>1, <1>4 DEF Candidates
  <2>2. ASSUME using PROVE Candidates # {} /\ at = First(Candidates)
    <3>1. at \in 1..n /\ (explicit => listed[at].matches)
      BY <1>1, <1>2, <1>4, <2>2 DEF Inv, FoundByName
    <3>2. \A i \in 1..n : i < at => explicit /\ ~listed[i].matches
      BY <1>4 DEF Inv, FoundByName
    <3>3. at \in Candidates /\ Candidates \in SUBSET Nat
      BY <1>1, <2>1, <3>1
    <3>4. \A i \in Candidates : at <= i
      BY <1>1, <2>1, <3>2
    <3> QED BY <3>3, <3>4, FirstUnique
  <2>3. ASSUME "none" \in err PROVE Candidates = {}
    <3>1. \A i \in 1..n : explicit /\ ~listed[i].matches
      BY <1>4, <2>3 DEF Inv, FoundByName
    <3> QED BY <2>1, <3>1
  <2> QED BY <2>2, <2>3
<1>5. ASSUME program = "hid", ~explicit PROVE found
  <2>1. Candidates = (1..n) \ refused
    BY <1>1, <1>5 DEF Candidates
  <2>2. ASSUME using PROVE Candidates # {} /\ at = First(Candidates)
    <3>1. step \in {"open", "serial", "close"}
      BY <1>1, <1>5, <2>2, Ways
    <3>2. at \in 1..n /\ refused = 1..(at - 1)
      BY <1>1, <1>2, <1>5, <2>2, <3>1 DEF Inv, FoundByAnswer
    <3>3. at \in Candidates /\ Candidates \in SUBSET Nat /\ \A i \in Candidates : at <= i
      BY <1>1, <2>1, <3>2
    <3> QED BY <3>3, FirstUnique
  <2>3. ASSUME "none" \in err PROVE Candidates = {}
    BY <1>5, <2>1, <2>3 DEF Inv, FoundByAnswer
  <2> QED BY <2>2, <2>3
<1>6. ASSUME program = "ctaphid", ~explicit PROVE found
  <2>1. Candidates = 1..n
    BY <1>1, <1>6 DEF Candidates
  <2>2. ASSUME using PROVE Candidates # {} /\ at = First(Candidates)
    <3>1. at = 1 /\ 1 \in 1..n
      BY <1>1, <1>6, <2>2 DEF Inv, FoundFirst
    <3>2. at \in Candidates /\ Candidates \in SUBSET Nat /\ \A i \in Candidates : at <= i
      BY <1>1, <2>1, <3>1
    <3> QED BY <3>2, FirstUnique
  <2>3. ASSUME "none" \in err PROVE Candidates = {}
    BY <1>1, <1>6, <2>1, <2>3 DEF Inv, FoundFirst
  <2> QED BY <2>2, <2>3
<1> QED BY <1>3, <1>4, <1>5, <1>6 DEF Inv, Searches, ChoiceRight

\* However many readers or devices there are and in whatever order, a program
\* uses the first that it may, and gives up for want of one only if there is none.
THEOREM ChoiceAlwaysRight == Spec => []ChoiceRight
BY ClientsInvariance, InvChoice, PTL

-----------------------------------------------------------------------------
\* ReadDeviceInfo implements Observations.

Wanted == IF program = "info" THEN {"serial"} \cup (IF vendor THEN {"atr"} ELSE {}) ELSE {}
Seen   == IF program = "info" THEN [f \in {"serial", "atr"} |-> info[f]]
          ELSE [f \in {"serial", "atr"} |-> "absent"]

\* What a step comes to, on the observations.
LEMMA Stutters ==
    ASSUME UNCHANGED inputs,
           program = "info" => /\ UNCHANGED <<info, err>>
                               /\ step' = "returned" <=> step = "returned"
    PROVE  UNCHANGED Observed!vars
BY DEF Observed!vars, inputs

LEMMA Observes ==
    ASSUME program = "info", UNCHANGED inputs, NEW f \in {"serial", "atr"},
           f = "atr" => vendor,
           step # "returned", step' # "returned",
           info \in [Fields -> {"absent", "value", "error"}], info[f] = "absent",
           \/ info' = [info EXCEPT ![f] = "value"] /\ err' = err
           \/ info' = [info EXCEPT ![f] = "error"] /\ err' = err \cup {f}
    PROVE  Observed!Observe(f)
<1>1. Seen = [g \in {"serial", "atr"} |-> info[g]] /\ Seen' = [g \in {"serial", "atr"} |-> info'[g]]
  BY DEF Seen, inputs
<1>2. Seen[f] = "absent" /\ f \in Wanted
  BY <1>1 DEF Wanted
<1>3. \/ Seen' = [Seen EXCEPT ![f] = "value"] /\ err' = err
      \/ Seen' = [Seen EXCEPT ![f] = "error"] /\ err' = err \cup {f}
  BY <1>1 DEF Fields
<1> QED BY <1>2, <1>3 DEF Observed!Observe, Seen, Wanted, inputs

LEMMA Interrupts ==
    ASSUME program = "info", UNCHANGED <<inputs, info>>,
           step # "returned", step' # "returned",
           NEW i \in {"close", "context"}, err' = err \cup {i}
    PROVE  Observed!Interrupt(i)
BY DEF Observed!Interrupt, inputs

\* Every field was tried, or the context's error tells why not.
LEMMA Returns ==
    ASSUME Inv, Return
    PROVE  Observed!Return
<1>1. /\ program = "info" /\ step = "return" /\ step' = "returned"
      /\ UNCHANGED <<inputs, info, err>>
  BY Ways DEF Inv, HandlesHeld, Return, GoOn, GoTo
<1>2. /\ info["serial"] # "absent"
      /\ info["atr"] # "absent" \/ ~vendor \/ "context" \in err
  BY <1>1 DEF Inv, FieldsFollow
<1>3. Seen = [f \in {"serial", "atr"} |-> info[f]]
  BY <1>1 DEF Seen
<1>4. \/ \A f \in Wanted : Seen[f] # "absent"
      \/ err \cap {"context"} # {}
  BY <1>1, <1>2, <1>3 DEF Wanted
<1> QED BY <1>1, <1>4 DEF Observed!Return, Seen, Wanted, inputs

\* Of the other programs there is nothing to observe.
LEMMA NextRefines ==
    ASSUME Inv, [Next]_vars
    PROVE  Observed!Next \/ UNCHANGED Observed!vars
<1> USE DEF report
<1>1. UNCHANGED inputs
  BY DEF Next, vars, ParseArguments, FindReader, NextListed, Open, OpenChannel, Read,
         Drop, Set, Notice, Close, CheckVendor, Join, Return, Cancel
<1>2. CASE program # "info"
  BY <1>1, <1>2, Stutters
<1>3. CASE program = "info" /\ Open
  <2>1. CASE /\ step' = "serial" /\ UNCHANGED <<info, err>>
    BY <1>1, <1>3, <2>1, Stutters DEF Open
  <2>2. CASE /\ step' = "vendor"
             /\ info' = [info EXCEPT !["serial"] = "error"] /\ err' = err \cup {"serial"}
    <3>1. info["serial"] = "absent" /\ step # "returned"
      BY <1>3 DEF Open, Inv, FieldsFollow
    <3>2. Observed!Observe("serial")
      BY <1>1, <1>3, <2>2, <3>1, Observes DEF Inv, TypeOK
    <3> QED BY <3>2 DEF Observed!Next
  <2> QED BY <1>3, <2>1, <2>2, Ways DEF Inv, Open, GoOn, GoTo
<1>4. CASE program = "info" /\ Read
  <2>1. /\ step \in {"serial", "atr"} /\ step' \in {"close", "join"}
        /\ info[step] = "absent"
        /\ step = "atr" => vendor
        /\ \/ info' = [info EXCEPT ![step] = "value"] /\ err' = err
           \/ info' = [info EXCEPT ![step] = "error"] /\ err' = err \cup {step}
    BY <1>4, Ways DEF Inv, FieldsFollow, Read, Fields, GoOn, GoTo
  <2>2. ASSUME NEW f \in {"serial", "atr"}, step = f PROVE Observed!Observe(f)
    BY <1>1, <1>4, <2>1, <2>2, Observes DEF Inv, TypeOK
  <2> QED BY <2>1, <2>2 DEF Observed!Next
<1>5. CASE program = "info" /\ Close
  <2>1. /\ step = "close" /\ step' = "vendor" /\ info' = info
        /\ err' = err \/ err' = err \cup {"close"}
    BY <1>5, Ways DEF Inv, Close, GoOn, GoTo
  <2>2. CASE err' = err
    BY <1>1, <2>1, <2>2, Stutters
  <2>3. CASE err' = err \cup {"close"}
    BY <1>1, <1>5, <2>1, <2>3, Interrupts DEF Observed!Next
  <2> QED BY <2>1, <2>2, <2>3
<1>6. CASE program = "info" /\ Join
  <2>1. /\ step = "join" /\ step' = "return" /\ info' = info
        /\ err' = err \/ err' = err \cup {"context"}
    BY <1>6, Ways DEF Inv, Join, GoOn, GoTo
  <2>2. CASE err' = err
    BY <1>1, <2>1, <2>2, Stutters
  <2>3. CASE err' = err \cup {"context"}
    BY <1>1, <1>6, <2>1, <2>3, Interrupts DEF Observed!Next
  <2> QED BY <2>1, <2>2, <2>3
<1>7. CASE Return
  BY <1>7, Returns DEF Observed!Next
<1>8. CASE CheckVendor \/ Cancel \/ UNCHANGED vars
  <2>1. UNCHANGED <<info, err>> /\ (step' = "returned" <=> step = "returned")
    BY <1>8 DEF CheckVendor, GoTo, Cancel, vars
  <2> QED BY <1>1, <2>1, Stutters
<1>9. program = "info" =>
          ~(ParseArguments \/ FindReader \/ NextListed \/ OpenChannel \/ Drop \/ Set \/ Notice)
  BY Ways DEF Inv, HandlesHeld, ParseArguments, FindReader, NextListed, OpenChannel, Drop,
              Set, Notice, Settings
<1> QED BY <1>2, <1>3, <1>4, <1>5, <1>6, <1>7, <1>8, <1>9 DEF Next

\* ReadDeviceInfo over HID implements the independent observations: every field is
\* decided once, and the error joins what went wrong. Nothing but the context is an
\* excuse for a field that was left out.
THEOREM ClientsImplementObservations == Spec => ImplementsObservations
<1>1. Init => Observed!Init
  <2> SUFFICES ASSUME Init PROVE Observed!Init
    OBVIOUS
  <2>1. /\ info = [f \in Fields |-> "absent"] /\ err = {} /\ vendor \in BOOLEAN
        /\ program = "info" => step = "open"
    BY DEF Init
  <2>2. Wanted \in SUBSET {"serial", "atr"} /\ Seen = [f \in {"serial", "atr"} |-> "absent"]
    BY <2>1 DEF Wanted, Seen, Fields
  <2> QED BY <2>1, <2>2 DEF Observed!Init, Wanted, Seen
<1>2. Inv /\ [Next]_vars => [Observed!Next]_(Observed!vars)
  BY NextRefines
<1> QED BY <1>1, <1>2, ClientsInvariance, PTL DEF Spec, ImplementsObservations, Observed!Spec

=============================================================================
