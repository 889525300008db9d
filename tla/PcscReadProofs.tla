--------------------------- MODULE PcscReadProofs ---------------------------
(***************************************************************************)
(* Proofs about PcscRead, for any set of tokens: what is read is what the  *)
(* token has, and the methods implement independent observations.          *)
(***************************************************************************)
EXTENDS PcscRead, TLAPS

-----------------------------------------------------------------------------
\* Facts about the operators of the model.

LEMMA CardFields ==
    ASSUME NEW c \in Cards
    PROVE  /\ c \in Firmware
           /\ c.cold \in {Success, Unsupported, "other"}
           /\ c.prelude \in {Success, "other"}
           /\ c.primed \in {Success, Unsupported, "other"}
           /\ c.inFido \in {Success, Unsupported}
           /\ c.config \in {Success, "other"}
BY CardsAssumption DEF CardsAssumption, Firmware

\* The three ways to the serial number, written out.
LEMMA SerialWays ==
    ASSUME NEW c \in Cards
    PROVE  HasSerial(c) <=>
             /\ c.otp
             /\ c.serialParses
             /\ \/ c.cold = Success
                \/ /\ c.cold = Unsupported
                   /\ c.prelude = Success
                   /\ c.primed = Success
                \/ /\ c.cold = Unsupported
                   /\ c.prelude = Success => c.primed = Unsupported
                   /\ c.fido
                   /\ c.inFido = Success
<1> DEFINE way1 == c.cold
           way2 == IF c.prelude = Success THEN c.primed ELSE Unsupported
           way3 == IF c.fido THEN c.inFido ELSE NotFound
           ways == <<way1, way2, way3>>
<1>1. ways[1] = way1 /\ ways[2] = way2 /\ ways[3] = way3
  OBVIOUS
<1>2. HasSerial(c) <=>
        /\ c.otp
        /\ c.serialParses
        /\ \E i \in 1..3 : ways[i] = Success /\ \A j \in 1..(i - 1) : ways[j] = Unsupported
  BY DEF HasSerial
<1> HIDE DEF ways
<1>3. (\E i \in 1..3 : ways[i] = Success /\ \A j \in 1..(i - 1) : ways[j] = Unsupported)
        <=> \/ ways[1] = Success
            \/ ways[2] = Success /\ ways[1] = Unsupported
            \/ ways[3] = Success /\ ways[1] = Unsupported /\ ways[2] = Unsupported
  <2>1. 1..3 = {1, 2, 3} /\ 1..(1 - 1) = {} /\ 1..(2 - 1) = {1} /\ 1..(3 - 1) = {1, 2}
    OBVIOUS
  <2>2. ASSUME NEW i \in 1..3,
               ways[i] = Success /\ \A j \in 1..(i - 1) : ways[j] = Unsupported
        PROVE  \/ ways[1] = Success
               \/ ways[2] = Success /\ ways[1] = Unsupported
               \/ ways[3] = Success /\ ways[1] = Unsupported /\ ways[2] = Unsupported
    BY <2>1, <2>2
  <2> QED BY <2>1, <2>2
<1>4. way2 = Success <=> c.prelude = Success /\ c.primed = Success
  BY DEF Success, Unsupported
<1>5. way2 = Unsupported <=> (c.prelude = Success => c.primed = Unsupported)
  OBVIOUS
<1>6. way3 = Success <=> c.fido /\ c.inFido = Success
  BY DEF Success, NotFound
<1> HIDE DEF way1, way2, way3
<1>7. HasSerial(c) <=>
        /\ c.otp
        /\ c.serialParses
        /\ \/ way1 = Success
           \/ way2 = Success /\ way1 = Unsupported
           \/ way3 = Success /\ way1 = Unsupported /\ way2 = Unsupported
  BY <1>1, <1>2, <1>3
<1> QED BY <1>4, <1>5, <1>6, <1>7 DEF way1

\* A method is at a step of its own.
LEMMA Placed ==
    ASSUME TypeOK
    PROVE  /\ op \in {"Configuration", "SerialNumber", "DeviceInfo"}
           /\ step = "configuration" \/ step = "selectOTPForConfig" => op # "SerialNumber"
           /\ step \in SerialSteps => op # "Configuration"
           /\ step \in {"status", "checkAfterSerial", "checkAfterATR"} => op = "DeviceInfo"
           /\ step \in CheckSteps => step # "checkBeforeATR"
BY DEF TypeOK, Fits, Operations, Transactional, Settings, SerialSteps, ConfigurationSteps,
       ReadSteps, CheckSteps

\* A reading that is over leaves its field, and no other, behind.
LEMMA OneLess ==
    ASSUME TypeOK, step \in SerialSteps \cup ConfigurationSteps \cup {"status"},
           step' = AfterReading(op, step), op' = op
    PROVE  /\ Field \in Pending
           /\ Pending' = Pending \ {Field}
           /\ Field \in Wanted
<1>1. CASE step \in SerialSteps
  BY <1>1, Placed DEF Field, Pending, Wanted, AfterReading, Settings, SerialSteps,
     ConfigurationSteps, Fields
<1>2. CASE step \in ConfigurationSteps
  BY <1>2, Placed DEF Field, Pending, Wanted, AfterReading, Settings, SerialSteps,
     ConfigurationSteps, Fields
<1>3. CASE step = "status"
  BY <1>3, Placed DEF Field, Pending, Wanted, AfterReading, Settings, SerialSteps,
     ConfigurationSteps, Fields
<1> QED BY <1>1, <1>2, <1>3

\* What the token answers to the command of a step.
LEMMA Answers ==
    ASSUME Inv
    PROVE  /\ step \in {"selectOTP", "selectOTPForConfig"} =>
                Answer = IF card.otp THEN Success ELSE NotFound
           /\ step = "serial" => Answer = card.cold
           /\ step = "prelude" => Answer = card.prelude
           /\ step = "serialAfterPrelude" => Answer = card.primed
           /\ step = "selectFIDO" => Answer = IF card.fido THEN Success ELSE NotFound
           /\ step = "serialInFIDO" => Answer = card.inFido
           /\ step = "configuration" => Answer = card.config
<1>1. ASSUME step \in {"selectOTP", "selectOTPForConfig"}
      PROVE  Answer = IF card.otp THEN Success ELSE NotFound
  BY <1>1 DEF SerialQueries, Answer
<1>2. ASSUME step = "serial"
      PROVE  Answer = card.cold
  BY <1>2 DEF SerialQueries, Answer, Inv, Learned
<1>3. ASSUME step = "prelude"
      PROVE  Answer = card.prelude
  BY <1>3 DEF SerialQueries, Answer, Inv, Learned
<1>4. ASSUME step = "serialAfterPrelude"
      PROVE  Answer = card.primed
  BY <1>4 DEF SerialQueries, Answer, Inv, Learned
<1>5. ASSUME step = "selectFIDO"
      PROVE  Answer = IF card.fido THEN Success ELSE NotFound
  BY <1>5 DEF SerialQueries, Answer
<1>6. ASSUME step = "serialInFIDO"
      PROVE  Answer = card.inFido
  BY <1>6 DEF SerialQueries, Answer, Inv, Learned
<1>7. ASSUME step = "configuration"
      PROVE  Answer = card.config
  BY <1>7 DEF SerialQueries, Answer, Inv, Learned
<1> QED BY <1>1, <1>2, <1>3, <1>4, <1>5, <1>6, <1>7

\* An exchange within a reading: what the answer says of the token.
LEMMA ReadingContinues ==
    ASSUME Inv, step \in SerialSteps \cup ConfigurationSteps,
           step' = AfterExchange(op, step, Answer), step' # AfterReading(op, step)
    PROVE  \/ step = "selectOTP" /\ step' = "serial" /\ card.otp /\ Answer = Success
           \/ step = "serial" /\ step' = "prelude" /\ card.cold = Unsupported
           \/ step = "prelude" /\ step' = "serialAfterPrelude" /\ card.prelude = Success
                 /\ Answer = Success
           \/ step = "prelude" /\ step' = "selectFIDO" /\ card.prelude # Success
           \/ step = "serialAfterPrelude" /\ step' = "selectFIDO"
                 /\ card.primed = Unsupported
           \/ step = "selectFIDO" /\ step' = "serialInFIDO" /\ card.fido
                 /\ Answer = Success
           \/ step = "selectOTPForConfig" /\ step' = "configuration" /\ card.otp
                 /\ Answer = Success
<1>1. \/ step = "selectOTP" /\ step' = "serial" /\ Answer = Success
      \/ step = "serial" /\ step' = "prelude" /\ Answer = Unsupported
      \/ step = "prelude" /\ step' = "serialAfterPrelude" /\ Answer = Success
      \/ step = "prelude" /\ step' = "selectFIDO" /\ Answer # Success
      \/ step = "serialAfterPrelude" /\ step' = "selectFIDO" /\ Answer = Unsupported
      \/ step = "selectFIDO" /\ step' = "serialInFIDO" /\ Answer = Success
      \/ step = "selectOTPForConfig" /\ step' = "configuration" /\ Answer = Success
  BY DEF AfterExchange, SerialSteps, ConfigurationSteps
<1> QED BY <1>1, Answers DEF Success, NotFound

\* The verdict of a reading: its last answer decides what it is to decide.
LEMMA VerdictRight ==
    ASSUME Inv, step \in SerialSteps \cup ConfigurationSteps,
           AfterExchange(op, step, Answer) = AfterReading(op, step)
    PROVE  /\ Field = "serial" => (Answer = Success /\ Parses <=> HasSerial(card))
           /\ Field = "config" => (Answer = Success /\ Parses <=> HasConfiguration)
<1>1. /\ AfterReading(op, step) \in {"checkAfterSerial", "checkAfterATR", "unlock", "end"}
      /\ card \in Cards
  BY DEF AfterReading, Inv, TypeOK
<1>2. CASE step \in SerialSteps
  <2>1. Field = "serial" /\ Parses = card.serialParses
    BY <1>2 DEF Field, Parses, SerialSteps, ConfigurationSteps
  <2>2. \/ step = "selectOTP" /\ Answer # Success
        \/ step = "serial" /\ Answer # Unsupported
        \/ step = "serialAfterPrelude" /\ Answer # Unsupported
        \/ step = "selectFIDO" /\ Answer # Success
        \/ step = "serialInFIDO"
    BY <1>1, <1>2 DEF AfterExchange, SerialSteps
  <2>3. /\ card.inFido \in {Success, Unsupported}
        /\ Success # Unsupported /\ Success # NotFound
    BY <1>1, CardFields DEF Success, Unsupported, NotFound
  <2>4. CASE step = "selectOTP"
    BY <1>1, <2>1, <2>2, <2>3, <2>4, Answers, SerialWays
  <2>5. CASE step = "serial"
    BY <1>1, <2>1, <2>2, <2>3, <2>5, Answers, SerialWays DEF Inv, Learned
  <2>6. CASE step = "serialAfterPrelude"
    BY <1>1, <2>1, <2>2, <2>3, <2>6, Answers, SerialWays DEF Inv, Learned
  <2>7. CASE step = "selectFIDO"
    BY <1>1, <2>1, <2>2, <2>3, <2>7, Answers, SerialWays DEF Inv, Learned
  <2>8. CASE step = "serialInFIDO"
    BY <1>1, <2>1, <2>3, <2>8, Answers, SerialWays DEF Inv, Learned
  <2>9. Field # "config"
    BY <2>1
  <2> QED BY <2>1, <2>2, <2>4, <2>5, <2>6, <2>7, <2>8, <2>9
<1>3. CASE step \in ConfigurationSteps
  <2>1. Field = "config" /\ Parses = card.configParses
    BY <1>3 DEF Field, Parses, SerialSteps, ConfigurationSteps
  <2>2. \/ step = "selectOTPForConfig" /\ Answer # Success
        \/ step = "configuration"
    BY <1>1, <1>3 DEF AfterExchange, ConfigurationSteps
  <2>3. CASE step = "selectOTPForConfig"
    BY <2>1, <2>2, <2>3, Answers DEF HasConfiguration
  <2>4. CASE step = "configuration"
    BY <2>1, <2>4, Answers DEF HasConfiguration, Inv, Learned
  <2> QED BY <2>1, <2>2, <2>3, <2>4
<1> QED BY <1>2, <1>3

-----------------------------------------------------------------------------
\* The invariant holds initially and every action preserves it.

LEMMA InitInv == ASSUME Init PROVE Inv
<1>1. TypeOK
  BY DEF Init, TypeOK, Fits, Transactional, Operations
<1>2. Learned
  BY DEF Init, Learned
<1>3. InOrder
  <2>1. Pending = Wanted
    BY DEF Init, Pending, SerialSteps, ConfigurationSteps
  <2> QED BY <2>1 DEF Init, InOrder
<1>4. SerialFound /\ ConfigurationIndependent
  BY DEF Init, SerialFound, ConfigurationIndependent, Fields
<1> QED BY <1>1, <1>2, <1>3, <1>4 DEF Inv

\* A step that decides nothing.
LEMMA UndecidedInv ==
    ASSUME Inv, UNCHANGED <<card, op, outcome>>, TypeOK', Learned', InOrder'
    PROVE  Inv'
BY DEF Inv, SerialFound, ConfigurationIndependent, HasConfiguration, HasSerial

LEMMA SamePending ==
    ASSUME InOrder, UNCHANGED <<op, outcome>>, Pending' = Pending, err \subseteq err',
           step \in {"end", "unlock", "idle"} => step' \in {"end", "unlock", "idle"}
    PROVE  InOrder'
<1>1. Wanted' = Wanted /\ outcome' = outcome
  BY DEF Wanted
<1> QED BY <1>1 DEF InOrder

LEMMA Interrupted ==
    ASSUME InOrder, UNCHANGED <<op, outcome>>,
           step' \in {"end", "unlock"}, err' \cap Excuses # {}
    PROVE  InOrder'
<1>1. Wanted' = Wanted /\ outcome' = outcome /\ Pending' = {}
  BY DEF Wanted, Pending, SerialSteps, ConfigurationSteps
<1> QED BY <1>1 DEF InOrder

LEMMA BeginInv == ASSUME Inv, Begin PROVE Inv'
<1> USE DEF Begin
<1>1. TypeOK'
  BY DEF Inv, TypeOK, AfterBegin, Fits, Transactional, Operations, SerialSteps,
     ConfigurationSteps, Interruptions
<1>2. Learned'
  BY DEF AfterBegin, Learned
<1>3. InOrder'
  <2>1. CASE step' = AfterBegin(op) /\ err' = err
    <3>1. Pending = Wanted
      BY DEF Pending, SerialSteps, ConfigurationSteps
    <3>2. \/ op = "Configuration" /\ step' = "selectOTPForConfig" /\ Pending' = {"config"}
          \/ step' = "selectOTP" /\ Pending' = Wanted
      BY <2>1, Placed DEF AfterBegin, Inv, Pending, SerialSteps, ConfigurationSteps, Wanted
    <3>3. Pending' = Pending
      BY <3>1, <3>2 DEF Wanted
    <3> QED BY <3>3, SamePending DEF Inv
  <2>2. CASE step' = "unlock" /\ err' = err \cup {"begin"}
    BY <2>2, Interrupted DEF Inv, Excuses
  <2> QED BY <2>1, <2>2
<1> QED BY <1>1, <1>2, <1>3, UndecidedInv

\* A reading is over.
LEMMA ConcludeInv ==
    ASSUME Inv, step \in SerialSteps \cup ConfigurationSteps \cup {"status"},
           step' = AfterReading(op, step), UNCHANGED <<card, op, canceled>>,
           applet' \in Applets, primed' \in BOOLEAN,
           NEW result \in {"value", "refused", "failed"}, Conclude(result),
           Field = "serial" => /\ result = "value" => HasSerial(card)
                               /\ result = "refused" => ~HasSerial(card),
           Field = "config" => /\ result = "value" => HasConfiguration
                               /\ result = "refused" => ~HasConfiguration
    PROVE  Inv'
<1>1. /\ Field \in Pending /\ Field \in Wanted /\ Field \in Fields
      /\ Pending' = Pending \ {Field}
      /\ Wanted' = Wanted
  BY OneLess DEF Inv, Wanted, Field, Fields
<1>2. /\ step' \in {"checkAfterSerial", "checkAfterATR", "end"}
      /\ Fits(op, step')
  BY Placed DEF Inv, AfterReading, Settings, Fits, Transactional, Operations, ReadSteps,
     SerialSteps, ConfigurationSteps
<1>3. /\ outcome' = [outcome EXCEPT ![Field] = result]
      /\ err' \in SUBSET (Fields \cup Interruptions)
      /\ outcome \in [Fields -> {"absent", "value", "refused", "failed"}]
  BY <1>1 DEF Conclude, Inv, TypeOK
<1>4. TypeOK'
  BY <1>2, <1>3 DEF Inv, TypeOK
<1>5. Learned'
  BY <1>2 DEF Learned
<1>6. InOrder'
  <2>1. step \notin {"end", "unlock", "idle"}
    BY DEF SerialSteps, ConfigurationSteps
  <2>2. \A f \in Fields : outcome'[f] = IF f = Field THEN result ELSE outcome[f]
    BY <1>3
  <2>3. Wanted \subseteq Fields
    BY Placed DEF Inv, Wanted, Fields
  <2>4. \A f \in Wanted \ Pending : outcome[f] # "absent"
    BY <2>1 DEF Inv, InOrder
  <2>5. \A f \in Fields : f \in Pending \/ f \notin Wanted => outcome[f] = "absent"
    BY DEF Inv, InOrder
  <2>6. \A f \in Fields : f \in Pending' \/ f \notin Wanted' => outcome'[f] = "absent"
    BY <1>1, <2>2, <2>5
  <2>7. \A f \in Wanted' \ Pending' : outcome'[f] # "absent"
    BY <1>1, <2>2, <2>3, <2>4
  <2> QED BY <2>6, <2>7 DEF InOrder
<1>7. SerialFound'
  BY <1>1, <1>3 DEF Inv, SerialFound, HasSerial, Fields
<1>8. ConfigurationIndependent'
  BY <1>1, <1>3 DEF Inv, ConfigurationIndependent, HasConfiguration, Fields
<1> QED BY <1>4, <1>5, <1>6, <1>7, <1>8 DEF Inv

\* The token changes nothing but what is selected and primed.
LEMMA TokenTypes ==
    ASSUME TypeOK, TokenAnswers \/ UNCHANGED <<applet, primed>>
    PROVE  applet' \in Applets /\ primed' \in BOOLEAN
BY DEF TypeOK, TokenAnswers, Selects, Applets, SelectSteps

LEMMA ExchangeInv == ASSUME Inv, Exchange PROVE Inv'
<1>1. applet' \in Applets /\ primed' \in BOOLEAN
  BY TokenTypes DEF Exchange, Inv
<1>2. CASE step' = AfterReading(op, step)
  <2> DEFINE result == IF Answer = Success /\ Parses THEN "value" ELSE "refused"
  <2>1. Conclude(result) /\ result \in {"value", "refused", "failed"}
    BY <1>2 DEF Exchange
  <2>2. /\ Field = "serial" => (Answer = Success /\ Parses <=> HasSerial(card))
        /\ Field = "config" => (Answer = Success /\ Parses <=> HasConfiguration)
    BY <1>2, VerdictRight DEF Exchange
  <2> QED BY <1>1, <1>2, <2>1, <2>2, ConcludeInv DEF Exchange
<1>3. CASE step' # AfterReading(op, step)
  <2>1. UNCHANGED <<card, op, canceled, outcome, err>>
    BY <1>3 DEF Exchange
  <2>2. \/ step = "selectOTP" /\ step' = "serial" /\ card.otp /\ Answer = Success
        \/ step = "serial" /\ step' = "prelude" /\ card.cold = Unsupported
        \/ step = "prelude" /\ step' = "serialAfterPrelude" /\ card.prelude = Success
              /\ Answer = Success
        \/ step = "prelude" /\ step' = "selectFIDO" /\ card.prelude # Success
        \/ step = "serialAfterPrelude" /\ step' = "selectFIDO" /\ card.primed = Unsupported
        \/ step = "selectFIDO" /\ step' = "serialInFIDO" /\ card.fido /\ Answer = Success
        \/ step = "selectOTPForConfig" /\ step' = "configuration" /\ card.otp
              /\ Answer = Success
    BY <1>3, ReadingContinues DEF Exchange
  <2>3. TypeOK'
    <3>1. Fits(op, step')
      BY <2>2, Placed DEF Inv, Fits, Operations, Transactional, SerialSteps,
         ConfigurationSteps
    <3> QED BY <1>1, <2>1, <3>1 DEF Inv, TypeOK
  <2>4. Learned'
    <3>1. TokenAnswers
      BY DEF Exchange
    <3>2. CASE step \in SelectSteps
      BY <2>1, <2>2, <3>1, <3>2 DEF TokenAnswers, Selects, SelectSteps, Inv, Learned
    <3>3. CASE step \notin SelectSteps
      <4>1. /\ applet' = applet
            /\ primed' = (primed \/ (step = "prelude" /\ Answer = Success))
        BY <3>1, <3>3 DEF TokenAnswers
      <4>2. CASE step = "serial"
        BY <2>1, <2>2, <4>1, <4>2 DEF Inv, Learned
      <4>3. CASE step = "prelude"
        BY <2>1, <2>2, <4>1, <4>3 DEF Inv, Learned
      <4>4. CASE step = "serialAfterPrelude"
        BY <2>1, <2>2, <4>1, <4>4 DEF Inv, Learned
      <4> QED BY <2>2, <3>3, <4>2, <4>3, <4>4 DEF SelectSteps
    <3> QED BY <3>2, <3>3
  <2>5. InOrder'
    <3>1. \/ step \in SerialSteps /\ step' \in SerialSteps
          \/ step \in ConfigurationSteps /\ step' \in ConfigurationSteps
      BY <2>2 DEF SerialSteps, ConfigurationSteps
    <3>2. Wanted' = Wanted
      BY <2>1 DEF Wanted
    <3>3. ASSUME step \in SerialSteps, step' \in SerialSteps
          PROVE  Pending' = Pending
      BY <3>2, <3>3 DEF Pending, SerialSteps, ConfigurationSteps
    <3>4. ASSUME step \in ConfigurationSteps, step' \in ConfigurationSteps
          PROVE  Pending' = Pending
      BY <3>4 DEF Pending, SerialSteps, ConfigurationSteps
    <3>5. Pending' = Pending
      BY <3>1, <3>3, <3>4
    <3> QED BY <2>1, <2>2, <3>5, SamePending DEF Inv
  <2> QED BY <2>1, <2>3, <2>4, <2>5, UndecidedInv
<1> QED BY <1>2, <1>3

LEMMA ExchangeFailsInv == ASSUME Inv, ExchangeFails PROVE Inv'
<1>1. applet' \in Applets /\ primed' \in BOOLEAN
  BY TokenTypes DEF ExchangeFails, Inv
<1> QED BY <1>1, ConcludeInv DEF ExchangeFails

LEMMA ReadStatusInv == ASSUME Inv, ReadStatus PROVE Inv'
<1>1. applet' \in Applets /\ primed' \in BOOLEAN /\ Field = "atr"
  BY DEF ReadStatus, Inv, TypeOK, Field, SerialSteps, ConfigurationSteps
<1>2. \E result \in {"value", "refused", "failed"} : Conclude(result)
  BY DEF ReadStatus
<1> QED BY <1>1, <1>2, ConcludeInv DEF ReadStatus

LEMMA CheckContextInv == ASSUME Inv, CheckContext PROVE Inv'
<1>1. /\ op = "DeviceInfo" /\ step \in {"checkAfterSerial", "checkAfterATR"}
      /\ UNCHANGED <<card, op, canceled, applet, primed, outcome>>
  BY Placed DEF CheckContext, CheckSteps, Inv, ReadSteps, TypeOK, Fits, SerialSteps,
     ConfigurationSteps, Operations, Settings
<1>2. TypeOK'
  <2>1. Fits(op, step')
    BY <1>1 DEF CheckContext, AfterCheck, Fits, Operations, Transactional, ReadSteps,
       ConfigurationSteps
  <2>2. err' \subseteq Fields \cup Interruptions
    BY DEF CheckContext, Inv, TypeOK, Interruptions
  <2> QED BY <1>1, <2>1, <2>2 DEF Inv, TypeOK
<1>3. Learned'
  BY <1>1 DEF CheckContext, AfterCheck, Learned
<1>4. InOrder'
  <2>1. CASE canceled
    BY <1>1, <2>1, Interrupted DEF CheckContext, AfterCheck, Inv, Interruptions, Excuses
  <2>2. CASE ~canceled
    <3>1. \/ step = "checkAfterSerial" /\ step' = "status"
          \/ step = "checkAfterATR" /\ step' = "selectOTPForConfig"
      BY <1>1, <2>2 DEF CheckContext, AfterCheck
    <3>2. Pending' = Pending
      BY <3>1 DEF Pending, SerialSteps, ConfigurationSteps
    <3> QED BY <1>1, <2>2, <3>1, <3>2, SamePending DEF CheckContext, Inv
  <2> QED BY <2>1, <2>2
<1> QED BY <1>1, <1>2, <1>3, <1>4, UndecidedInv

LEMMA EndInv == ASSUME Inv, End \/ Return PROVE Inv'
<1>1. /\ step \in {"end", "unlock"} /\ step' \in {"unlock", "idle"}
      /\ UNCHANGED <<card, op, canceled, applet, primed, outcome>>
      /\ err \subseteq err' /\ err' \subseteq err \cup {"end"}
  BY DEF End, Return
<1>2. TypeOK'
  BY <1>1, Placed DEF End, Return, Inv, TypeOK, Fits, Operations, Transactional, Interruptions
<1>3. Learned'
  BY <1>1 DEF Learned
<1>4. InOrder'
  <2>1. Pending = {} /\ Pending' = {}
    BY <1>1 DEF Pending, SerialSteps, ConfigurationSteps
  <2> QED BY <1>1, <2>1, SamePending DEF Inv
<1> QED BY <1>1, <1>2, <1>3, <1>4, UndecidedInv

LEMMA CancelInv == ASSUME Inv, Cancel \/ UNCHANGED vars PROVE Inv'
<1>1. UNCHANGED <<card, op, step, applet, primed, outcome, err>>
  BY DEF Cancel, vars
<1>2. TypeOK'
  BY <1>1 DEF Cancel, vars, Inv, TypeOK
<1>3. Learned'
  BY <1>1 DEF Inv, Learned
<1>4. InOrder'
  <2>1. Pending' = Pending
    BY <1>1 DEF Pending, Wanted
  <2> QED BY <1>1, <2>1, SamePending DEF Inv
<1> QED BY <1>1, <1>2, <1>3, <1>4, UndecidedInv

LEMMA NextInv == Inv /\ [Next]_vars => Inv'
BY BeginInv, ExchangeInv, ExchangeFailsInv, ReadStatusInv, CheckContextInv, EndInv, CancelInv
   DEF Next, MethodStep

-----------------------------------------------------------------------------
\* A method knows at every step what it has learned of the token, and decides its
\* fields in order.
THEOREM ReadInvariance == Spec => []Inv
<1>1. Init => Inv
  BY InitInv
<1> QED BY <1>1, NextInv, PTL DEF Spec

\* ReadSerialNumber finds the serial number of exactly the tokens that have one,
\* whatever ways to it the firmware knows.
THEOREM SerialAlwaysFound == Spec => []SerialFound
<1>1. Inv => SerialFound
  BY DEF Inv
<1> QED BY <1>1, ReadInvariance, PTL

\* ReadConfiguration finds the configuration of exactly the tokens that have one,
\* although the reading of the serial number may leave another applet selected.
THEOREM ConfigurationAlwaysIndependent == Spec => []ConfigurationIndependent
<1>1. Inv => ConfigurationIndependent
  BY DEF Inv
<1> QED BY <1>1, ReadInvariance, PTL

-----------------------------------------------------------------------------
\* How each step of a method looks to its caller's observations.

Abstract == Observed!Next \/ UNCHANGED <<Wanted, Info, err, step = "idle">>

\* What does not touch the result is not observed.
LEMMA Unobserved ==
    ASSUME UNCHANGED <<op, outcome, err>>, step' = "idle" <=> step = "idle"
    PROVE  Abstract
BY DEF Abstract, Wanted, Info

\* An error that belongs to no field.
LEMMA InterruptRefines ==
    ASSUME step # "idle", step' # "idle", UNCHANGED <<op, outcome>>,
           NEW i \in Interruptions, err' = err \cup {i}
    PROVE  Abstract
<1>1. Wanted' = Wanted /\ Info' = Info
  BY DEF Wanted, Info
<1> QED BY <1>1 DEF Abstract, Observed!Next, Observed!Interrupt

LEMMA ConcludeRefines ==
    ASSUME Inv, Inv', step \in SerialSteps \cup ConfigurationSteps \cup {"status"},
           step' = AfterReading(op, step), op' = op,
           NEW result \in {"value", "refused", "failed"}, Conclude(result)
    PROVE  Abstract
<1>1. /\ Field \in Fields /\ Field \in Wanted
      /\ outcome[Field] = "absent"
      /\ Wanted' = Wanted
  BY OneLess DEF Inv, InOrder, Wanted, Field, Fields
<1>2. /\ outcome' = [outcome EXCEPT ![Field] = result]
      /\ outcome \in [Fields -> {"absent", "value", "refused", "failed"}]
  BY DEF Conclude, Inv, TypeOK
<1>3. Info[Field] = "absent"
  BY <1>1 DEF Info
<1>4. Info' = [Info EXCEPT ![Field] = IF result = "value" THEN "value" ELSE "error"]
  BY <1>1, <1>2 DEF Info
<1>5. step # "idle" /\ step' # "idle"
  BY DEF SerialSteps, ConfigurationSteps, AfterReading
<1>6. err' = IF result = "value" THEN err ELSE err \cup {Field}
  BY DEF Conclude
<1>7. Observed!Observe(Field)
  BY <1>1, <1>3, <1>4, <1>5, <1>6 DEF Observed!Observe
<1> QED BY <1>1, <1>7 DEF Abstract, Observed!Next

LEMMA ExchangeRefines == ASSUME Inv, Inv', Exchange PROVE Abstract
<1>1. CASE step' = AfterReading(op, step)
  <2> DEFINE result == IF Answer = Success /\ Parses THEN "value" ELSE "refused"
  <2>1. Conclude(result) /\ result \in {"value", "refused", "failed"}
    BY <1>1 DEF Exchange
  <2> QED BY <1>1, <2>1, ConcludeRefines DEF Exchange
<1>2. CASE step' # AfterReading(op, step)
  <2>1. step # "idle" /\ step' # "idle"
    BY <1>2, ReadingContinues DEF Exchange, SerialSteps, ConfigurationSteps
  <2> QED BY <1>2, <2>1, Unobserved DEF Exchange
<1> QED BY <1>1, <1>2

LEMMA ReturnRefines == ASSUME Inv, Return PROVE Abstract
<1>1. Wanted' = Wanted /\ Info' = Info /\ err' = err
  BY DEF Return, Wanted, Info
<1>2. (\A f \in Wanted : Info[f] # "absent") \/ err \cap Excuses # {}
  <2>1. Pending = {} /\ Wanted \subseteq Fields
    BY Placed DEF Return, Inv, Pending, SerialSteps, ConfigurationSteps, Wanted, Fields
  <2> QED BY <2>1 DEF Inv, InOrder, Info
<1>3. Observed!Return
  BY <1>1, <1>2 DEF Return, Observed!Return
<1> QED BY <1>3 DEF Abstract, Observed!Next

LEMMA NextRefines == ASSUME Inv, Inv', [Next]_vars PROVE Abstract
<1>1. CASE Begin
  <2>1. AfterBegin(op) # "idle"
    BY DEF AfterBegin
  <2>2. CASE err' = err
    BY <1>1, <2>1, <2>2, Unobserved DEF Begin
  <2>3. CASE step' = "unlock" /\ err' = err \cup {"begin"}
    BY <1>1, <2>3, InterruptRefines DEF Begin, Interruptions
  <2> QED BY <1>1, <2>2, <2>3 DEF Begin
<1>2. CASE Exchange
  BY <1>2, ExchangeRefines
<1>3. CASE ExchangeFails
  BY <1>3, ConcludeRefines DEF ExchangeFails
<1>4. CASE ReadStatus
  BY <1>4, ConcludeRefines DEF ReadStatus
<1>5. CASE CheckContext
  <2>1. step # "idle" /\ step' # "idle"
    BY <1>5 DEF CheckContext, CheckSteps, AfterCheck
  <2>2. CASE canceled
    BY <1>5, <2>1, <2>2, InterruptRefines DEF CheckContext, Interruptions
  <2>3. CASE ~canceled
    BY <1>5, <2>1, <2>3, Unobserved DEF CheckContext
  <2> QED BY <2>2, <2>3
<1>6. CASE End
  <2>1. CASE err' = err
    BY <1>6, <2>1, Unobserved DEF End
  <2>2. CASE err' = err \cup {"end"}
    BY <1>6, <2>2, InterruptRefines DEF End, Interruptions
  <2> QED BY <1>6, <2>1, <2>2 DEF End
<1>7. CASE Return
  BY <1>7, ReturnRefines
<1>8. CASE Cancel \/ UNCHANGED vars
  BY <1>8, Unobserved DEF Cancel, vars
<1> QED BY <1>1, <1>2, <1>3, <1>4, <1>5, <1>6, <1>7, <1>8 DEF Next, MethodStep

LEMMA InitRefines == ASSUME Init PROVE Observed!Init
<1>1. Wanted \in SUBSET Fields
  BY DEF Init, Transactional, Wanted, Fields
<1>2. Info = [f \in Fields |-> "absent"]
  BY DEF Init, Info
<1> QED BY <1>1, <1>2 DEF Init, Observed!Init

\* The three methods implement independent observations: a field is decided once,
\* its error joins the result, and nothing that happens later takes it back.
THEOREM ReadImplementsObservations == Spec => ImplementsObservations
<1>1. Init => Observed!Init
  BY InitRefines
<1>2. Inv /\ Inv' /\ [Next]_vars => [Observed!Next]_(Observed!vars)
  BY NextRefines DEF Abstract, Observed!vars
<1> QED BY <1>1, <1>2, ReadInvariance, PTL DEF Spec, ImplementsObservations, Observed!Spec

=============================================================================
