------------------------------ MODULE PcscRead ------------------------------
(***************************************************************************)
(* One transactional method of pcsc.Device against a modelled token: which *)
(* commands it sends, what it finds and what it returns.                   *)
(*                                                                         *)
(* PcscDevice shows that such a method has the card to itself; here the    *)
(* card's answers depend on the firmware, as the releases listed in the    *)
(* README and the tests of transport/pcsc differ: where the serial number  *)
(* is answered, which applets exist, whether there is a configuration.     *)
(* Any command may fail, and the context may be done at any moment.        *)
(***************************************************************************)
EXTENDS PcscProgram

\* A token, as far as the reads can tell: its answers to the serial-number
\* command after SELECT OTP, after the prelude and after SELECT FIDO, to the
\* prelude and to the configuration command, and whether the data parses.
Firmware ==
    [otp: BOOLEAN, fido: BOOLEAN,
     cold: {Success, Unsupported, "other"},
     prelude: {Success, "other"},
     primed: {Success, Unsupported, "other"},
     inFido: {Success, Unsupported},
     config: {Success, "other"},
     atrValid: BOOLEAN, serialParses: BOOLEAN, configParses: BOOLEAN]

CONSTANT Cards      \* the tokens that may be read

ASSUME CardsAssumption == Cards \subseteq Firmware

Fields        == {"serial", "atr", "config"}
Interruptions == {"begin", "context", "end"}
Excuses       == {"begin", "context"}

VARIABLES
    card,       \* the token on the reader
    op,         \* the method
    step,       \* where it is; "idle" is: it has returned
    canceled,   \* its context is done
    applet,     \* the applet selected on the token
    primed,     \* the legacy prelude was accepted since the last SELECT
    outcome,    \* field -> "absent", "value", "refused" or "failed" (no answer)
    err         \* the errors joined into the result

vars == <<card, op, step, canceled, applet, primed, outcome, err>>

TypeOK ==
    /\ card \in Cards
    /\ op \in Transactional
    /\ step = "idle" \/ Fits(op, step)
    /\ canceled \in BOOLEAN
    /\ applet \in Applets
    /\ primed \in BOOLEAN
    /\ outcome \in [Fields -> {"absent", "value", "refused", "failed"}]
    /\ err \subseteq Fields \cup Interruptions

Init ==
    /\ card \in Cards
    /\ op \in Transactional
    /\ step = "begin"
    /\ canceled = FALSE
    /\ applet \in Applets
    /\ primed = FALSE
    /\ outcome = [f \in Fields |-> "absent"]
    /\ err = {}

-----------------------------------------------------------------------------
\* The token.

\* The serial-number command, wherever it is sent.
SerialQueries == {"serial", "serialAfterPrelude", "serialInFIDO"}

\* Commands for the OTP applet mean nothing in another one.
Answer ==
    CASE step \in {"selectOTP", "selectOTPForConfig"} ->
            IF card.otp THEN Success ELSE NotFound
      [] step = "selectFIDO"    -> IF card.fido THEN Success ELSE NotFound
      [] step = "prelude"       -> IF applet = "otp" THEN card.prelude ELSE "other"
      [] step = "configuration" -> IF applet = "otp" THEN card.config ELSE "other"
      [] step \in SerialQueries /\ applet = "fido" -> card.inFido
      [] step \in SerialQueries /\ applet = "otp"  ->
            IF primed THEN card.primed ELSE card.cold
      [] OTHER                  -> "other"

TokenAnswers ==
    IF step \in SelectSteps
    THEN IF Answer = Success
         THEN applet' = Selects(step) /\ primed' = FALSE
         ELSE UNCHANGED <<applet, primed>>
    ELSE /\ primed' = (primed \/ (step = "prelude" /\ Answer = Success))
         /\ UNCHANGED applet

-----------------------------------------------------------------------------
\* The method.

\* The field the current step works for.
Field ==
    CASE step \in SerialSteps        -> "serial"
      [] step = "status"             -> "atr"
      [] step \in ConfigurationSteps -> "config"

Parses == IF Field = "serial" THEN card.serialParses ELSE card.configParses

Conclude(result) ==
    /\ outcome' = [outcome EXCEPT ![Field] = result]
    /\ err' = IF result = "value" THEN err ELSE err \cup {Field}

Begin ==
    /\ step = "begin"
    /\ \/ step' = AfterBegin(op) /\ UNCHANGED err
       \/ step' = "unlock" /\ err' = err \cup {"begin"}
    /\ UNCHANGED <<card, op, canceled, applet, primed, outcome>>

\* A command is answered: a reading that is over with 9000 yields what the
\* parser makes of the data, with another status word the error of APDUError.
Exchange ==
    /\ step \in SerialSteps \cup ConfigurationSteps
    /\ TokenAnswers
    /\ step' = AfterExchange(op, step, Answer)
    /\ IF step' = AfterReading(op, step)
       THEN Conclude(IF Answer = Success /\ Parses THEN "value" ELSE "refused")
       ELSE UNCHANGED <<outcome, err>>
    /\ UNCHANGED <<card, op, canceled>>

\* Transmit returns an error; the token may have handled the command.
ExchangeFails ==
    /\ step \in SerialSteps \cup ConfigurationSteps
    /\ TokenAnswers \/ UNCHANGED <<applet, primed>>
    /\ step' = AfterReading(op, step)
    /\ Conclude("failed")
    /\ UNCHANGED <<card, op, canceled>>

ReadStatus ==
    /\ step = "status"
    /\ \/ Conclude(IF card.atrValid THEN "value" ELSE "refused")
       \/ Conclude("failed")
    /\ step' = AfterReading(op, step)
    /\ UNCHANGED <<card, op, canceled, applet, primed>>

\* Mutant: return token2.DeviceInfo{}, errors.Join(err, ctx.Err()).
CheckContextBlank ==
    /\ step \in CheckSteps
    /\ step' = AfterCheck(op, step, canceled)
    /\ err' = IF canceled THEN err \cup {"context"} ELSE err
    /\ outcome' = IF canceled THEN [f \in Fields |-> "absent"] ELSE outcome
    /\ UNCHANGED <<card, op, canceled, applet, primed>>

\* ReadDeviceInfo looks at its context between two readings, and joins the
\* context's error with those of the readings before.
CheckContext ==
    /\ step \in CheckSteps
    /\ step' = AfterCheck(op, step, canceled)
    /\ err' = IF canceled THEN err \cup {"context"} ELSE err
    /\ UNCHANGED <<card, op, canceled, applet, primed, outcome>>

\* EndTransaction's error joins the result; the values stay.
End ==
    /\ step = "end"
    /\ err' \in {err, err \cup {"end"}}
    /\ step' = "unlock"
    /\ UNCHANGED <<card, op, canceled, applet, primed, outcome>>

Return ==
    /\ step = "unlock"
    /\ step' = "idle"
    /\ UNCHANGED <<card, op, canceled, applet, primed, outcome, err>>

Cancel ==
    /\ ~canceled
    /\ step # "idle"
    /\ canceled' = TRUE
    /\ UNCHANGED <<card, op, step, applet, primed, outcome, err>>

MethodStep ==
    \/ Begin
    \/ Exchange
    \/ ExchangeFails
    \/ ReadStatus
    \/ CheckContext
    \/ End
    \/ Return

Next == MethodStep \/ Cancel

\* Every command is answered or fails, in the end.
Spec == Init /\ [][Next]_vars /\ WF_vars(MethodStep)

-----------------------------------------------------------------------------
\* Properties.

Wanted ==
    CASE op = "SerialNumber"  -> {"serial"}
      [] op = "Configuration" -> {"config"}
      [] op = "DeviceInfo"    -> Fields

\* The serial number of a token, by definition: the first of the three ways to
\* ask for it that is not rejected with 6D00 answers it.
HasSerial(c) ==
    LET ways == << c.cold,
                   IF c.prelude = Success THEN c.primed ELSE Unsupported,
                   IF c.fido THEN c.inFido ELSE NotFound >>
    IN  /\ c.otp
        /\ c.serialParses
        /\ \E i \in 1..3 :
              ways[i] = Success /\ \A j \in 1..(i - 1) : ways[j] = Unsupported

HasConfiguration == card.otp /\ card.config = Success /\ card.configParses

\* ReadSerialNumber finds the serial number of exactly the tokens that have one,
\* through whichever of cold OTP, prelude and FIDO the firmware answers.
SerialFound ==
    /\ outcome["serial"] = "value"   => HasSerial(card)
    /\ outcome["serial"] = "refused" => ~HasSerial(card)

\* The configuration is read the same whatever became of the serial number and
\* the ATR before it, although the serial fallback leaves FIDO selected.
ConfigurationIndependent ==
    /\ outcome["config"] = "value"   => HasConfiguration
    /\ outcome["config"] = "refused" => ~HasConfiguration

\* A value and an error are what a Descriptor shows of an outcome.
Info ==
    [f \in Fields |->
        IF outcome[f] \in {"refused", "failed"} THEN "error" ELSE outcome[f]]

Observed == INSTANCE Observations
                WITH wanted <- Wanted, info <- Info, done <- step = "idle"

\* The methods implement independent observations: no reading is revised or
\* lost, by a later failure, a done context or a failing EndTransaction, a wanted
\* field is missing only if the error has the context's or that of
\* BeginTransaction, and a nil error means that every wanted field has its value.
ImplementsObservations == Observed!Spec

\* Every method returns: the fallbacks of ReadSerialNumber do not repeat.
Terminates == <>(step = "idle")

-----------------------------------------------------------------------------
\* The inductive invariant behind these properties.

\* What ReadSerialNumber and ReadConfiguration have learned of the token when
\* they send the command of a step.
Learned ==
    /\ step \in {"serial", "prelude", "serialAfterPrelude", "selectFIDO",
                "serialInFIDO", "configuration"} => card.otp
    /\ step \in {"serial", "prelude", "serialAfterPrelude", "configuration"}
          => applet = "otp"
    /\ step = "serial" => ~primed
    /\ step \in {"prelude", "serialAfterPrelude", "selectFIDO", "serialInFIDO"}
          => card.cold = Unsupported
    /\ step = "serialAfterPrelude" => card.prelude = Success /\ primed
    /\ step \in {"selectFIDO", "serialInFIDO"} /\ card.prelude = Success
          => card.primed = Unsupported
    /\ step = "serialInFIDO" => card.fido /\ applet = "fido"

\* The fields still to be read at a step, the current one included.
Pending ==
    CASE step \in {"begin"} \cup SerialSteps  -> Wanted
      [] step \in {"checkAfterSerial", "status"} -> {"atr", "config"}
      [] step \in {"checkAfterATR"} \cup ConfigurationSteps -> {"config"}
      [] OTHER -> {}

\* The wanted fields are decided one after the other; a method that is done has
\* decided them all, unless it was interrupted.
InOrder ==
    /\ \A f \in Fields : f \in Pending \/ f \notin Wanted => outcome[f] = "absent"
    /\ \/ \A f \in Wanted \ Pending : outcome[f] # "absent"
       \/ step \in {"end", "unlock", "idle"} /\ err \cap Excuses # {}

Inv ==
    /\ TypeOK
    /\ Learned
    /\ InOrder
    /\ SerialFound
    /\ ConfigurationIndependent

=============================================================================
