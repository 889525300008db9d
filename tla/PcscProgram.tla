---------------------------- MODULE PcscProgram ----------------------------
(***************************************************************************)
(* The control flow of the Token2 PC/SC reads, as pure operators.          *)
(*                                                                         *)
(* A call of transport/pcsc is a walk through named steps. A card step     *)
(* sends one APDU through exchange and branches on the final status word;  *)
(* the other steps lock, begin, check the context, read the card status,   *)
(* end or unlock. The tables below are used by PcscDevice (many calls, one *)
(* card, nondeterministic status words) and by PcscRead (one call, a       *)
(* modelled firmware).                                                     *)
(***************************************************************************)
EXTENDS Naturals

\* The public operations of Device that use the card. SetReaderSoundLevel with
\* an out-of-range level returns before it touches the Device, so it is not a
\* step of anything.
Transactional == {"Configuration", "SerialNumber", "DeviceInfo"}
Settings      == {"SetReaderSoundLevel", "SetReaderNFC"}
Operations    == Transactional \cup Settings \cup {"ATR"}

\* The status words the code tells apart. 61xx and 9Fxx announce more response
\* data and are consumed by iso7816.Exchange; "other" stands for the rest.
Success      == "9000"
NotFound     == "6A82"
Unsupported  == "6D00"
MoreData     == "61xx"
FinalStatus  == {Success, NotFound, Unsupported, "other"}
StatusWords  == FinalStatus \cup {MoreData}

SerialSteps ==
    {"selectOTP", "serial", "prelude", "serialAfterPrelude",
     "selectFIDO", "serialInFIDO"}

ConfigurationSteps == {"selectOTPForConfig", "configuration"}

\* One exchange with the card or, for "setting", with the reader.
CardSteps == SerialSteps \cup ConfigurationSteps \cup {"setting"}

\* Context checks: the ctx.Err() tests of ATR and of ReadDeviceInfo.
CheckSteps == {"checkBeforeATR", "checkAfterSerial", "checkAfterATR"}

\* What runs between BeginTransaction and EndTransaction.
ReadSteps ==
    SerialSteps \cup ConfigurationSteps
        \cup {"status", "checkAfterSerial", "checkAfterATR"}

Steps ==
    {"idle", "lock", "begin", "status", "end", "unlock"}
        \cup CardSteps \cup CheckSteps

Applets == {"none", "otp", "fido"}

\* The applet a SELECT step asks for.
Selects(step) ==
    CASE step \in {"selectOTP", "selectOTPForConfig"} -> "otp"
      [] step = "selectFIDO"                      -> "fido"
      [] OTHER                                    -> "none"

SelectSteps == {"selectOTP", "selectOTPForConfig", "selectFIDO"}

\* The applet the command of a step is meant for.
NeededApplet(step) ==
    IF step = "serialInFIDO" THEN "fido" ELSE "otp"

AppletSteps ==
    {"serial", "prelude", "serialAfterPrelude", "serialInFIDO", "configuration"}

\* The steps a method can be at; "none" is a goroutine that runs no method.
Fits(op, step) ==
    \/ op = "none" /\ step = "idle"
    \/ op \in Operations /\ step \in {"lock", "unlock"}
    \/ op \in Transactional /\ step \in {"begin", "end"}
    \/ op \in {"Configuration", "DeviceInfo"} /\ step \in ConfigurationSteps
    \/ op \in {"SerialNumber", "DeviceInfo"} /\ step \in SerialSteps
    \/ op = "DeviceInfo" /\ step \in ReadSteps
    \/ op \in Settings /\ step = "setting"
    \/ op = "ATR" /\ step \in {"checkBeforeATR", "status"}

\* Mutant: the transaction is forgotten.
AfterLockNoBegin(op) ==
    CASE op = "Configuration"              -> "selectOTPForConfig"
      [] op \in {"SerialNumber", "DeviceInfo"} -> "selectOTP"
      [] op = "ATR"                        -> "checkBeforeATR"
      [] op \in Settings                   -> "setting"

\* Where a locked call goes first: the transactional reads begin a transaction,
\* ATR looks at its context, a reader setting goes straight to the exchange.
AfterLock(op) ==
    CASE op \in Transactional -> "begin"
      [] op = "ATR"           -> "checkBeforeATR"
      [] op \in Settings      -> "setting"

\* The first step inside the transaction.
AfterBegin(op) ==
    IF op = "Configuration" THEN "selectOTPForConfig" ELSE "selectOTP"

\* Where a call goes when the reading that contains step is over, whether it
\* produced a value or an error. DeviceInfo goes on to its next reading.
AfterReading(op, step) ==
    CASE op = "DeviceInfo" /\ step \in SerialSteps -> "checkAfterSerial"
      [] op = "DeviceInfo" /\ step = "status"      -> "checkAfterATR"
      [] op \in Settings \cup {"ATR"}              -> "unlock"
      [] OTHER                                     -> "end"

\* Mutant: the prelude is repeated instead of trying the FIDO applet.
AfterExchangeRepeats(op, step, sw) ==
    CASE step = "selectOTP" /\ sw = Success            -> "serial"
      [] step \in {"serial", "serialAfterPrelude"} /\ sw = Unsupported -> "prelude"
      [] step = "prelude" /\ sw = Success              -> "serialAfterPrelude"
      [] step = "selectOTPForConfig" /\ sw = Success   -> "configuration"
      [] OTHER                                         -> AfterReading(op, step)

\* The branches of ReadSerialNumber and ReadConfiguration on the status word of
\* an exchange: any other pair ends the reading.
AfterExchange(op, step, sw) ==
    CASE step = "selectOTP" /\ sw = Success               -> "serial"
      [] step = "serial" /\ sw = Unsupported              -> "prelude"
      [] step = "prelude" /\ sw = Success                 -> "serialAfterPrelude"
      [] step = "prelude" /\ sw # Success                 -> "selectFIDO"
      [] step = "serialAfterPrelude" /\ sw = Unsupported  -> "selectFIDO"
      [] step = "selectFIDO" /\ sw = Success              -> "serialInFIDO"
      [] step = "selectOTPForConfig" /\ sw = Success      -> "configuration"
      [] OTHER                                            -> AfterReading(op, step)

\* Mutant: the configuration is read from the applet the serial number left.
AfterCheckNoSelect(op, step, canceled) ==
    IF canceled
    THEN IF op = "ATR" THEN "unlock" ELSE "end"
    ELSE IF step = "checkAfterATR" THEN "configuration" ELSE "status"

\* A context check lets the reading go on, or ends the call.
AfterCheck(op, step, canceled) ==
    IF canceled
    THEN IF op = "ATR" THEN "unlock" ELSE "end"
    ELSE IF step = "checkAfterATR" THEN "selectOTPForConfig" ELSE "status"

=============================================================================
