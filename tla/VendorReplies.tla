---------------------------- MODULE VendorReplies ----------------------------
(***************************************************************************)
(* token2.ParseConfiguration with its decoded views, and                   *)
(* token2.ParseSerialNumber.                                               *)
(***************************************************************************)
EXTENDS Bytes, Sequences

\* An error stands for every error that wraps ErrInvalid...

Invalid == [error |-> "invalid"]

\* One byte is a legacy response, ten or more are a modern one. (Appearance and
\* FIDOVersion are bytes 3 to 9 as they are.)
ParseConfiguration(response) ==
    IF Len(response) = 0 \/ Len(response) \in 2..9
    THEN Invalid
    ELSE [Raw |-> response,
          TransferType        |-> response[1],
          DeviceConfiguration |-> IF Len(response) = 1 THEN 0 ELSE response[2],
          DeviceExtension     |-> IF Len(response) = 1 THEN 0 ELSE response[10]]

\* Mutant: CCIDEnabled was copied from the line above it.
InterfaceStateCopied(c) ==
    [FIDOEnabled          |-> ~Has(c.TransferType, 1),
     HOTPKeystrokeEnabled |-> ~Has(c.TransferType, 2),
     CCIDEnabled          |-> ~Has(c.TransferType, 2)]

\* The transfer-type bits disable an interface.
InterfaceState(c) ==
    [FIDOEnabled          |-> ~Has(c.TransferType, 1),
     HOTPKeystrokeEnabled |-> ~Has(c.TransferType, 2),
     CCIDEnabled          |-> ~Has(c.TransferType, 4)]

Unknown == [known |-> FALSE]

\* The masks of DeviceConfiguration and of DeviceExtension, with the sense in
\* which each is read.
Flags(c) ==
    [ButtonHOTPSendsEnter            |-> ~Has(c.DeviceConfiguration, 1),
     FIDOPINSet                      |-> Has(c.DeviceConfiguration, 2),
     SupportsHOTP                    |-> Has(c.DeviceConfiguration, 4),
     HasFingerprintSensor            |-> Has(c.DeviceConfiguration, 8),
     SupportsNFC                     |-> Has(c.DeviceConfiguration, 16),
     ButtonHOTPRequiresLongPress     |-> Has(c.DeviceConfiguration, 32),
     FIDOPINLocked                   |-> Has(c.DeviceConfiguration, 64),
     ButtonHOTPConfigured            |-> Has(c.DeviceConfiguration, 128),
     SupportsTOTP                    |-> Has(c.DeviceExtension, 1),
     SupportsFIDO21                  |-> Has(c.DeviceExtension, 2),
     SupportsFingerprintRegistration |-> Has(c.DeviceExtension, 4),
     ButtonHOTPUsesNumericKeypad     |-> Has(c.DeviceExtension, 8),
     SupportsCCID                    |-> Has(c.DeviceExtension, 16),
     SupportsButtonHOTP              |-> ~Has(c.DeviceExtension, 32),
     OTPRequiresFingerprint          |-> Has(c.DeviceExtension, 64),
     SupportsMandatoryFingerprint    |-> Has(c.DeviceExtension, 128)]

\* Mutant: the legacy form is not told apart.
CapabilitiesAlways(c) == [known |-> TRUE, flags |-> Flags(c)]

Capabilities(c) ==
    IF Len(c.Raw) < 10 THEN Unknown ELSE [known |-> TRUE, flags |-> Flags(c)]

\* Mutant: the payload is whatever is left.
ParseSerialNumberRest(response) ==
    IF Len(response) < 2 \/ response[1] # 209 THEN Invalid
    ELSE [value |-> SubSeq(response, 3, Len(response))]

\* A tag, a length and at least as many bytes; what follows them is ignored.
ParseSerialNumber(response) ==
    IF Len(response) < 2 \/ response[1] # 209 \/ response[2] > Len(response) - 2
    THEN Invalid
    ELSE [value |-> SubSeq(response, 3, 2 + response[2])]

=============================================================================
