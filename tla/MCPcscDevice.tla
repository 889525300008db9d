---------------------------- MODULE MCPcscDevice ----------------------------
(* Small instances of PcscDevice: two handles on one card, two goroutines   *)
(* on the first and one on the second.                                     *)
EXTENDS PcscDevice, TLC

CONSTANTS d1, d2, c1, c2, c3

\* c1 and c2 share d1; c3 works on d2.
MCDeviceOf == [c \in Calls |-> IF c = c3 THEN d2 ELSE d1]

AllOps == Operations

\* SetReaderNFC takes the same steps as SetReaderSoundLevel, and DeviceInfo
\* those of Configuration and SerialNumber in one transaction.
RepresentativeOps == {"DeviceInfo", "SetReaderNFC", "ATR"}

\* The shortest transactional read and an unprotected setting.
ShortOps == {"Configuration", "SetReaderNFC"}

\* c1 and c2 differ in nothing.
CallSymmetry == Permutations({c1, c2})

=============================================================================
