--------------------------- MODULE MCSerialMonitor ---------------------------
(* Small instances of SerialMonitor. *)
EXTENDS SerialMonitor, TLC

TokenSymmetry == Permutations(Tokens)

=============================================================================
