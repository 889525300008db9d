--------------------------- MODULE MCHidFeature ---------------------------
(* Small instances of HidFeature: two bytes to a report, report numbers     *)
(* modulo 3, so that a response of 7 bytes wraps around.                   *)
EXTENDS HidFeature, TLC

CallSymmetry == Permutations(Calls)

=============================================================================
