---------------------------- MODULE MCProbeCapture ----------------------------
(* Each reader holds a token; all HID paths belong to the token of r1. *)
EXTENDS ProbeCapture

MCTokenOf ==
    [endpoint \in Readers \cup Paths |-> IF endpoint \in Readers THEN endpoint ELSE "r1"]

=============================================================================
