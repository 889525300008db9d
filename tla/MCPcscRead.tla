---------------------------- MODULE MCPcscRead ----------------------------
(* PcscRead against every combination of firmware answers. *)
EXTENDS PcscRead

AllCards == Firmware

=============================================================================
