---------------------------- MODULE Observations ----------------------------
(***************************************************************************)
(* What a reading of vendor data promises, whatever transport runs it: the *)
(* fields of token2.DeviceInfo are independent observations. Each is       *)
(* decided once, to a value or an error, and is never revised. The         *)
(* returned error joins every error there was. A field that was never      *)
(* tried is owed to an interruption in the returned error, but not to any  *)
(* of them: an error while the device is given back excuses nothing.       *)
(***************************************************************************)
CONSTANTS
    Fields,         \* the fields of DeviceInfo
    Interruptions,  \* errors that belong to no field: context, begin, end
    Excuses         \* those that a missing reading may be owed to

VARIABLES
    wanted,     \* the fields the method reads
    info,       \* field -> "absent", "value" or "error"
    err,        \* the errors joined so far: fields and interruptions
    done        \* the method has returned

vars == <<wanted, info, err, done>>

Init ==
    /\ wanted \in SUBSET Fields
    /\ info = [f \in Fields |-> "absent"]
    /\ err = {}
    /\ done = FALSE

Observe(f) ==
    /\ ~done
    /\ f \in wanted
    /\ info[f] = "absent"
    /\ \/ info' = [info EXCEPT ![f] = "value"] /\ UNCHANGED err
       \/ info' = [info EXCEPT ![f] = "error"] /\ err' = err \cup {f}
    /\ UNCHANGED <<wanted, done>>

Interrupt(i) ==
    /\ ~done
    /\ err' = err \cup {i}
    /\ UNCHANGED <<wanted, info, done>>

Return ==
    /\ ~done
    /\ (\A f \in wanted : info[f] # "absent") \/ err \cap Excuses # {}
    /\ done' = TRUE
    /\ UNCHANGED <<wanted, info, err>>

Next ==
    \/ \E f \in Fields : Observe(f)
    \/ \E i \in Interruptions : Interrupt(i)
    \/ Return

Spec == Init /\ [][Next]_vars

=============================================================================
