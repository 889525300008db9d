----------------------------- MODULE CaptureFile -----------------------------
(***************************************************************************)
(* What a reader, who takes it line by line, finds in the JSONL file of a  *)
(* token2-probe capture: the session's start, the inventory, and then the  *)
(* workers one after the other, each with its own records and closed by    *)
(* the parent's worker.end, up to the session's end or its interruption. A *)
(* worker that wrote nothing has a worker.end all the same.                *)
(*                                                                         *)
(* A worker that dies may leave part of a record, without its newline, and *)
(* the worker.end then follows on the same line: that line cannot be read, *)
(* but it is the worker's last, and the only one that it may spoil. After  *)
(* it the file goes on as if worker.end had been read.                     *)
(*                                                                         *)
(* The file may end anywhere, because the parent could not go on. What it  *)
(* then left of the record that it could not write itself is left out.     *)
(***************************************************************************)
EXTENDS Naturals

CONSTANT MaxWorkers     \* bound: targets times repetitions of a capture

VARIABLES
    phase,      \* what the file ends with
    worker,     \* the number of the worker that comes last in it
    workers     \* how many there are to be

vars == <<phase, worker, workers>>

Init ==
    /\ phase = "none"
    /\ worker = 0
    /\ workers = 0

Start ==
    /\ phase \in {"none", "ended", "interrupted"}
    /\ phase' = "started"
    /\ worker' = 0
    /\ workers' = 0

Inventory ==
    /\ phase = "started"
    /\ phase' = "between"
    /\ workers' \in 0..MaxWorkers
    /\ UNCHANGED worker

\* Whose record can come next: one more of the last worker, or, when that worker
\* has its end, readable or not, the first of the next worker.
Ended == phase \in {"between", "broken"}

RecordOf(number) ==
    \/ phase = "worker" /\ number = worker
    \/ Ended /\ worker < workers /\ number = worker + 1

Record ==
    /\ RecordOf(worker')
    /\ phase' = "worker"
    /\ UNCHANGED workers

\* The worker dies within a record.
Tear ==
    /\ RecordOf(worker')
    /\ phase' = "torn"
    /\ UNCHANGED workers

\* The end of the worker whose records come last, or of one without records.
EndWorker ==
    /\ RecordOf(worker')
    /\ phase' = "between"
    /\ UNCHANGED workers

\* The same on the line of a torn record, of the worker that left it.
EndTorn ==
    /\ phase = "torn"
    /\ phase' = "broken"
    /\ UNCHANGED <<worker, workers>>

EndSession ==
    /\ Ended
    /\ \/ worker = workers /\ phase' = "ended"
       \/ worker < workers /\ phase' = "interrupted"
    /\ UNCHANGED <<worker, workers>>

Next == Start \/ Inventory \/ Record \/ Tear \/ EndWorker \/ EndTorn \/ EndSession

Spec == Init /\ [][Next]_vars

=============================================================================
