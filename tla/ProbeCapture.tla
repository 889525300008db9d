----------------------------- MODULE ProbeCapture -----------------------------
(***************************************************************************)
(* cmd/token2-probe: a parent that takes lines from a terminal and makes a *)
(* capture of each, and the worker processes it runs one at a time, which  *)
(* write to the same capture file and are killed at a deadline because     *)
(* native calls may hang. Ctrl-C reaches parent and worker separately.     *)
(*                                                                         *)
(* A worker walks through the operations of Program. Each is a native call *)
(* and a record of its outcome, a command also has a record before it; the *)
(* records that the traced connections add are part of these. A record is  *)
(* written under the recorder's mutex. What the tokens say is left out,    *)
(* except whether they took a GetInfo, which legacy firmware remembers.    *)
(***************************************************************************)
EXTENDS Naturals, Sequences, FiniteSets, SequencesExt

CONSTANTS
    Modes,      \* "interactive", "label" and "list": how the probe is started
    Readers,    \* PC/SC readers with a card that the filter accepts
    Paths,      \* HID paths of the vendor
    TokenOf,    \* reader or path -> the token behind it
    Repeat,     \* -repeat
    MaxLines    \* bound: lines typed at the terminal

ASSUME ConstantsAssumption ==
    /\ Modes \subseteq {"interactive", "label", "list"}
    /\ Readers \cap Paths = {}
    /\ IsFiniteSet(Readers) /\ IsFiniteSet(Paths)
    /\ DOMAIN TokenOf = Readers \cup Paths
    /\ \A r1, r2 \in Readers : TokenOf[r1] = TokenOf[r2] => r1 = r2
    /\ Repeat \in Nat \ {0}
    /\ MaxLines \in Nat

-----------------------------------------------------------------------------
\* What a worker does.

OtpSteps  == {"otp.serial.initial", "otp.configuration.initial", "otp.legacy-get-info",
              "otp.serial.after-prelude", "otp.configuration.after-prelude"}
FidoSteps == {"fido.serial", "fido.get-info"}

PcscSteps    == <<"open", "begin", "status", "otp.select",
                  "otp.serial.initial", "otp.configuration.initial", "otp.legacy-get-info",
                  "otp.serial.after-prelude", "otp.configuration.after-prelude",
                  "fido.select", "fido.serial", "fido.get-info", "warm", "end", "close">>
FeatureSteps == <<"open", "serial", "close">>
CtaphidSteps == <<"open", "init", "atr", "get-info", "close">>

Kinds == {"pcsc", "feature", "ctaphid"}

Program(kind) ==
    CASE kind = "pcsc"    -> PcscSteps
      [] kind = "feature" -> FeatureSteps
      [] kind = "ctaphid" -> CtaphidSteps

Operations == UNION {Range(Program(k)) : k \in Kinds}

\* The operations that go through exchange, which does nothing once the context
\* is done and writes a record before the command.
Commands == {"otp.select", "fido.select", "serial"} \cup OtpSteps \cup FidoSteps

\* The operations on whose outcome the way of the worker depends, and those whose
\* errors probePCSC, probeFeature and probeCTAPHID return. The outcome of any
\* other is no more than its record.
Decisive == {"open", "begin", "otp.select", "fido.select", "init"}
Returned == {"open", "begin", "init", "end", "close"}

GetInfos == {"otp.legacy-get-info", "fido.get-info", "warm", "get-info"}

Successor(kind, operation) ==
    LET steps == Append(Program(kind), "exit")
    IN  steps[1 + CHOOSE i \in 1..Len(Program(kind)) : steps[i] = operation]

\* Mutant: probeAppletCommands returns when the OTP applet is missing.
AfterNoFido(kind, operation, ok) ==
    IF ok THEN Successor(kind, operation)
    ELSE CASE operation \in {"open", "init"} -> "exit"
           [] operation = "begin"            -> "close"
           [] OTHER                          -> "warm"

\* An applet that is not there costs its commands; a connection, a transaction
\* or a channel that is not there costs everything up to the deferred calls.
After(kind, operation, ok) ==
    IF ok THEN Successor(kind, operation)
    ELSE CASE operation \in {"open", "init"} -> "exit"
           [] operation = "begin"            -> "close"
           [] operation = "otp.select"       -> "fido.select"
           [] operation = "fido.select"      -> "warm"

-----------------------------------------------------------------------------
\* What a capture is to probe.

PcscTargets(readers) ==
    LET found == SetToSeq(readers)
    IN  [i \in DOMAIN found |-> [kind |-> "pcsc", endpoint |-> found[i]]]

\* A FIDO collection is probed through both transports.
HidTargets(paths, fido) ==
    LET found == SetToSeq(paths)
        target(kind, p) == [kind |-> kind, endpoint |-> p]
    IN  FlattenSeq([i \in DOMAIN found |->
            IF found[i] \in fido
            THEN <<target("feature", found[i]), target("ctaphid", found[i])>>
            ELSE <<target("feature", found[i])>>])

\* Mutant: HID first.
TargetsHidFirst(readers, paths, fido) == HidTargets(paths, fido) \o PcscTargets(readers)

Targets(readers, paths, fido) == PcscTargets(readers) \o HidTargets(paths, fido)

VARIABLES
    mode,       \* how the probe was started
    typed,      \* the lines typed at the terminal
    scanned,    \* how many of them the input goroutine has read
    scanner,    \* the goroutine: "scanning", the line it offers, or "closed"
    interrupt,  \* parent, worker -> Ctrl-C: "no", "sent", or "seen" by its context
    main,       \* where the parent is
    connection, \* of the capture: "usb" or "nfc"
    targets,    \* of the capture
    worker,     \* the number of the worker that is next or running
    expired,    \* its deadline is over
    captured,   \* the connections of the captures so far
    last,       \* the last record of the file that has its newline: operation and
                \* worker; "broken.end" is a worker.end on the line of a torn record
    step,       \* where the worker is; "gone": there is none
    phase,      \* of an operation: "announce", "call" or "record"
    workerErr,  \* what runWorker, and in the end cmd.Run, returns: an error or not
    failed,     \* the decisive operations that failed
    recorded,   \* the operations whose outcome is in the file, unless interrupted
    writing,    \* who is writing a record: "worker", "reader" (a goroutine)
    torn,       \* the file ends with part of a record, which the worker left
    primed      \* the tokens that a GetInfo was sent to during the capture

userVars    == <<mode, typed, scanned, scanner>>
captureVars == <<connection, targets, worker, captured>>
workVars    == <<phase, failed, recorded, torn, primed>>
vars == <<userVars, interrupt, main, captureVars, expired, last, step, workerErr,
          writing, workVars>>

Lines     == {"usb", "nfc", "invalid", "q"}
Processes == {"parent", "worker"}
Pressed   == interrupt["parent"] # "no"
Done(process) == interrupt[process] = "seen"

Workers == Len(targets) * Repeat
TargetOf(number) == targets[1 + ((number - 1) \div Repeat)]
Target  == TargetOf(worker)
Attempt == 1 + ((worker - 1) % Repeat)

UserTypes ==
    /\ mode \in Modes
    /\ typed \in Seq(Lines) /\ scanned \in 0..Len(typed)
    /\ scanner \in Lines \cup {"scanning", "closed"}
    /\ interrupt \in [Processes -> {"no", "sent", "seen"}]

CaptureTypes ==
    /\ main \in {"prompt", "create", "inventory", "executable", "loop", "spawn", "wait",
                 "report", "sync", "finish", "returned"}
    /\ connection \in {"usb", "nfc"} /\ captured \in Seq({"usb", "nfc"})
    /\ targets \in Seq([kind : Kinds, endpoint : Readers \cup Paths])
    /\ worker \in 1..(1 + Workers)
    /\ main \in {"spawn", "wait", "report", "sync"} => worker <= Workers
    /\ last \in [operation : {"none", "session.start", "inventory", "worker.start", "event",
                              "worker.end", "broken.end", "session.end",
                              "session.interrupted"},
                 worker : 0..Workers]

WorkTypes ==
    /\ step \in Operations \cup {"start", "exit", "gone"}
    /\ step \in Operations => step \in Range(Program(Target.kind))
    /\ phase \in {"announce", "call", "record"}
    /\ failed \subseteq Decisive /\ recorded \subseteq Operations
    /\ writing \subseteq {"worker", "reader"}
    /\ {expired, workerErr, torn} \subseteq BOOLEAN
    /\ primed \subseteq Range(TokenOf)

TypeOK == UserTypes /\ CaptureTypes /\ WorkTypes

Init ==
    /\ mode \in Modes
    /\ typed = <<>> /\ scanned = 0
    /\ scanner = IF mode = "interactive" THEN "scanning" ELSE "closed"
    /\ interrupt = [p \in Processes |-> "no"]
    /\ main = CASE mode = "interactive" -> "prompt"
                [] mode = "label"       -> "create"
                [] mode = "list"        -> "inventory"
    /\ connection \in {"usb", "nfc"}
    /\ targets = <<>> /\ worker = 1 /\ expired = FALSE
    /\ captured = <<>>
    /\ last = [operation |-> "none", worker |-> 0]
    /\ step = "gone" /\ phase = "call" /\ workerErr = FALSE /\ failed = {} /\ recorded = {}
    /\ writing = {} /\ torn = FALSE /\ primed = {}

-----------------------------------------------------------------------------
\* The terminal, the goroutine that reads it, and Ctrl-C.

Type(line) ==
    /\ scanner # "closed" /\ main # "returned"
    /\ Len(typed) < MaxLines
    /\ typed' = Append(typed, line)
    /\ UNCHANGED <<mode, scanned, scanner>>

\* Mutant: the goroutine does not wait until its line is taken.
ScanAhead ==
    /\ scanner # "closed" /\ main # "returned"
    /\ IF scanned < Len(typed)
       THEN scanner' = typed[scanned + 1] /\ scanned' = scanned + 1
       ELSE scanner' = "closed" /\ UNCHANGED scanned
    /\ UNCHANGED <<mode, typed>>

\* scanner.Scan returns a line, or false at the end of the input.
Scan ==
    /\ scanner = "scanning" /\ main # "returned"
    /\ IF scanned < Len(typed)
       THEN scanner' = typed[scanned + 1] /\ scanned' = scanned + 1
       ELSE scanner' = "closed" /\ UNCHANGED scanned
    /\ UNCHANGED <<mode, typed>>

\* The goroutine sees ctx.Done while it offers a line.
StopScanning ==
    /\ scanner \in Lines
    /\ Done("parent")
    /\ scanner' = "closed"
    /\ UNCHANGED <<mode, typed, scanned>>

TerminalStep ==
    /\ (\E line \in Lines : Type(line)) \/ Scan \/ StopScanning
    /\ UNCHANGED <<interrupt, main, captureVars, expired, last, step, workerErr,
                   writing, workVars>>

\* A terminal signals the worker too, kill only the parent. From here on nobody
\* asks what is recorded.
Press ==
    /\ ~Pressed
    /\ main # "returned"
    /\ \/ interrupt' = [interrupt EXCEPT !["parent"] = "sent"]
       \/ step # "gone" /\ interrupt' = [p \in Processes |-> "sent"]
    /\ recorded' = {}
    /\ UNCHANGED <<userVars, main, captureVars, expired, last, step, workerErr,
                   writing, phase, failed, torn, primed>>

Notice(process) ==
    /\ interrupt[process] = "sent"
    /\ process = "worker" => step # "gone"
    /\ interrupt' = [interrupt EXCEPT ![process] = "seen"]
    /\ UNCHANGED <<userVars, main, captureVars, expired, last, step, workerErr,
                   writing, workVars>>

-----------------------------------------------------------------------------
\* The parent.

GoTo(place) == main' = place

\* A capture is over: interactive mode asks for the next line, unless the
\* deferred Sync or Close fails.
AfterCapture ==
    \/ GoTo("returned")
    \/ mode = "interactive" /\ GoTo("prompt")

\* What the interactive loop makes of a line.
TakeLine ==
    /\ scanner \in Lines
    /\ scanner' = "scanning"
    /\ IF scanner \in {"usb", "nfc"} /\ ~Done("parent")
       THEN GoTo("create") /\ connection' = scanner /\ captured' = Append(captured, scanner)
       ELSE /\ GoTo(IF scanner = "q" \/ Done("parent") THEN "returned" ELSE "prompt")
            /\ UNCHANGED <<connection, captured>>

\* Mutant: a plain receive, without a case for ctx.Done.
PromptDeaf ==
    /\ main = "prompt"
    /\ \/ scanner = "closed" /\ GoTo("returned") /\ UNCHANGED <<scanner, connection, captured>>
       \/ TakeLine
    /\ UNCHANGED <<mode, typed, scanned, interrupt, targets, worker, expired, last,
                   step, workerErr, writing, workVars>>

Prompt ==
    /\ main = "prompt"
    /\ \/ /\ Done("parent") \/ scanner = "closed"
          /\ GoTo("returned")
          /\ UNCHANGED <<scanner, connection, captured>>
       \/ TakeLine
    /\ UNCHANGED <<mode, typed, scanned, interrupt, targets, worker, expired, last,
                   step, workerErr, writing, workVars>>

Create ==
    /\ main = "create"
    /\ GoTo("inventory")
    /\ targets' = <<>> /\ worker' = 1 /\ primed' = {}
    /\ last' = [operation |-> "session.start", worker |-> 0]
    /\ UNCHANGED <<userVars, interrupt, connection, captured, expired, step, workerErr,
                   writing, phase, failed, recorded, torn>>

\* Any part of the interfaces may be there, or found before an enumeration
\* fails. Its records, if there are any, are one. -list writes to the terminal and
\* is done.
Inventory ==
    /\ main = "inventory"
    /\ \E readers \in SUBSET Readers, paths \in SUBSET Paths :
          \E fido \in SUBSET paths :
             targets' = Targets(readers, IF connection = "usb" THEN paths ELSE {}, fido)
    /\ IF mode = "list"
       THEN GoTo("returned") /\ UNCHANGED last
       ELSE /\ GoTo(IF targets' = <<>> THEN "finish" ELSE "executable")
            /\ last' = [last EXCEPT !.operation = "inventory"]
    /\ UNCHANGED <<userVars, interrupt, connection, worker, captured, expired, step,
                   workerErr, writing, workVars>>

FindExecutable ==
    /\ main = "executable"
    /\ GoTo("loop")
    /\ UNCHANGED last

\* Mutant: attempt <= o.repeat + 1, for the last target.
LoopOnceMore ==
    /\ main = "loop"
    /\ IF worker > Workers + 1
       THEN GoTo("finish") /\ UNCHANGED last
       ELSE IF Done("parent")
            THEN AfterCapture /\ last' = [last EXCEPT !.operation = "session.interrupted"]
            ELSE GoTo("spawn") /\ UNCHANGED last

\* The head of the two loops.
Loop ==
    /\ main = "loop"
    /\ IF worker > Workers
       THEN GoTo("finish") /\ UNCHANGED last
       ELSE IF Done("parent")
            THEN AfterCapture /\ last' = [last EXCEPT !.operation = "session.interrupted"]
            ELSE GoTo("spawn") /\ UNCHANGED last

\* cmd.Start, which fails if the context is done by now, or for want of memory.
Spawn ==
    /\ main = "spawn"
    /\ \/ /\ ~Done("parent")
          /\ GoTo("wait")
          /\ step' = "start" /\ phase' = "record"
          /\ UNCHANGED workerErr
       \/ /\ GoTo("report")
          /\ workerErr' = TRUE
          /\ UNCHANGED <<step, phase>>
    /\ UNCHANGED <<userVars, interrupt, captureVars, expired, last, writing,
                   failed, recorded, torn, primed>>

Expire ==
    /\ main = "wait"
    /\ ~expired
    /\ expired' = TRUE
    /\ UNCHANGED <<userVars, interrupt, main, captureVars, last, step, workerErr,
                   writing, workVars>>

\* The worker is gone and can write no more; what it was writing may be in the
\* file in part.
WorkerGone(error) ==
    /\ step' = "gone"
    /\ workerErr' = error
    /\ writing' = {}
    /\ torn' \in {FALSE, writing # {}}
    /\ UNCHANGED <<userVars, interrupt, main, captureVars, expired, last,
                   phase, failed, recorded, primed>>

\* Mutant: exec.CommandContext(ctx, ...) without the deadline.
KillInterrupted ==
    /\ main = "wait"
    /\ step # "gone"
    /\ Done("parent")
    /\ WorkerGone(TRUE)

Kill ==
    /\ main = "wait"
    /\ step # "gone"
    /\ expired \/ Done("parent")
    /\ WorkerGone(TRUE)

\* Mutant: cmd.Start without Wait.
WaitNot ==
    /\ main = "wait"
    /\ GoTo("report")
    /\ UNCHANGED last

Wait ==
    /\ main = "wait"
    /\ step = "gone"
    /\ GoTo("report")
    /\ UNCHANGED last

Write(operation) == last' = [operation |-> operation, worker |-> worker]

\* The file goes on where the worker left it, within a line or not.
Report ==
    /\ main = "report"
    /\ Write(IF torn THEN "broken.end" ELSE "worker.end")
    /\ torn' = FALSE
    /\ GoTo("sync")
    /\ UNCHANGED <<userVars, interrupt, captureVars, expired, step, workerErr,
                   writing, phase, failed, recorded, primed>>

\* The next round of the loops; what was the worker's is forgotten.
Sync ==
    /\ main = "sync"
    /\ GoTo("loop")
    /\ worker' = worker + 1
    /\ interrupt' = [interrupt EXCEPT !["worker"] = "no"]
    /\ expired' = FALSE /\ workerErr' = FALSE
    /\ phase' = "call" /\ failed' = {} /\ recorded' = {}
    /\ UNCHANGED <<userVars, connection, targets, captured, last, step, writing, torn, primed>>

Finish ==
    /\ main = "finish"
    /\ AfterCapture
    /\ last' = [last EXCEPT !.operation = "session.end"]

\* An error return, or log.Fatalf in the recorder: the file cannot be created,
\* written or synced, the executable cannot be found.
GiveUp ==
    /\ \/ main \in {"create", "inventory", "executable", "report", "sync", "finish"}
       \/ main = "loop" /\ Done("parent")
    /\ GoTo("returned")
    /\ UNCHANGED last

-----------------------------------------------------------------------------
\* The worker.

\* Mutant: emit without r.mu.
NeverLocked == FALSE

\* The recorder's mutex is taken.
Locked == writing # {}

\* The next operation begins with its announcement if it is a command.
Enter(operation) ==
    /\ step' = operation
    /\ phase' = IF operation \in Commands THEN "announce" ELSE "call"

\* The native call of an operation, whatever it answers.
Call ==
    /\ step \in Operations
    /\ phase = "call"
    /\ phase' = "record"
    /\ \E ok \in BOOLEAN :
          /\ failed' = IF ok THEN failed ELSE failed \cup ({step} \cap Decisive)
          /\ workerErr' = (workerErr \/ (~ok /\ step \in Returned))
    /\ primed' = IF step \in GetInfos THEN primed \cup {TokenOf[Target.endpoint]} ELSE primed
    /\ UNCHANGED <<last, step, recorded, writing, torn>>

\* exchange returns at once when the context is done.
Skip ==
    /\ step \in Commands
    /\ phase = "announce" /\ "worker" \notin writing
    /\ Done("worker")
    /\ failed' = failed \cup ({step} \cap Decisive)
    /\ Enter(After(Target.kind, step, step \notin Decisive))
    /\ UNCHANGED <<last, workerErr, recorded, writing, torn, primed>>

BeginRecord ==
    /\ step \in Operations \cup {"start"}
    /\ phase \in {"announce", "record"}
    /\ ~Locked
    /\ "worker" \notin writing
    /\ writing' = writing \cup {"worker"}
    /\ UNCHANGED <<last, step, workerErr, workVars>>

EndRecord ==
    /\ "worker" \in writing
    /\ writing' = writing \ {"worker"}
    /\ Write(IF step = "start" THEN "worker.start" ELSE "event")
    /\ \/ phase = "announce" /\ phase' = "call" /\ UNCHANGED <<step, recorded>>
       \/ /\ phase = "record" /\ step = "start"
          /\ Enter(Head(Program(Target.kind)))
          /\ UNCHANGED recorded
       \/ /\ phase = "record" /\ step # "start"
          /\ Enter(After(Target.kind, step, step \notin failed))
          /\ recorded' = IF Pressed THEN {} ELSE recorded \cup {step}
    /\ UNCHANGED <<workerErr, failed, torn, primed>>

\* The goroutine of the CTAPHID transport records what it reads, from INIT on;
\* Close does not wait for it.
ReaderBeginsRecord ==
    /\ step \in {"init", "atr", "get-info", "close", "exit"}
    /\ Target.kind = "ctaphid"
    /\ "open" \notin failed
    /\ ~Locked
    /\ "reader" \notin writing
    /\ writing' = writing \cup {"reader"}
    /\ UNCHANGED <<last, step, workerErr, workVars>>

ReaderEndsRecord ==
    /\ "reader" \in writing
    /\ writing' = writing \ {"reader"}
    /\ Write("event")
    /\ UNCHANGED <<step, workerErr, workVars>>

\* log.Fatalf: the disk is full.
RecordFails ==
    /\ writing # {}
    /\ WorkerGone(TRUE)

\* main exits with an error, unless it was interrupted.
Exit ==
    /\ step = "exit"
    /\ WorkerGone(workerErr /\ ~Done("worker"))

WorkerStep ==
    \/ /\ \/ Call \/ Skip \/ BeginRecord \/ EndRecord
          \/ ReaderBeginsRecord \/ ReaderEndsRecord
       /\ UNCHANGED <<userVars, interrupt, main, captureVars, expired>>
    \/ RecordFails
    \/ Exit

\* Steps that only change where the parent is and what it wrote.
OnlyParent == UNCHANGED <<userVars, interrupt, captureVars, expired, step, workerErr,
                          writing, workVars>>

ParentStep ==
    \/ Prompt \/ Create \/ Inventory \/ Spawn \/ Report \/ Sync
    \/ (FindExecutable \/ Loop \/ Wait \/ Finish) /\ OnlyParent

Next ==
    \/ TerminalStep \/ Press
    \/ \E process \in Processes : Notice(process)
    \/ ParentStep
    \/ GiveUp /\ OnlyParent
    \/ Expire \/ Kill
    \/ WorkerStep

Spec == Init /\ [][Next]_vars

\* The parent runs, its enumerations and files do not hang, its signal handler
\* runs, time passes, and a process that is killed ends. Nothing makes a worker
\* go on, or anyone type.
Fairness ==
    /\ WF_vars(ParentStep)
    /\ WF_vars(Notice("parent"))
    /\ WF_vars(Expire)
    /\ WF_vars(Kill)

FairSpec == Spec /\ Fairness

-----------------------------------------------------------------------------
\* Properties.

\* One process and one goroutine at a time writes to the file: the recorder's
\* mutex keeps worker and reader apart, and the parent, which writes at any other
\* place, waits for both.
OneWriter ==
    /\ Cardinality(writing) <= 1
    /\ step # "gone" \/ writing # {} => main = "wait"

\* The initial serial number of a token, in the first repetition, is read before
\* anything in the capture could have primed it: neither CTAPHID's GetInfo nor a
\* worker that was killed got there first.
UnprimedFirst ==
    step = "otp.serial.initial" /\ Attempt = 1 => TokenOf[Target.endpoint] \notin primed

\* What an operation needs to be measured at all.
Needs(operation) ==
    CASE operation \in OtpSteps  -> {"otp.select"}
      [] operation \in FidoSteps -> {"fido.select"}
      [] OTHER                          -> {}

\* A worker.end without an error stands for a complete measurement: whatever
\* failed, hung or was killed, every operation whose applet was there has its
\* outcome in the file, and no record is cut short. Ctrl-C takes this away (an
\* interrupted worker skips its commands and exits with 0), and the CTAPHID
\* reader may be cut short by a worker that is done.
CleanEndComplete ==
    main = "sync" /\ ~workerErr /\ ~Pressed =>
        /\ recorded = {o \in Range(Program(Target.kind)) : Needs(o) \cap failed = {}}
        /\ last.operation = "broken.end" => Target.kind = "ctaphid"

\* The lines that ask for a capture.
AskedFor(i) == typed[i] \in {"usb", "nfc"} /\ \A j \in 1..i : typed[j] # "q"

AskedUpTo(n) == {i \in 1..n : AskedFor(i)}

\* Interactive captures are those of the lines typed before the first q, in
\* order, none left out or twice, though lines are typed while a capture is
\* going on: capture k is that of the line that is number k of those asked for.
CapturesMatchLines ==
    \A k \in 1..Len(captured) :
        \E i \in 1..Len(typed) :
            AskedFor(i) /\ captured[k] = typed[i] /\ Cardinality(AskedUpTo(i)) = k

\* The file as its reader sees it.
PhaseOf(operation) ==
    CASE operation = "none"                             -> "none"
      [] operation = "session.start"                    -> "started"
      [] operation \in {"inventory", "worker.end"}      -> "between"
      [] operation = "broken.end"                       -> "broken"
      [] operation \in {"worker.start", "event"}        -> "worker"
      [] operation = "session.end"                      -> "ended"
      [] operation = "session.interrupted"              -> "interrupted"

File == INSTANCE CaptureFile
            WITH phase <- IF torn THEN "torn" ELSE PhaseOf(last.operation),
                 worker <- IF torn THEN worker ELSE last.worker,
                 workers <- IF last.operation = "none" THEN 0 ELSE Workers,
                 MaxWorkers <- (Cardinality(Readers) + 2 * Cardinality(Paths)) * Repeat

\* Two processes write it, one of which may be killed within a record. All the
\* same the workers come in order, the records of each together and followed by
\* one end; of a worker that died within a record the line of that end cannot be
\* read, but no other line, and no record of another worker, is spoiled.
ImplementsCaptureFile == File!Spec

\* The parent gets past every worker, though its native calls may never return.
WorkersEnd == main = "wait" ~> main # "wait"

\* After Ctrl-C run returns, though a worker hangs and the input goroutine waits
\* for the terminal.
ReturnsWhenInterrupted == Pressed ~> main = "returned"

-----------------------------------------------------------------------------
\* The inductive invariant behind the safety properties.

\* Readers come before HID paths, each once; no more targets than interfaces.
TargetsInOrder ==
    /\ Len(targets) <= Cardinality(Readers) + 2 * Cardinality(Paths)
    /\ \A j \in 1..Len(targets) :
          targets[j].kind = "pcsc" =>
              /\ targets[j].endpoint \in Readers
              /\ \A i \in 1..(j - 1) :
                    targets[i].kind = "pcsc" /\ targets[i].endpoint # targets[j].endpoint

\* Who is writing has something to write, and nobody is when the worker is gone.
Recording ==
    /\ step = "gone" => writing = {}
    /\ "worker" \in writing => phase # "call" /\ step \in Operations \cup {"start"}
    /\ "reader" \in writing => Target.kind = "ctaphid"
    /\ step = "start" => phase = "record"

\* The last record of the file belongs to the place where the parent is.
Between ==
    last.operation \in {"inventory", "worker.end", "broken.end"} /\ last.worker = worker - 1

FileFollows ==
    /\ main \in {"prompt", "create"} =>
          mode # "list" /\ last.operation \in {"none", "session.end", "session.interrupted"}
    /\ main = "inventory" =>
          /\ last = [operation |-> IF mode = "list" THEN "none" ELSE "session.start",
                     worker    |-> 0]
          /\ targets = <<>> /\ worker = 1 /\ primed = {}
    /\ main \in {"executable", "loop", "spawn", "finish"} => Between
    /\ main \in {"wait", "report"} =>
          \/ Between
          \/ last.operation \in {"worker.start", "event"} /\ last.worker = worker
    /\ main = "sync" =>
          last.operation \in {"worker.end", "broken.end"} /\ last.worker = worker
    /\ main = "executable" => worker = 1 /\ primed = {}
    /\ main = "finish" => worker = 1 + Workers

\* Who primed a token: a worker up to this one, and this one not before it gets
\* to its first GetInfo.
BeforeGetInfo == {"start", "open", "begin", "status", "otp.select", "otp.serial.initial",
                  "otp.configuration.initial"}

Primers ==
    main \in {"loop", "spawn", "wait", "report", "sync"} =>
        \A token \in primed :
            \E w \in 1..worker :
                /\ w <= Workers
                /\ TokenOf[TargetOf(w).endpoint] = token
                /\ main \in {"loop", "spawn"} \/ step \in BeforeGetInfo => w < worker

\* What a worker that had no error has recorded: what is behind it, except for
\* the commands of an applet that is not there.
Before(kind, operation) ==
    LET steps == Program(kind)
    IN  {steps[i] : i \in {i \in DOMAIN steps :
                              \A j \in DOMAIN steps : steps[j] = operation => i < j}}

Behind == IF step = "start" THEN {} ELSE Before(Target.kind, step)

Measured ==
    main \in {"wait", "report", "sync"} /\ ~workerErr /\ ~Pressed =>
        /\ recorded = {o \in Behind : Needs(o) \cap failed = {}}
        /\ step \in Operations => Needs(step) \cap failed = {}
        /\ failed \cap Returned = {}
        /\ torn \/ (main = "sync" /\ last.operation = "broken.end") => Target.kind = "ctaphid"

\* A worker finds nothing of the one before it, a torn record included.
Forgotten ==
    /\ main \notin {"wait", "report", "sync", "returned"} => recorded = {} /\ failed = {}
    /\ torn => step = "gone" /\ main \in {"wait", "report", "returned"}

\* Ctrl-C is pressed at the terminal or not at all.
OnePress == interrupt["worker"] # "no" => Pressed

\* The captures are those of the lines that the prompt took.
LinesTaken ==
    main # "returned" =>
        \E n \in 0..scanned :
            /\ scanner = "scanning" => n = scanned
            /\ scanner \in Lines => n = scanned - 1 /\ scanner = typed[scanned]
            /\ \A i \in 1..n : typed[i] # "q"
            /\ Len(captured) = Cardinality(AskedUpTo(n))

Inv ==
    /\ TypeOK /\ OneWriter /\ TargetsInOrder /\ Recording /\ FileFollows
    /\ Primers /\ Measured /\ Forgotten /\ OnePress /\ LinesTaken /\ CapturesMatchLines

=============================================================================
