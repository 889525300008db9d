# Verification of telesma-app/token2

TLA+ models of the token2 Go module, the TLC configurations that check them on
small instances, and TLAPS proofs that the safety properties of the devices, the
parsers, the tools and the examples hold for every value of the constants. Paths
are relative to the repository.

## The system

| Part | State it keeps | Operations | Interacts with |
|---|---|---|---|
| `transport/pcsc` `Device` | mutex, native card | `Open`, `Close`, `ATR`, `Configuration`, `SerialNumber`, `DeviceInfo`, `SetReaderSoundLevel`, `SetReaderNFC` | the card and its selected applet; PC/SC transactions shared with other handles and applications |
| `transport/pcsc` borrowed readers | none | `ReadSerialNumber`, `ReadConfiguration`, `ReadDeviceInfo` | run by `Device`, by the probe, by applications inside their own transaction |
| `transport/hid` `Device` | mutex, native device | `Open`, `Close`, `SerialNumber` (framed `Transmit`) | the token's feature reports |
| `transport/hid` `ReadDeviceInfo` | none | open, read, close, then ATR on a borrowed channel | `hid.Device`, `ctaphid.ReadATR` |
| `transport/ctaphid` `Device` | CTAPHID transport | `Open`, `ATR`, `Close` | the ctap module |
| parsers (`atr.go`, `configuration.go`, `serial_number.go`) | none | `ParseATR`, `ParseConfiguration`, `InterfaceState`, `Capabilities`, `ParseSerialNumber` | every transport |
| `model.go` | catalogue (constant) | `Identify` | `ReadDeviceInfo`, probe |
| `internal/protocol` | none | command constructors | transports, tools |
| `cmd/pcsc-serial-monitor` | counters, set of serials | event loop, `inspect`, `traceDevice` | `nativepcsc.Watch`, `pcsc.Device` |
| `cmd/token2-probe` | capture file, recorder mutex, child processes | `run`, `inventory`, `capture`, workers | every transport |
| examples | none | small programs | transports |

What is hard about it:

* **Interleaving.** The applet selected on a card, and the response that GET
  RESPONSE continues, are global to the card. Goroutines that share a `Device`,
  other `Device`s on the same card and other applications can all get between
  two APDUs of a reading. The mutex keeps away the first, the transaction the
  others; reader settings only have the mutex.
* **Close at any moment.** `pcsc.Device.Close` deliberately takes no lock;
  `hid.Device.Close` takes it.
* **Cancellation.** Contexts end between two readings, within an exchange, while
  a HID token is pending. What was already read must survive.
* **Partial failure.** Errors of BeginTransaction, EndTransaction, Close and of
  the three independent readings are joined with values.
* **Fallbacks.** Three ways to ask for the serial number, depending on firmware,
  the last of which leaves another applet selected.
* **Framing.** Four-bit report numbers, reports of 61 bytes, reports that are
  left over from a canceled transmission.
* **Bytes on the way.** Truncated or padded replies must not be read as something
  else.
* **Processes.** The probe's workers write to the file of their parent, are killed
  at a deadline, and get their own Ctrl-C. One goroutine of the parent waits for a
  terminal that may never answer, one of a worker outlives the Close of its
  transport.
* **Handles.** Programs that search for a device open and give back several.

The hazards of `PROJECT.json` list these at the line where they bite, with the
properties that cover them.

## Modules

| Module | Models | Runs / theorems |
|---|---|---|
| `PcscProgram` | the control flow of the PC/SC methods as pure operators: steps and what follows each | used by the next two |
| `PcscDevice` | `pcsc.Device` under concurrent use | `pcsc_isolation`, `pcsc_sessions`, `pcsc_returns` |
| `CardSessions` | abstract: one call at a time owns the card | implemented by `PcscDevice` |
| `PcscRead` | one method against a token's firmware | `pcsc_read` |
| `Observations` | abstract: independent observations, `Descriptor` and the joined error | implemented by `PcscRead` and by `Clients` |
| `HidFeature` | `hid.Device` and a token that takes and gives feature reports | `hid_framing`, `hid_returns` |
| `Bytes` | bytes, the test of one bit, exclusive or | used by the next two |
| `AnswerToReset` | `ParseATR`, what a card sends, and the grammar of an ATR | used by `VendorData` |
| `VendorReplies` | the configuration and serial-number parsers | used by `VendorData` |
| `Catalogue` | `Identify` and the owners of a serial number | used by `VendorData` |
| `VendorData` | the pure functions on whole and on damaged data | `data_damage` |
| `Clients` | `hid.ReadDeviceInfo`, `ctaphid.Open` and `ReadATR`, the four examples | `device_clients` |
| `ProbeCapture` | `cmd/token2-probe`: terminal, parent, workers, recorder | `probe_file`, `probe_prompt` |
| `CaptureFile` | abstract: the capture file as its reader sees it | implemented by `ProbeCapture` |
| `SerialMonitor` | `cmd/pcsc-serial-monitor` | `monitor_results`, `monitor_ends` |
| `PcscDeviceProofs` | proofs about `PcscDevice` | `TypeCorrect`, `AppletAlwaysHeld`, `ReadingAlwaysUndisturbed`, `SettingAlwaysSerialized`, `TransactionAlwaysReported`, `DeviceImplementsSessions` |
| `PcscReadProofs` | proofs about `PcscRead` | `SerialAlwaysFound`, `ConfigurationAlwaysIndependent`, `ReadImplementsObservations` |
| `HidFeatureProofs` | proofs about `HidFeature` | `TransmitTypes`, `AnswersAlwaysMatch`, `CommandsAlwaysWhole` |
| `SerialMonitorProofs` | proofs about `SerialMonitor` | `NoInsertionLost`, `SummaryAddsUp`, `TraceNeverSelfBlocked` |
| `ProbeCaptureProofs` | proofs about `ProbeCapture` | `CaptureTypeCorrect`, `CaptureOneWriter`, `InitialSerialUnprimed`, `CleanEndsComplete`, `CapturesMatch`, `FileImplemented` |
| `ClientsProofs` | proofs about `Clients` | `HandlesAlwaysReleased`, `SettingsAlwaysReported`, `ChoiceAlwaysRight`, `ClientsImplementObservations` |
| `VendorDataProofs` | proofs about `VendorData` and the parsers | `ATRMeaning`, `IdentityOf`, `GrammarAlwaysDecides`, `IdentityAlwaysRead`, `CutNeverClaims`, `SerialAlwaysWhole`, `OneFlagPerBit`, `OwnerIdentified` |
| `BasicFacts` | lemmas on division, induction over an interval, recursive functions and folds, `SetToSeq` and `FlattenSeq` | used by the proofs about `HidFeature`, `ProbeCapture`, `Clients` and `VendorData` |

The `MC*` modules give the constants their values. Operators commented
"Mutant:" are plausible bugs; `PROJECT.json` pairs each property with one that
breaks it.

### PcscProgram and PcscDevice

A method is a walk through steps. `pc[c]` is the step goroutine `c` is at,
`op[c]` its method. A *card step* is one call of `exchange` with one command
(`selectOTP`, `serial`, `prelude`, ...); `AfterExchange` is the branch the code
takes on the status word, `AfterReading` where a method goes when one of its
readings is over, `AfterCheck` the `ctx.Err()` tests. The deferred calls are
steps of their own: `end` (EndTransaction), `unlock`.

`iso7816.Exchange` is part of the step: while the card announces more data
(61xx, 9Fxx) the step is repeated with `fetching[c]` set. `CardAnswers` is a
command that is answered, `CallFails` one that returns an error; a failed
command may have reached the card. The last command of the card is `last`, its
applet `applet`, the holder of its transaction `tx`.

External, modelled from how the code uses it: the PC/SC service lets a command
through if no other handle holds a transaction (`Reachable`); the native Close
ends the handle's transaction and may reset the card (`DisconnectCard`); other
applications use the card when no transaction is active (`OtherApplication`);
a failing EndTransaction may leave the transaction in place.

Data left out: APDU bytes, response data, the text of errors. Whether a result
holds a transaction error is kept (`txErr`).

### PcscRead and Observations

`PcscRead` runs `Configuration`, `SerialNumber` or `DeviceInfo` against a token
given by its answers (`Firmware`): which applets it has, what it says to the
serial-number command cold, after the prelude and in FIDO, whether its data
parses. `outcome` distinguishes a refused reading (the token answered) from a
failed one (no answer). `Info` forgets the difference; under it the method
implements `Observations`: each field is decided once, never revised, every
error of a field is in the returned error, and an absent field is explained by
one of the `Excuses`: an error of the context, or a transaction that did not begin.
One that fails to end is no excuse.

The isolation that `PcscRead` takes for granted (nobody else uses the card) is
what `PcscDevice` shows.

### HidFeature

`Transmit` is `StartTransmit`, `SendReport` per fragment, `GetReport` per
fragment of the answer; a round of the polling loop that finds the token pending
changes nothing. The mutex is taken by `Lock`, by `LockToClose` for `Close`.
A command and a response are sequences of tagged bytes, so that a byte of
another Transmit, or one at the wrong place, is noticed.

External: the token starts over on report number 0, forgets its old answer when
a new report arrives, answers a whole command at some time or never; a report
may be lost or read twice. The properties depend on the second assumption: if a
token kept an old answer for a new command, report numbers alone could not tell.

### VendorData: AnswerToReset, VendorReplies, Catalogue

Pure functions, translated operator by operator. A state of `VendorData` is one
input: what a token sends, or that input cut, extended, changed in a byte, or with
one setting of the token changed. The ATR parser's loop is compared with a
set-based statement of the grammar (`WellFormed`), `Identify` with `Owners`, which
says who owns a serial number by its digits and never computes its value. The
whole table of `model.go` is in the model, a row as its prefix or range.
`Appearance` and `FIDOVersion` are copied bytes and left out.

### Clients and Observations

Five pieces of sequential code that open a device, use it and close it, as walks
through the steps of `Program`, one of which runs in a behaviour: the library's
`hid.ReadDeviceInfo` (`info`) and the examples. `handles` counts what is open,
whatever the code believes; every native call may fail. `Drop` is the Close of a
handle that turned out to be of no use: the search of `examples/hid` goes on, the
error path of `ctaphid.Open` and of an explicit HID path returns. `acknowledged`
is the variable of the settings program, `acks` what the reader did acknowledge.
`refused` remembers which devices of a search did not open or not answer.
`ReadDeviceInfo` implements `Observations` with the interruptions `close` and
`context`, of which `context` alone excuses a field that was never tried: when
Close fails the ATR is still read. The CTAPHID channel it borrows is never opened
or closed.

External: the ctap library leaves the HID handle to its caller when it cannot
allocate a channel, and closes it in `Transport.Close`. Which flag values parse is
left open: `ParseArguments` may fail for any input.

### ProbeCapture and CaptureFile

`mode` is how the program was started: with a label, with `-list`, or
interactively. In interactive mode the input goroutine (`scanner`) reads lines
and offers them one by one to the select of `run` (`Prompt`). A capture is the
parent's walk `create`, `inventory`, `executable`, and for each worker `loop`,
`spawn`, `wait`, `report`, `sync`. `worker` counts through the two loops, targets
outside and repetitions inside.

A worker walks through `Program(kind)`; `After` is where it goes when an operation
failed. Each operation is a native call (`Call`), which may take for ever, and a
record of its outcome; a command also has a record before it. Writing a record
takes two steps, so that a kill, a failing disk (`RecordFails`) or the CTAPHID
reader goroutine can get in between. `last` is the last record in the file, and
`torn` says that part of another one, without its newline, follows it. The
parent's `worker.end` then ends up on the line of that part (`broken.end`).
`recorded` and `primed` are history: outcomes in the file, tokens that got a GetInfo.

Under `last` and `torn` the file implements `CaptureFile`, which is the file as it
is read line by line: workers in order, the records of each together and followed
by one end, on a line of its own (`EndWorker`) or, when the worker left a torn
record, on a line that cannot be read (`Tear`, `EndTorn`). So a worker that dies
spoils no other line, and never a record of another worker. What the parent leaves
of a record that it cannot write itself is left out: it exits then (`log.Fatalf`)
and the file ends there.

Ctrl-C is sent to the parent, and to the worker if there is one and it comes from
the terminal; each process notices on its own (`Notice`). `CleanEndComplete`
excludes captures with Ctrl-C because an interrupted worker skips its commands
and exits with 0. A CTAPHID worker that is done may leave a torn record of the
goroutine that its Close does not wait for, behind a clean end: the property says
so.

Left out: contents of the records, the framing of `featureCard`, and the 5-second
contexts of single commands, whose end is a failed operation.

### SerialMonitor

`select` takes an event (`Receive`) or ends (`Stop`). `inspect` is the walk
`open`, `begin`, `read`, `end`, `close`, and after a failure `traceOpen` to
`traceClose`. `Read` stands for `ReadSerialNumber`, which `PcscRead` models.
A connection (`conn`) belongs to one insertion of a card and is dead after it.
`holds` is a transaction of the monitor on the card, from BeginTransaction to
EndTransaction, or to Close if EndTransaction failed, or to the card's removal.

## Runs and bounds

| Run | Instance | Why it is enough |
|---|---|---|
| `pcsc_isolation` | 2 handles, 3 goroutines (2 on one handle), `DeviceInfo`, `SetReaderNFC`, `ATR` | `DeviceInfo` contains the steps of the two other readings; the settings take the same steps; every pair of actors (same handle, other handle, application) occurs. The theorems lift the bound |
| `pcsc_sessions` | the same handles, `Configuration` and `SetReaderNFC` | a reading with a SELECT and a command, against unprotected commands; also a theorem |
| `pcsc_returns` | 1 handle, 2 goroutines, all methods | one call that holds the mutex, one that waits for it |
| `pcsc_read` | all 2304 firmwares times the initial applet | exhaustive in what the code tells apart |
| `hid_framing` | 2 goroutines, reports of 2 bytes numbered modulo 3, up to 2 faults in a Transmit | commands of up to 2 reports and answers of up to 6 wrap the numbers around twice; faults stay below the modulus (three lost reports in a row could not be noticed, as sixteen could not in the code) |
| `hid_returns` | 2 goroutines, 1 fault | one that polls, one that waits or closes |
| `data_damage` | ATRs of up to 3 groups, 3 presence nibbles, 4 kinds of historical bytes; 4 masks; a serial number of every row of the catalogue, the bounds of the range behind 0, 1 and 16 zeros, up to 24 digits; one damage | a TD with and without another group behind it, T=0 and T=1 in every order; the masks of the repository's tests, all clear, all set; both sides of every bound of `Identify` |
| `monitor_results` | 3 readers (2 match), 2 tokens, 3 insertions, 3 waiting events | a token swapped before and while it is read, on the same and on another reader |
| `monitor_ends` | 2 readers (1 matches), 2 tokens, 3 insertions, 2 events | events waiting behind an inspection that hangs |
| `probe_file` | 2 readers, 1 HID path of the token in one of them, any part of which is there, 2 repetitions; `-label` and `-list` | every kind of worker before and after every other, a first and a warm repetition, up to 8 workers; captures do not share anything, so one is enough |
| `probe_prompt` | interactive, 3 lines, 1 HID path, 1 repetition | two captures with a line typed ahead, and `q` or the end of the input behind them |
| `device_clients` | up to 3 readers or devices, every outcome of every call | one that is passed over, one that is used, one that must not be looked at |

Symmetry is used in safety runs only. `CHECK_DEADLOCK FALSE` stands where a run
really ends: the one reading of `PcscRead`, the one input of a parser, the
monitor that has stopped, a probe or a client that has returned.

### Fairness

* `PcscDevice`: a call's own steps are taken; Close, once called, reaches the
  native connection; a call whose context is done or whose connection was closed
  gets an error from the native library (`Interrupted`; the comment of
  `Device.Close` and the context parameters say so); `sync.Mutex` does not starve
  a waiter, which is its documented starvation mode (strong fairness of `Lock`).
  Nothing makes a card answer, a caller cancel, or anyone close.
* `HidFeature`: the same, with the `ctx.Err()` tests at the head of both loops.
  Nothing makes the token answer. `CloseReturns` has a premise: callers cancel
  what goes on for too long. Without it `Close` may wait for ever, by design.
* `SerialMonitor`: the goroutine runs, native calls without a context return,
  interrupted ones fail, and `select`, which chooses at random, does not miss a
  done context for ever (strong fairness of `Stop`). `EveryCardAttempted` has the
  premise that no card makes the monitor wait for ever.
* `PcscRead`: every command is answered or fails in the end.
* `ProbeCapture`: the parent takes its steps (its enumerations and its file do not
  hang), its signal handler runs, time passes, and a process that is killed ends.
  Nothing makes a worker go on, the input goroutine get a line, or anyone type.

## What is proved

TLAPS proves every safety property of the runs and every refinement, for all values
of the constants that satisfy the assumptions of the modules. What the assumptions ask for, apart from types:

* `HidFeature`: reports carry at least one byte; a command takes fewer reports than
  there are numbers (`CommandLengths`): the two that the code sends, for the serial
  number and for more data, take one; fewer faults in one Transmit than there are
  numbers (`MaxFaults`), since nothing in the protocol could notice as many;
* `ProbeCapture`: two readers are not the same token, readers and paths are
  finitely many, and `Repeat` is at least one, which `main` checks;
* `Clients`: enumerations are finite;
* `VendorData`: a presence nibble of a card is below 8, its historical bytes are at
  most 15, which is what four bits of T0 can say, and a serial number is at most 255
  bytes, the most that one byte of length announces. The values and lengths are
  otherwise any.

In each component the properties follow from one inductive invariant, `Inv`, which
is at the end of the component's module; TLC checked it on the instances of the
runs before it was proved. The proofs go action by action. What makes each
inductive:

**PcscDevice.** A call at `serial` finds the OTP applet because it selected it and
nobody could change it since: `TransactionHeld` (its handle has the transaction,
so no other handle and no application reached the card), `LockHeld` (it has the
mutex, so no other call of the same handle did) and `StepsFit` (a call at a
reading step is one of a transactional method, which took both). `SelectHeld`
covers the SELECT whose answer is still being fetched. The same parts give
`ReadingUndisturbed`, `SettingSerialized` and `TransactionReported`. The
refinement maps `session` to the call that is between BeginTransaction and
EndTransaction on an open handle (`Owner`), of which there is at most one: every
step is a step of one session, a command outside of sessions, or a stutter.

**PcscRead.** `Learned` says what each step of the three ways to a serial number
knows about the token (the way it is on, the applet that is selected, what was
refused), `InOrder` which fields are decided by then. `SerialFound` and
`ConfigurationIndependent` are what is known at the end.

**HidFeature.** `LockHeld`, `Sending` (the call sends one command, and is where its
report number says), `TokenFollows` (the token has what was sent of that command
and nothing else) and `Receiving`: the token has not answered yet, or the call has
accepted so many reports of the answer and the token has given so many, which
differ by no more than the faults. With at most `SequenceMod - 1` of them, a report
with the number that is expected is the one expected: a statement on remainders,
for which `BasicFacts` has the lemmas.

**SerialMonitor.** Counting: attempts, waiting events and the insertions of
matching readers add up (`InsertionsAccounted`); serials, failures and the reading
that goes on are no more than the attempts (`AttemptsCounted`); and the monitor
has a transaction from its begin up to the Close of its connection only
(`TransactionClosed`).

**ProbeCapture.** `FileFollows` ties the last record of the file to the place of the
parent, and `Forgotten` says that a torn record is there only between the end of a
worker and the report of it, and never while a worker runs. From these the
refinement of `CaptureFile` follows record by record: every record of a worker and
every death within one is a step of the file (`WorkerRecords`, `WorkerTears`), and
the report is one of its two ends (`ReportEnds`).
`UnprimedFirst` needs `TargetsInOrder` (readers before paths, each once, for any
inventory) and `Primers` (who primed a token is an earlier worker, or this one past
its first GetInfo): with the division of the worker's number by `Repeat`, the
first repetition of a reader comes after other targets only. `CleanEndComplete` is
what `Measured` (what a worker without an error has recorded is what is behind
it, up to the commands of an applet that is not there) says of a worker that is
gone. `CapturesMatchLines` needs `LinesTaken`, the lines that the prompt took.

**Clients.** `HandlesHeld` (the one device a program is at is open, in these steps,
and no other), `SettingsFollow`, `FieldsFollow`, and for each of the four searches
what was passed over and why. `ChooseReaderIs` shows by induction that the loop of
`chooseReader` computes, for a list of any length, the first reader with a card that
matches, or else the first with a card.

**VendorData.** `Inv` ties what is left of the data to what was sent: a proper prefix
of it when it was cut, all of it and more when bytes follow it; of changed data it
says only that it is bytes, for what is proved of it holds of any bytes. What the
parsers make of such bytes are lemmas about the operators, and these carry the
weight:

* `ATRMeaning`: for *any* sequence of bytes, `ParseATR` reports what the grammar makes
  of it. The loop visits the presence bytes one after the other (`GroupsFollow`), and
  the chain that the grammar calls `PresenceBytes` either leaves the bytes, and the
  loop stops there with an error (`GroupsFound`), or ends where the loop ends, with
  the same verdict on the TCK; the exclusive or of the bytes is zero exactly when
  every bit is set in an even number of them (`ChecksumParity`).
* `IdentityOf`: what `Assemble` lays down for a card with any number of groups is
  accepted, its presence bytes are the T0 and TDs that were laid, and the historical
  bytes are found behind them.
* `SerialRead` and `CutSerialRefused`: the tag and the length that were sent decide,
  whatever follows them or is missing.
* `FlipMovesOneFlag`: flipping one bit of a byte changes no other (`FlipOne`), and
  each of the 19 flags reads a bit of its own.
* `OneOwner`: the number `ParseUint` computes has the digits it read (`FiveRead`,
  `EightRead`), and digits determine a number (`FiveDigitsDiffer`,
  `EightDigitsDiffer`). So a prefix owns a serial number exactly if its first five
  bytes are that number (`PrefixOwners`), and the range exactly if `InRange` holds
  (`RangeOwner`): zeros before eight digits change nothing. A number of the range
  begins with 70000 to 70002 or with a zero, which no prefix does; and a number
  that begins with a prefix has a first digit of 2 or more, so that with twenty
  digits or more it does not fit into 64 bits (`LongFits`), which is why `Owners` may
  stop at nineteen.

Induction is by `IntervalInduction` and `StrongInduction`, which speak of a set of
numbers where the library's theorems take an operator as a parameter, which the
provers cannot instantiate; a recursive function is shown to be the function that
solves its equation, or shown to exist by extending it one argument at a time.

Model-checked only:

* liveness (`pcsc_returns`, `hid_returns`, `monitor_ends`, `Terminates`,
  `WorkersEnd`, `ReturnsWhenInterrupted`), which these provers do not reach.

What the proofs changed in the models: the arms of CASE expressions exclude each
other now (the provers know nothing of overlapping ones), and `Skip` of
`ProbeCapture` asks for a worker that is not in the middle of a record, as the
goroutine of the code is at one place at a time. The bit operators of the parsers are
divisions and remainders (`Bytes`), since the ones of the library are recursive; the
loop of `historicalBytes` is a function of one argument, the state of the loop, and
its branches are IFs, the form in which the provers know a recursive function; what a
token sends has a name (`Encoding`), which `Inv` refers to.

## Not modelled

The bytes of the commands (`internal/protocol`), JSON, the text of flags, output
and errors, `Model.Name`, the contents of the probe's records. The native
libraries are external. Two `hid.Device`s on one path are not modelled: no code of
the repository opens a path twice.

## Plan

Every module of the plan is written, and every safety property is a theorem. No
hazard that is listed is left without a property.
