------------------------------- MODULE Clients -------------------------------
(***************************************************************************)
(* The sequential code that opens a device, uses it and closes it:         *)
(*   info      hid.ReadDeviceInfo, which also reads the ATR over a CTAPHID *)
(*             channel that it borrows                                     *)
(*   hid       examples/hid, with its search for a device that answers     *)
(*   ctaphid   examples/ctaphid on ctaphid.Open and Device.ATR             *)
(*   pcsc      examples/pcsc                                               *)
(*   settings  examples/pcsc-reader-settings                               *)
(* What a device answers and whether a call fails is open; what is read is *)
(* a value or an error.                                                    *)
(***************************************************************************)
EXTENDS Naturals, Sequences, FiniteSets

CONSTANT MaxListed      \* bound: the readers or HID devices an enumeration finds

ASSUME MaxListedAssumption == MaxListed \in Nat \ {0}

Program ==
    [info     |-> <<"open", "serial", "close", "vendor", "atr", "join", "return", "returned">>,
     hid      |-> <<"next", "open", "serial", "close", "returned">>,
     ctaphid  |-> <<"next", "open", "channel", "atr", "close", "returned">>,
     pcsc     |-> <<"next", "open", "serial", "atr", "config", "close", "returned">>,
     settings |-> <<"parse", "find", "open", "sound", "nfc", "notice", "close", "returned">>]

Fields   == {"serial", "atr", "config"}
Settings == {"sound", "nfc"}

\* How a reader shows itself: its name contains the filter, it has a card.
ReaderInfo == [matches : BOOLEAN, present : BOOLEAN]

VARIABLES
    program,        \* which of the five runs
    explicit,       \* a path or a filter was given
    vendor,         \* info: a CTAPHID channel was lent
    requested,      \* settings: those that are to be set
    listed,         \* the readers or devices, in the order of the enumeration
    canceled,       \* info: the caller's context is done
    step,           \* where the program is
    at,             \* the reader or device it is at
    handles,        \* reader or device -> its open handles
    info,           \* field -> "absent", "value" or "error"
    err,            \* what the returned error joins
    acknowledged,   \* settings: the variable of the program
    notice,         \* settings: the notice to power-cycle was printed
    acks,           \* settings: what the reader did acknowledge
    refused         \* hid: devices that did not open or not answer

inputs == <<program, explicit, vendor, requested, listed>>
report == <<acknowledged, notice, acks>>
vars   == <<inputs, canceled, step, at, handles, info, err, report, refused>>

Devices == 1..MaxListed

TypeOK ==
    /\ program \in DOMAIN Program
    /\ {explicit, vendor, canceled, acknowledged, notice} \subseteq BOOLEAN
    /\ requested \subseteq Settings /\ acks \subseteq requested
    /\ listed \in UNION {[1..n -> ReaderInfo] : n \in 0..MaxListed}
    /\ step \in {Program[program][i] : i \in DOMAIN Program[program]} \cup {"drop"}
    /\ at \in 0..MaxListed
    /\ handles \in [Devices -> Nat]
    /\ info \in [Fields -> {"absent", "value", "error"}]
    /\ err \subseteq Fields \cup Settings
                \cup {"arguments", "enumerate", "none", "open", "channel", "close", "context"}
    /\ refused \subseteq Devices

\* A given path is that of device 1, whether there is such a device or not.
Init ==
    /\ program \in DOMAIN Program
    /\ explicit \in BOOLEAN
    /\ vendor \in (IF program = "info" THEN BOOLEAN ELSE {FALSE})
    /\ requested \in (IF program = "settings" THEN SUBSET Settings ELSE {{}})
    /\ listed \in UNION {[1..n -> ReaderInfo] : n \in 0..MaxListed}
    /\ canceled = FALSE
    /\ IF program = "info" \/ (explicit /\ program \in {"hid", "ctaphid"})
       THEN at = 1 /\ step = "open"
       ELSE at = 0 /\ step = Head(Program[program])
    /\ handles = [d \in Devices |-> 0]
    /\ info = [f \in Fields |-> "absent"]
    /\ err = {}
    /\ acknowledged = FALSE /\ notice = FALSE /\ acks = {}
    /\ refused = {}

-----------------------------------------------------------------------------
\* Finding a reader or a device.

GoTo(place) == step' = place

Successor(place) ==
    LET steps == Program[program]
    IN  steps[1 + CHOOSE i \in 1..(Len(steps) - 1) : steps[i] = place]

GoOn == GoTo(Successor(step))

ReturnWith(errors) == GoTo("returned") /\ err' = err \cup errors

\* Mutant: the fallback is the last reader with a card.
ChooseReaderLast(readers, fallback) ==
    LET returned(choice) == choice # 0 /\ readers[choice].matches
        chosen[i \in 0..Len(readers)] ==
            IF i = 0 THEN 0
            ELSE IF returned(chosen[i - 1]) \/ ~readers[i].present THEN chosen[i - 1]
            ELSE IF readers[i].matches \/ fallback THEN i
            ELSE chosen[i - 1]
    IN  chosen[Len(readers)]

\* chooseReader: what its loop has after i readers, 0 for the empty name. A reader
\* whose name contains the filter has been returned, any other is the fallback.
ChooseReader(readers, fallback) ==
    LET returned(choice) == choice # 0 /\ readers[choice].matches
        chosen[i \in 0..Len(readers)] ==
            IF i = 0 THEN 0
            ELSE IF returned(chosen[i - 1]) \/ ~readers[i].present THEN chosen[i - 1]
            ELSE IF readers[i].matches \/ (fallback /\ chosen[i - 1] = 0) THEN i
            ELSE chosen[i - 1]
    IN  chosen[Len(readers)]

\* Flags and values; at least one setting has to be asked for.
ParseArguments ==
    /\ step = "parse"
    /\ \/ ReturnWith({"arguments"})
       \/ requested # {} /\ GoOn /\ UNCHANGED err
    /\ UNCHANGED <<inputs, canceled, at, handles, info, report, refused>>

\* findReader of the settings, which looks at the whole list first.
FindReader ==
    /\ step = "find"
    /\ \/ ReturnWith({"enumerate"}) /\ UNCHANGED at
       \/ /\ at' = ChooseReader(listed, ~explicit)
          /\ IF at' = 0 THEN ReturnWith({"none"}) ELSE GoOn /\ UNCHANGED err
    /\ UNCHANGED <<inputs, canceled, handles, info, report, refused>>

\* The other enumerations stop at the first that will do; examples/pcsc does
\* not ask for a card.
NextListed ==
    /\ step = "next"
    /\ \/ ReturnWith({"enumerate"}) /\ UNCHANGED at
       \/ at = Len(listed) /\ ReturnWith({"none"}) /\ UNCHANGED at
       \/ /\ at < Len(listed)
          /\ at' = at + 1
          /\ IF program = "pcsc" /\ explicit /\ ~listed[at'].matches THEN GoTo("next") ELSE GoOn
          /\ UNCHANGED err
    /\ UNCHANGED <<inputs, canceled, handles, info, report, refused>>

-----------------------------------------------------------------------------
\* Using it.

OpenHandle  == handles' = [handles EXCEPT ![at] = @ + 1]
CloseHandle == handles' = [handles EXCEPT ![at] = @ - 1]

\* examples/hid goes on to the next device, ReadDeviceInfo to the ATR.
Open ==
    /\ step = "open"
    /\ \/ /\ OpenHandle
          /\ GoOn
          /\ UNCHANGED <<info, err, refused>>
       \/ /\ UNCHANGED handles
          /\ CASE program = "info" ->
                    /\ info' = [info EXCEPT !["serial"] = "error"] /\ err' = err \cup {"serial"}
                    /\ GoTo("vendor") /\ UNCHANGED refused
               [] program = "hid" /\ ~explicit ->
                    GoTo("next") /\ refused' = refused \cup {at} /\ UNCHANGED <<info, err>>
               [] OTHER -> ReturnWith({"open"}) /\ UNCHANGED <<info, refused>>
    /\ UNCHANGED <<inputs, canceled, at, report>>

\* ctaphid.Open of the library allocates the channel; it leaves the handle to
\* its caller when it fails.
OpenChannel ==
    /\ step = "channel"
    /\ \/ GoOn /\ UNCHANGED err
       \/ GoTo("drop") /\ err' = err \cup {"channel"}
    /\ UNCHANGED <<inputs, canceled, at, handles, info, report, refused>>

\* One of the device's methods. examples/pcsc only prints the error.
Read ==
    /\ step \in Fields
    /\ \/ /\ info' = [info EXCEPT ![step] = "value"]
          /\ GoOn
          /\ UNCHANGED <<err, refused>>
       \/ /\ info' = [info EXCEPT ![step] = "error"]
          /\ refused' = IF program = "hid" THEN refused \cup {at} ELSE refused
          /\ CASE program = "info"    -> GoOn /\ err' = err \cup {step}
               [] program = "pcsc"    -> GoOn /\ UNCHANGED err
               [] program = "ctaphid" -> GoTo("close") /\ err' = err \cup {step}
               [] program = "hid"     -> /\ GoTo("drop")
                                         /\ err' = IF explicit THEN err \cup {step} ELSE err
    /\ UNCHANGED <<inputs, canceled, at, handles, report>>

\* Mutant: continue without Close.
DropKept ==
    /\ step = "drop"
    /\ GoTo(IF program = "hid" /\ ~explicit THEN "next" ELSE "returned")
    /\ UNCHANGED <<inputs, canceled, at, handles, info, err, report, refused>>

\* The handle is of no use: the search goes on without it, whatever its Close
\* says, or the error of Close joins that of before.
Drop ==
    /\ step = "drop"
    /\ CloseHandle
    /\ IF program = "hid" /\ ~explicit
       THEN GoTo("next") /\ UNCHANGED err
       ELSE ReturnWith({}) \/ ReturnWith({"close"})
    /\ UNCHANGED <<inputs, canceled, at, info, report, refused>>

\* Mutant: acknowledged = true is missing after the sound command.
SetUnnoted ==
    /\ step \in Settings
    /\ \/ step \notin requested /\ GoOn /\ UNCHANGED <<err, acknowledged, acks>>
       \/ /\ step \in requested
          /\ GoOn
          /\ acknowledged' = (acknowledged \/ step = "nfc")
          /\ acks' = acks \cup {step}
          /\ UNCHANGED err
       \/ /\ step \in requested
          /\ GoTo("notice")
          /\ err' = err \cup {step}
          /\ UNCHANGED <<acknowledged, acks>>
    /\ UNCHANGED <<inputs, canceled, at, handles, info, notice, refused>>

\* The reader acknowledges a setting or does not; the deferred notice follows.
Set ==
    /\ step \in Settings
    /\ \/ step \notin requested /\ GoOn /\ UNCHANGED <<err, acknowledged, acks>>
       \/ /\ step \in requested
          /\ GoOn
          /\ acknowledged' = TRUE
          /\ acks' = acks \cup {step}
          /\ UNCHANGED err
       \/ /\ step \in requested
          /\ GoTo("notice")
          /\ err' = err \cup {step}
          /\ UNCHANGED <<acknowledged, acks>>
    /\ UNCHANGED <<inputs, canceled, at, handles, info, notice, refused>>

Notice ==
    /\ step = "notice"
    /\ notice' = acknowledged
    /\ GoOn
    /\ UNCHANGED <<inputs, canceled, at, handles, info, err, acknowledged, acks, refused>>

\* Mutant: ReadDeviceInfo returns when Close fails.
CloseFatal ==
    /\ step = "close"
    /\ CloseHandle
    /\ \/ GoOn /\ UNCHANGED err
       \/ ReturnWith({"close"})
    /\ UNCHANGED <<inputs, canceled, at, info, report, refused>>

\* The Close of ReadDeviceInfo, and the deferred one of the examples.
Close ==
    /\ step = "close"
    /\ CloseHandle
    /\ err' \in {err, err \cup {"close"}}
    /\ GoOn
    /\ UNCHANGED <<inputs, canceled, at, info, report, refused>>

\* The ATR is read if a channel was lent and there still is time.
CheckVendor ==
    /\ step = "vendor"
    /\ GoTo(IF vendor /\ ~canceled THEN "atr" ELSE "join")
    /\ UNCHANGED <<inputs, canceled, at, handles, info, err, report, refused>>

\* The result is put together, and returned.
Join ==
    /\ step = "join"
    /\ err' = IF canceled THEN err \cup {"context"} ELSE err
    /\ GoOn
    /\ UNCHANGED <<inputs, canceled, at, handles, info, report, refused>>

Return ==
    /\ step = "return"
    /\ GoOn
    /\ UNCHANGED <<inputs, canceled, at, handles, info, err, report, refused>>

\* The caller of ReadDeviceInfo; the examples have the background context.
Cancel ==
    /\ program = "info" /\ step # "returned"
    /\ ~canceled
    /\ canceled' = TRUE
    /\ UNCHANGED <<inputs, step, at, handles, info, err, report, refused>>

Next ==
    \/ ParseArguments \/ FindReader \/ NextListed
    \/ Open \/ OpenChannel \/ Read \/ Drop \/ Set \/ Notice \/ Close
    \/ CheckVendor \/ Join \/ Return \/ Cancel

Spec == Init /\ [][Next]_vars

-----------------------------------------------------------------------------
\* Properties.

\* A handle is used while it is open, and closed once: no way out, the search
\* for another device and a channel that cannot be opened included, leaves one
\* open or closes it again.
HandlesReleased ==
    /\ \A d \in Devices : handles[d] \in {0, 1}
    /\ step \in {"channel", "serial", "config", "sound", "nfc", "notice", "close", "drop"}
            => handles[at] = 1
    /\ step \in {"next", "vendor", "returned"} => \A d \in Devices : handles[d] = 0

\* The user is told to power-cycle the reader if and only if it acknowledged
\* something, also when the setting after it fails; success means everything
\* that was asked for.
SettingsReported ==
    program = "settings" /\ step = "returned" =>
        /\ notice <=> acks # {}
        /\ err = {} => requested # {} /\ acks = requested

First(set) == CHOOSE i \in set : \A j \in set : i <= j

\* Which reader or device a program may choose, and whether it may give up: by
\* the list as a whole, not by the order in which it is looked through.
Candidates ==
    LET all     == DOMAIN listed
        present == {i \in all : listed[i].present}
        named   == {i \in present : listed[i].matches}
    IN  CASE program = "settings" -> IF named # {} \/ explicit THEN named ELSE present
          [] program = "pcsc"     -> {i \in all : explicit => listed[i].matches}
          [] program = "hid"      -> all \ refused
          [] program = "ctaphid"  -> all

\* A program uses the first of its candidates, and gives up for want of one only
\* if there is none.
ChoiceRight ==
    /\ /\ program \in {"settings", "pcsc"} \/ (program \in {"hid", "ctaphid"} /\ ~explicit)
       /\ step \in {"open", "channel", "serial", "sound", "nfc", "close"}
       => Candidates # {} /\ at = First(Candidates)
    /\ "none" \in err => Candidates = {}

\* A value and an error are what a Descriptor shows of a reading.
Observed == INSTANCE Observations
                WITH Fields <- {"serial", "atr"}, Interruptions <- {"close", "context"},
                     Excuses <- {"context"},
                     wanted <- IF program = "info"
                               THEN {"serial"} \cup (IF vendor THEN {"atr"} ELSE {}) ELSE {},
                     info <- IF program = "info" THEN [f \in {"serial", "atr"} |-> info[f]]
                             ELSE [f \in {"serial", "atr"} |-> "absent"],
                     err <- IF program = "info" THEN err ELSE {},
                     done <- program = "info" /\ step = "returned"

\* ReadDeviceInfo over HID implements the independent observations that the
\* PC/SC readings implement: neither a failing Open nor a failing Close takes
\* anything away but what it stands for, and an ATR that was never tried, though a
\* channel was lent, is owed to the context, whose error is then in the result.
ImplementsObservations == Observed!Spec

-----------------------------------------------------------------------------
\* The inductive invariant behind the safety properties.

\* The device that the program is at is open, or none is.
Holding ==
    \/ step \in {"channel", "serial", "config", "sound", "nfc", "notice", "close", "drop"}
    \/ step = "atr" /\ program # "info"

HandlesHeld ==
    /\ \A d \in Devices : handles[d] = IF Holding /\ d = at THEN 1 ELSE 0
    /\ Holding \/ step = "open" => at \in Devices
    /\ step = "drop" => program \in {"hid", "ctaphid"}

\* The settings come one after the other, and the notice after them.
SettingsFollow ==
    program = "settings" =>
        /\ acknowledged <=> acks # {}
        /\ notice <=> acknowledged /\ step \in {"close", "returned"}
        /\ step \in {"parse", "find", "open", "sound"} => acks = {} /\ err = {}
        /\ step = "nfc" => acks = requested \cap {"sound"} /\ err = {}
        /\ step # "parse" /\ err = {} => requested # {}
        /\ step \in {"notice", "close", "returned"} /\ err = {} => acks = requested

\* What was passed over, and why, in each of the four searches.
FoundBySettings ==
    program = "settings" =>
        /\ step \notin {"parse", "find", "returned"} => at = ChooseReader(listed, ~explicit)
        /\ "none" \in err => ChooseReader(listed, ~explicit) = 0

FoundByName ==
    program = "pcsc" =>
        /\ at <= Len(listed)
        /\ \A i \in 1..Len(listed) :
              i < at \/ (i = at /\ step = "next") \/ "none" \in err
                  => explicit /\ ~listed[i].matches
        /\ step \notin {"next", "returned"} => at # 0 /\ (explicit => listed[at].matches)

FoundByAnswer ==
    program = "hid" /\ ~explicit =>
        /\ at <= Len(listed)
        /\ step \in {"next", "drop"} => refused = 1..at
        /\ step \in {"open", "serial", "close"} => at # 0 /\ refused = 1..(at - 1)
        /\ "none" \in err => refused = 1..Len(listed)

FoundFirst ==
    program = "ctaphid" /\ ~explicit =>
        /\ step = "next" => at = 0
        /\ step \notin {"next", "returned"} => at = 1 /\ 1 <= Len(listed)
        /\ "none" \in err => Len(listed) = 0

\* Only a search may end without finding anything, and it ends the program.
Searches ==
    /\ step = "next" => program = "pcsc" \/ (program \in {"hid", "ctaphid"} /\ ~explicit)
    /\ "none" \in err =>
          /\ step = "returned"
          /\ program \in {"settings", "pcsc"} \/ (program \in {"hid", "ctaphid"} /\ ~explicit)

\* How far ReadDeviceInfo is with its two fields.
FieldsFollow ==
    program = "info" =>
        /\ info["serial"] = "absent" <=> step \in {"open", "serial"}
        /\ step \in {"open", "serial", "close", "vendor", "atr"} => info["atr"] = "absent"
        /\ step = "atr" => vendor
        /\ step = "join" => info["atr"] # "absent" \/ ~vendor \/ canceled
        /\ step = "return" => info["atr"] # "absent" \/ ~vendor \/ "context" \in err

Inv ==
    /\ TypeOK /\ HandlesHeld /\ SettingsFollow /\ FieldsFollow
    /\ Searches /\ FoundBySettings /\ FoundByName /\ FoundByAnswer /\ FoundFirst

=============================================================================
