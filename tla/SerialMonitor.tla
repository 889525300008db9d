---------------------------- MODULE SerialMonitor ----------------------------
(***************************************************************************)
(* cmd/pcsc-serial-monitor: one goroutine that takes PC/SC events from a   *)
(* channel and, for every card inserted, reads its serial number through a *)
(* pcsc.Device and, when that fails, opens the reader again to trace the   *)
(* commands one by one. Meanwhile tokens come and go, other applications   *)
(* use them, and the user may press Ctrl-C.                                *)
(*                                                                         *)
(* The reading itself is that of PcscDevice and PcscRead: here it yields   *)
(* the serial number of the token it was opened on, or fails. A connection *)
(* dies with the insertion it was made for.                                *)
(***************************************************************************)
EXTENDS Naturals, Sequences, FiniteSets

CONSTANTS
    Readers,        \* PC/SC readers
    Matching,       \* those whose name contains the -reader substring
    Tokens,         \* tokens, which stand for their serial numbers too
    None,           \* no token, no reader
    MaxInsertions,  \* bound: insertions in a run
    MaxEvents       \* bound: events waiting in the channel

ASSUME ConstantsAssumption ==
    /\ Matching \subseteq Readers
    /\ None \notin Readers \cup Tokens
    /\ MaxInsertions \in Nat
    /\ MaxEvents \in Nat

VARIABLES
    present,    \* reader -> the token on it
    born,       \* reader -> the number of its last insertion
    insertions, \* insertions so far
    shown,      \* those of them on matching readers
    events,     \* the receiver's channel
    listening,  \* the channel is not closed
    canceled,   \* the user pressed Ctrl-C
    busy,       \* the readers whose card another application has locked
    pc,         \* where the monitor is
    reader,     \* the reader it inspects
    conn,       \* the insertion its open connection belongs to, 0 if closed
    holds,      \* the monitor has the transaction of the card in reader
    serial,     \* the serial number read, None after an error
    attempts,   \* monitorResults
    failures,
    serials

world   == <<present, born, insertions, shown, events, listening, canceled, busy>>
results == <<attempts, failures, serials>>
vars    == <<world, pc, reader, conn, holds, serial, results>>

Places == {"select", "open", "begin", "read", "end", "close",
           "traceOpen", "traceBegin", "trace", "traceEnd", "traceClose", "done"}

\* Where the monitor waits for a card or for another application.
Waits == {"begin", "read", "traceBegin", "trace"}

WorldTypes ==
    /\ present \in [Readers -> Tokens \cup {None}]
    /\ born \in [Readers -> 0..MaxInsertions]
    /\ insertions \in 0..MaxInsertions
    /\ shown \in 0..insertions
    /\ events \in Seq([type : {"inserted", "removed"}, reader : Readers])
    /\ listening \in BOOLEAN /\ canceled \in BOOLEAN
    /\ busy \subseteq Readers

ResultTypes ==
    /\ attempts \in 0..MaxInsertions
    /\ failures \in 0..attempts
    /\ serials \subseteq Tokens

TypeOK ==
    /\ WorldTypes
    /\ ResultTypes
    /\ pc \in Places
    /\ reader \in Readers \cup {None}
    /\ conn \in 0..MaxInsertions
    /\ pc \in {"select", "open", "traceOpen", "done"} => conn = 0
    /\ holds \in BOOLEAN
    /\ serial \in Tokens \cup {None}

Init ==
    /\ present = [r \in Readers |-> None]
    /\ born = [r \in Readers |-> 0]
    /\ insertions = 0
    /\ shown = 0
    /\ events = <<>>
    /\ listening = TRUE
    /\ canceled = FALSE
    /\ busy = {}
    /\ pc = "select"
    /\ reader = None
    /\ conn = 0
    /\ holds = FALSE
    /\ serial = None
    /\ attempts = 0
    /\ failures = 0
    /\ serials = {}

-----------------------------------------------------------------------------
\* The world around the monitor.

Insert(r, t) ==
    /\ present[r] = None
    /\ \A q \in Readers : present[q] # t
    /\ insertions < MaxInsertions
    /\ Len(events) < MaxEvents
    /\ present' = [present EXCEPT ![r] = t]
    /\ insertions' = insertions + 1
    /\ born' = [born EXCEPT ![r] = insertions']
    /\ shown' = IF r \in Matching THEN shown + 1 ELSE shown
    /\ events' = Append(events, [type |-> "inserted", reader |-> r])
    /\ UNCHANGED <<listening, canceled, busy, pc, reader, conn, holds, serial, results>>

\* Whatever was locked on the card is free.
Remove(r) ==
    /\ present[r] # None
    /\ Len(events) < MaxEvents
    /\ present' = [present EXCEPT ![r] = None]
    /\ events' = Append(events, [type |-> "removed", reader |-> r])
    /\ busy' = busy \ {r}
    /\ holds' = (holds /\ reader # r)
    /\ UNCHANGED <<born, insertions, shown, listening, canceled, pc, reader, conn, serial, results>>

OtherLocks(r) ==
    /\ present[r] # None
    /\ r \notin busy
    /\ ~(holds /\ reader = r)
    /\ busy' = busy \cup {r}
    /\ UNCHANGED <<present, born, insertions, shown, events, listening, canceled,
                   pc, reader, conn, holds, serial, results>>

OtherUnlocks(r) ==
    /\ r \in busy
    /\ busy' = busy \ {r}
    /\ UNCHANGED <<present, born, insertions, shown, events, listening, canceled,
                   pc, reader, conn, holds, serial, results>>

\* The PC/SC service ends: the channel is closed behind the waiting events.
StopListening ==
    /\ listening
    /\ listening' = FALSE
    /\ UNCHANGED <<present, born, insertions, shown, events, canceled, busy,
                   pc, reader, conn, holds, serial, results>>

Interrupt ==
    /\ ~canceled
    /\ canceled' = TRUE
    /\ UNCHANGED <<present, born, insertions, shown, events, listening, busy,
                   pc, reader, conn, holds, serial, results>>

-----------------------------------------------------------------------------
\* run: select takes a done context, or an event, or a closed channel, and
\* chooses at random when several are ready.

GoTo(place) == pc' = place

\* The connection is to the card that is there now.
Alive == conn # 0 /\ present[reader] # None /\ born[reader] = conn

Stop ==
    /\ pc = "select"
    /\ canceled \/ (~listening /\ events = <<>>)
    /\ GoTo("done")
    /\ UNCHANGED <<world, reader, conn, holds, serial, results>>

\* Mutant: only the latest event is looked at.
ReceiveLatest ==
    /\ pc = "select"
    /\ events # <<>>
    /\ events' = <<>>
    /\ IF events[Len(events)].type = "inserted" /\ events[Len(events)].reader \in Matching
       THEN /\ attempts' = attempts + 1
            /\ reader' = events[Len(events)].reader
            /\ GoTo("open")
       ELSE UNCHANGED <<attempts, reader, pc>>
    /\ UNCHANGED <<present, born, insertions, shown, listening, canceled, busy,
                   conn, holds, serial, failures, serials>>

Receive ==
    /\ pc = "select"
    /\ events # <<>>
    /\ events' = Tail(events)
    /\ IF Head(events).type = "inserted" /\ Head(events).reader \in Matching
       THEN /\ attempts' = attempts + 1
            /\ reader' = Head(events).reader
            /\ GoTo("open")
       ELSE UNCHANGED <<attempts, reader, pc>>
    /\ UNCHANGED <<present, born, insertions, shown, listening, canceled, busy,
                   conn, holds, serial, failures, serials>>

\* Mutant: the failure is reported, not counted.
FailedUncounted ==
    /\ serial' = None
    /\ GoTo("traceOpen")
    /\ UNCHANGED results

\* inspect after a failed reading: one more failure, and the trace.
Failed ==
    /\ failures' = failures + 1
    /\ serial' = None
    /\ GoTo("traceOpen")
    /\ UNCHANGED <<attempts, serials>>

-----------------------------------------------------------------------------
\* readSerialNumber: Open, Device.SerialNumber, Close.

Open ==
    /\ pc = "open"
    /\ \/ /\ present[reader] # None
          /\ conn' = born[reader]
          /\ GoTo("begin")
          /\ UNCHANGED <<serial, results>>
       \/ Failed /\ UNCHANGED conn
    /\ UNCHANGED <<world, reader, holds>>

BeginTransaction(place, inside) ==
    /\ pc = place
    /\ Alive
    /\ reader \notin busy
    /\ ~holds
    /\ holds' = TRUE
    /\ GoTo(inside)
    /\ UNCHANGED <<world, reader, conn, serial, results>>

Begin == BeginTransaction("begin", "read")

\* ReadSerialNumber succeeds on a token that is still there.
Read ==
    /\ pc = "read"
    /\ Alive
    /\ serial' \in {present[reader], None}
    /\ GoTo("end")
    /\ UNCHANGED <<world, reader, conn, holds, results>>

\* A native call fails, because the context is done, the card is gone or locked
\* by others, or for another reason.
CallFails ==
    /\ pc \in Waits
    /\ serial' = None
    /\ GoTo(CASE pc = "begin"      -> "close"
              [] pc = "read"       -> "end"
              [] pc = "traceBegin" -> "traceClose"
              [] pc = "trace"      -> "traceEnd")
    /\ UNCHANGED <<world, reader, conn, holds, results>>

\* The deferred EndTransaction: its error joins the result, and the transaction
\* may remain.
End ==
    /\ pc = "end"
    /\ \/ holds' = FALSE /\ UNCHANGED serial
       \/ holds' \in {holds, FALSE} /\ serial' = None
    /\ GoTo("close")
    /\ UNCHANGED <<world, reader, conn, results>>

\* Mutant: Close is left out.
CloseForgotten ==
    /\ pc = "close"
    /\ conn' = 0
    /\ IF serial = None
       THEN Failed
       ELSE /\ serials' = serials \cup {serial}
            /\ GoTo("select")
            /\ UNCHANGED <<attempts, failures, serial>>
    /\ UNCHANGED <<world, reader, holds>>

\* The deferred Close, which ends a transaction that is left; its error joins
\* the result. inspect counts the reading.
Close ==
    /\ pc = "close"
    /\ conn' = 0
    /\ holds' = FALSE
    /\ \/ /\ serial # None
          /\ serials' = serials \cup {serial}
          /\ serial' = None
          /\ GoTo("select")
          /\ UNCHANGED <<attempts, failures>>
       \/ Failed
    /\ UNCHANGED <<world, reader>>

-----------------------------------------------------------------------------
\* traceDevice.

TraceOpen ==
    /\ pc = "traceOpen"
    /\ \/ /\ present[reader] # None
          /\ conn' = born[reader]
          /\ GoTo("traceBegin")
       \/ UNCHANGED conn /\ GoTo("select")
    /\ UNCHANGED <<world, reader, holds, serial, results>>

TraceBegin == BeginTransaction("traceBegin", "trace")

\* The six commands, up to the first transport error, whatever their status.
Trace ==
    /\ pc = "trace"
    /\ Alive
    /\ GoTo("traceEnd")
    /\ UNCHANGED <<world, reader, conn, holds, serial, results>>

TraceEnd ==
    /\ pc = "traceEnd"
    /\ holds' \in {holds, FALSE}
    /\ GoTo("traceClose")
    /\ UNCHANGED <<world, reader, conn, serial, results>>

TraceClose ==
    /\ pc = "traceClose"
    /\ conn' = 0
    /\ holds' = FALSE
    /\ GoTo("select")
    /\ UNCHANGED <<world, reader, serial, results>>

-----------------------------------------------------------------------------
LocalStep ==
    \/ Receive
    \/ Open
    \/ End
    \/ Close
    \/ TraceOpen
    \/ TraceEnd
    \/ TraceClose

MonitorStep ==
    \/ LocalStep
    \/ Stop
    \/ Begin
    \/ Read
    \/ CallFails
    \/ TraceBegin
    \/ Trace

WorldStep ==
    \/ \E r \in Readers, t \in Tokens : Insert(r, t)
    \/ \E r \in Readers : Remove(r) \/ OtherLocks(r) \/ OtherUnlocks(r)
    \/ StopListening
    \/ Interrupt

Next == MonitorStep \/ WorldStep

Spec == Init /\ [][Next]_vars

\* Mutant: only the trace gets the context.
InterruptedTracing ==
    /\ canceled
    /\ pc \in {"traceBegin", "trace"}
    /\ CallFails

\* A call whose context is done, or whose card was removed, is given up.
Interrupted ==
    /\ canceled \/ ~Alive
    /\ CallFails

\* The goroutine runs; native calls without a context return; a select that is
\* ready for Ctrl-C again and again does not miss it for ever, since it chooses
\* at random. Nothing makes a card answer or another application let it go.
Fairness ==
    /\ WF_vars(LocalStep)
    /\ WF_vars(Interrupted)
    /\ SF_vars(Stop)

FairSpec == Spec /\ Fairness

-----------------------------------------------------------------------------
\* Properties.

\* The events of insertions that the monitor has still to attempt.
Waiting ==
    {i \in 1..Len(events) : events[i].type = "inserted" /\ events[i].reader \in Matching}

\* Every card shown to a matching reader is attempted once or still waits in the
\* channel: no insertion is lost or attempted twice, however fast tokens change.
InsertionsAccounted == shown = attempts + Cardinality(Waiting)

\* The summary adds up: an attempt ends as one failure or as one serial number,
\* which may be a known one, so that the serials and failures never exceed the
\* attempts and there are serials as soon as one attempt did not fail.
ResultsAccounted ==
    pc \in {"select", "done"} =>
        /\ Cardinality(serials) + failures <= attempts
        /\ serials = {} => failures = attempts

\* The trace never waits for a transaction of the reading that failed before it,
\* even when that reading could not end it.
TraceUnblocked == pc = "traceBegin" => ~holds

-----------------------------------------------------------------------------
\* The inductive invariant behind the three properties above.

\* What inspect works on is a reader of the run that an event named.
ReaderNamed == pc \notin {"select", "done"} => reader \in Matching

\* The attempts whose result is not known yet: the reading that goes on.
Undecided == IF pc \in {"open", "begin", "read", "end", "close"} THEN 1 ELSE 0

\* Every other attempt was counted once.
AttemptsCounted ==
    /\ IsFiniteSet(serials)
    /\ Cardinality(serials) + failures + Undecided <= attempts
    /\ serials = {} => failures + Undecided = attempts

\* A transaction is held from its begin up to the Close of its connection only.
TransactionClosed ==
    holds => pc \in {"read", "end", "close", "trace", "traceEnd", "traceClose"}

Inv ==
    /\ TypeOK
    /\ ReaderNamed
    /\ InsertionsAccounted
    /\ AttemptsCounted
    /\ TransactionClosed

-----------------------------------------------------------------------------

\* Ctrl-C ends the monitor, whatever waits in the channel, although a card never
\* answers and another application never lets go.
StopsWhenInterrupted == canceled ~> pc = "done"

\* Every card shown is attempted in the end, unless the monitor ends, provided
\* no card or application makes it wait for ever for the ones before.
EveryCardAttempted ==
    []<>(pc \notin Waits)
        => \A n \in 1..MaxInsertions : shown = n ~> (attempts >= n \/ pc = "done")

=============================================================================
