----------------------------- MODULE HidFeature -----------------------------
(***************************************************************************)
(* hid.Device: APDUs in feature reports of at most ChunkSize payload       *)
(* bytes, numbered modulo SequenceMod, sent and polled by goroutines that share *)
(* one Device. Unlike pcsc.Device, Close takes the mutex.                  *)
(*                                                                         *)
(* The token is external. It starts over on a report number 0 it does not  *)
(* expect, forgets what it had to say when a new command begins, and may   *)
(* leave a command pending for ever. A report may be lost or read twice,   *)
(* at most MaxFaults times during one Transmit.                            *)
(***************************************************************************)
EXTENDS Naturals, Sequences

CONSTANTS
    Calls,              \* goroutine slots
    NoCall,             \* a free mutex
    ChunkSize,          \* payload bytes of a report (61)
    SequenceMod,             \* report numbers (16)
    CommandLengths,     \* lengths of commands
    ResponseLengths,    \* lengths of responses
    TransmitIds,        \* bound: Transmits are numbered modulo TransmitIds
    MaxFaults           \* bound: reports lost or repeated during a Transmit

ASSUME ConstantsAssumption ==
    /\ NoCall \notin Calls
    /\ ChunkSize \in Nat \ {0}
    /\ SequenceMod \in Nat \ {0, 1}
    /\ CommandLengths \subseteq 1..(ChunkSize * (SequenceMod - 1))
    /\ ResponseLengths \subseteq Nat \ {0}
    /\ TransmitIds \in Nat \ {0}
    /\ MaxFaults \in 0..(SequenceMod - 1)

\* Byte i of the command, or the response, of Transmit number n.
Command(n, length)  == [i \in 1..length |-> <<"command", n, i, length>>]
Response(n, length) == [i \in 1..length |-> <<"response", n, i, length>>]

Bytes == {"command", "response"} \X Nat \X Nat \X Nat

\* A feature report carries at least one byte, and no more than fit.
Reports ==
    [number : 0..(SequenceMod - 1), more : BOOLEAN,
     data : {data \in Seq(Bytes) : Len(data) \in 1..ChunkSize}]

VARIABLES
    mu,         \* the call that holds Device.mu
    pc,         \* call -> where it is
    canceled,   \* call -> its context is done
    transmit,   \* call -> the number of its Transmit
    command,    \* call -> the APDU its Transmit sends
    offset,     \* call -> bytes of it already sent
    sequence,   \* call -> the next report number
    response,   \* call -> the bytes received
    transmits,  \* the number of the last Transmit
    closed,     \* the native device is closed
    partial,    \* token: the bytes of an incomplete command
    expected,   \* token: the number of the report that continues it
    asked,      \* token: the command it works on
    unread,     \* token: the reports of its answer that were not polled yet
    faults      \* reports lost or repeated since the Transmit began

callVars  == <<canceled, transmit, command, offset, sequence, response, transmits>>
tokenVars == <<partial, expected, asked, unread, faults>>
vars      == <<mu, pc, callVars, closed, tokenVars>>

Places == {"idle", "lock", "send", "receive", "answered", "unlock",
           "lockToClose", "close"}

TypeOK ==
    /\ mu \in Calls \cup {NoCall}
    /\ pc \in [Calls -> Places]
    /\ canceled \in [Calls -> BOOLEAN]
    /\ transmit \in [Calls -> 0..(TransmitIds - 1)]
    /\ command \in [Calls -> Seq(Bytes)] /\ response \in [Calls -> Seq(Bytes)]
    /\ offset \in [Calls -> Nat] /\ sequence \in [Calls -> 0..(SequenceMod - 1)]
    /\ transmits \in 0..(TransmitIds - 1)
    /\ closed \in BOOLEAN
    /\ expected \in 0..(SequenceMod - 1)
    /\ faults \in 0..MaxFaults
    /\ unread \in Seq(Reports)

Init ==
    /\ mu = NoCall
    /\ pc = [c \in Calls |-> "idle"]
    /\ canceled = [c \in Calls |-> FALSE]
    /\ transmit = [c \in Calls |-> 0]
    /\ command = [c \in Calls |-> <<>>]
    /\ offset = [c \in Calls |-> 0]
    /\ sequence = [c \in Calls |-> 0]
    /\ response = [c \in Calls |-> <<>>]
    /\ transmits = 0
    /\ closed = FALSE
    /\ partial = <<>>
    /\ expected = 0
    /\ asked = <<>>
    /\ unread = <<>>
    /\ faults = 0

-----------------------------------------------------------------------------
GoTo(c, place) == pc' = [pc EXCEPT ![c] = place]

\* Mutant: the payload runs one byte past the report.
FragmentTooLong(message, start, number) ==
    LET end == IF start + ChunkSize + 1 < Len(message)
               THEN start + ChunkSize + 1 ELSE Len(message)
    IN  [number |-> number, more |-> end < Len(message),
         data |-> SubSeq(message, start + 1, end)]

\* The report that carries message from offset start on.
Fragment(message, start, number) ==
    LET end == IF start + ChunkSize < Len(message) THEN start + ChunkSize ELSE Len(message)
    IN  [number |-> number, more |-> end < Len(message),
         data |-> SubSeq(message, start + 1, end)]

\* How the token cuts its answer.
Fragments(message) ==
    LET count == (Len(message) + ChunkSize - 1) \div ChunkSize
    IN  [i \in 1..count |-> Fragment(message, (i - 1) * ChunkSize, (i - 1) % SequenceMod)]

\* The token takes a report.
TokenReceives(report) ==
    LET data == IF report.number = expected THEN partial \o report.data
                ELSE IF report.number = 0 THEN report.data ELSE <<>>
    IN  /\ unread' = <<>>
        /\ IF report.more
           THEN /\ partial' = data
                /\ expected' = (report.number + 1) % SequenceMod
                /\ asked' = <<>>
           ELSE /\ partial' = <<>>
                /\ expected' = 0
                /\ asked' = data

-----------------------------------------------------------------------------
\* The calls.

Invoke(c) ==
    /\ pc[c] = "idle"
    /\ pc' \in {[pc EXCEPT ![c] = place] : place \in {"lock", "lockToClose"}}
    /\ UNCHANGED <<mu, callVars, closed, tokenVars>>

\* Transmit begins: its command, and both loops at their start.
StartTransmit(c) ==
    /\ transmits' = (transmits + 1) % TransmitIds
    /\ transmit' = [transmit EXCEPT ![c] = transmits']
    /\ \E length \in CommandLengths :
          command' = [command EXCEPT ![c] = Command(transmits', length)]
    /\ offset' = [offset EXCEPT ![c] = 0]
    /\ sequence' = [sequence EXCEPT ![c] = 0]
    /\ response' = [response EXCEPT ![c] = <<>>]
    /\ faults' = 0
    /\ GoTo(c, "send")

\* Mutant: SerialNumber does not take the mutex.
LockNot(c) ==
    /\ pc[c] = "lock"
    /\ StartTransmit(c)
    /\ UNCHANGED <<mu, canceled, closed, partial, expected, asked, unread>>

Lock(c) ==
    /\ pc[c] = "lock"
    /\ mu = NoCall
    /\ mu' = c
    /\ StartTransmit(c)
    /\ UNCHANGED <<canceled, closed, partial, expected, asked, unread>>

\* One round of the first loop.
SendReport(c) ==
    /\ pc[c] = "send"
    /\ ~canceled[c] /\ ~closed
    /\ LET report == Fragment(command[c], offset[c], sequence[c])
       IN  /\ TokenReceives(report)
           /\ offset' = [offset EXCEPT ![c] = @ + Len(report.data)]
           /\ sequence' = [sequence EXCEPT ![c] =
                              IF report.more THEN (@ + 1) % SequenceMod ELSE 0]
           /\ GoTo(c, IF report.more THEN "send" ELSE "receive")
    /\ UNCHANGED <<mu, canceled, transmit, command, response, transmits, closed, faults>>

\* Mutant: the report number of a response is not compared.
AcceptAny(c, report) ==
    /\ response' = [response EXCEPT ![c] = @ \o report.data]
    /\ sequence' = [sequence EXCEPT ![c] = (@ + 1) % SequenceMod]
    /\ GoTo(c, IF report.more THEN "receive" ELSE "answered")

\* A round of the second loop is given a report that is not pending.
Accept(c, report) ==
    IF report.number = sequence[c]
    THEN /\ response' = [response EXCEPT ![c] = @ \o report.data]
         /\ sequence' = [sequence EXCEPT ![c] = (@ + 1) % SequenceMod]
         /\ GoTo(c, IF report.more THEN "receive" ELSE "answered")
    ELSE /\ GoTo(c, "unlock")
         /\ UNCHANGED <<response, sequence>>

\* GetFeatureReport returns a report; the same one may come again. While the
\* token is pending the loop just goes round.
GetReport(c) ==
    /\ pc[c] = "receive"
    /\ ~canceled[c] /\ ~closed
    /\ unread # <<>>
    /\ Accept(c, Head(unread))
    /\ \/ /\ unread' = Tail(unread)
          /\ UNCHANGED faults
       \/ /\ faults < MaxFaults
          /\ faults' = faults + 1
          /\ UNCHANGED unread
    /\ UNCHANGED <<mu, canceled, transmit, command, offset, transmits, closed,
                   partial, expected, asked>>

\* A native error, a malformed report, or the context is done.
TransmitFails(c) ==
    /\ pc[c] \in {"send", "receive"}
    /\ GoTo(c, "unlock")
    /\ UNCHANGED <<mu, callVars, closed, tokenVars>>

\* iso7816.Exchange sends GET RESPONSE when the status announces more data.
FetchMore(c) ==
    /\ pc[c] = "answered"
    /\ StartTransmit(c)
    /\ UNCHANGED <<mu, canceled, closed, partial, expected, asked, unread>>

Answered(c) ==
    /\ pc[c] = "answered"
    /\ GoTo(c, "unlock")
    /\ UNCHANGED <<mu, callVars, closed, tokenVars>>

LockToClose(c) ==
    /\ pc[c] = "lockToClose"
    /\ mu = NoCall
    /\ mu' = c
    /\ GoTo(c, "close")
    /\ UNCHANGED <<callVars, closed, tokenVars>>

Close(c) ==
    /\ pc[c] = "close"
    /\ closed' = TRUE
    /\ GoTo(c, "unlock")
    /\ UNCHANGED <<mu, callVars, tokenVars>>

Unlock(c) ==
    /\ pc[c] = "unlock"
    /\ mu' = NoCall
    /\ canceled' = [canceled EXCEPT ![c] = FALSE]
    /\ transmit' = [transmit EXCEPT ![c] = 0]
    /\ command' = [command EXCEPT ![c] = <<>>]
    /\ offset' = [offset EXCEPT ![c] = 0]
    /\ sequence' = [sequence EXCEPT ![c] = 0]
    /\ response' = [response EXCEPT ![c] = <<>>]
    /\ GoTo(c, "idle")
    /\ UNCHANGED <<transmits, closed, tokenVars>>

Cancel(c) ==
    /\ pc[c] \notin {"idle", "lockToClose", "close"}
    /\ ~canceled[c]
    /\ canceled' = [canceled EXCEPT ![c] = TRUE]
    /\ UNCHANGED <<mu, pc, transmit, command, offset, sequence, response, transmits,
                   closed, tokenVars>>

-----------------------------------------------------------------------------
\* The token answers the command it was asked.
TokenAnswers ==
    /\ asked # <<>>
    /\ \E length \in ResponseLengths :
          unread' = Fragments(Response(asked[1][2], length))
    /\ asked' = <<>>
    /\ UNCHANGED <<mu, pc, callVars, closed, partial, expected, faults>>

LoseReport ==
    /\ unread # <<>>
    /\ faults < MaxFaults
    /\ faults' = faults + 1
    /\ unread' = Tail(unread)
    /\ UNCHANGED <<mu, pc, callVars, closed, partial, expected, asked>>

-----------------------------------------------------------------------------
\* Mutant: the polling loop does not look at the context.
InterruptedSending(c) ==
    /\ canceled[c]
    /\ pc[c] = "send"
    /\ TransmitFails(c)

\* The ctx.Err() checks at the head of both loops; a closed device fails.
Interrupted(c) ==
    /\ canceled[c] \/ closed
    /\ TransmitFails(c)

LocalStep(c) ==
    \/ SendReport(c)
    \/ Answered(c)
    \/ Close(c)
    \/ Unlock(c)

CallStep(c) ==
    \/ Invoke(c)
    \/ Lock(c)
    \/ GetReport(c)
    \/ TransmitFails(c)
    \/ FetchMore(c)
    \/ LockToClose(c)
    \/ LocalStep(c)
    \/ Cancel(c)

Next ==
    \/ \E c \in Calls : CallStep(c)
    \/ TokenAnswers
    \/ LoseReport

Spec == Init /\ [][Next]_vars

\* The loops run, the mutex starves nobody. The token need not answer, and only
\* a caller ends a Transmit that stays pending.
Fairness ==
    \A c \in Calls :
        /\ WF_vars(LocalStep(c))
        /\ WF_vars(Interrupted(c))
        /\ SF_vars(Lock(c))
        /\ SF_vars(LockToClose(c))

FairSpec == Spec /\ Fairness

-----------------------------------------------------------------------------
\* Properties.

\* Transmit returns the whole answer to its own command, or an error: whatever
\* was left unread by an earlier Transmit that was canceled, and whichever reports
\* were lost or repeated, even when the report numbers wrap around.
AnswersMatch ==
    \A c \in Calls :
        pc[c] = "answered" =>
            \E length \in ResponseLengths : response[c] = Response(transmit[c], length)

\* The token only ever works on a whole command of one Transmit: fragments of
\* two goroutines, or of a canceled and a later command, are never combined.
CommandsWhole ==
    asked # <<>> =>
        \E n \in 0..(TransmitIds - 1), length \in CommandLengths : asked = Command(n, length)

\* A Transmit whose context is done returns although the token stays pending.
CancelReturns ==
    \A c \in Calls :
        (canceled[c] /\ pc[c] \in {"send", "receive"}) ~> pc[c] = "idle"

\* Close waits for the mutex, so it returns if every SerialNumber that goes on
\* for too long is canceled in the end. (Close cannot interrupt one, as the Close
\* of pcsc.Device does; a token may stay pending, or announce more data, for ever.)
CloseReturns ==
    (\A c \in Calls : pc[c] \in {"send", "receive", "answered"} ~>
                          (canceled[c] \/ pc[c] = "idle"))
        => \A c \in Calls : pc[c] = "lockToClose" ~> pc[c] = "idle"

-----------------------------------------------------------------------------
\* The inductive invariant behind AnswersMatch and CommandsWhole.

\* The mutex is held by the only call that is past mu.Lock.
LockHeld ==
    \A c \in Calls : mu = c <=> pc[c] \notin {"idle", "lock", "lockToClose"}

\* A Transmit sends one command, from its first byte to its last.
Sending ==
    \A c \in Calls :
        pc[c] \in {"send", "receive"} =>
            /\ \E length \in CommandLengths : command[c] = Command(transmit[c], length)
            /\ IF pc[c] = "send"
               THEN offset[c] = sequence[c] * ChunkSize /\ offset[c] < Len(command[c])
               ELSE offset[c] = Len(command[c])

\* What the token has of the command is what was sent of it; whatever an earlier
\* Transmit left there is given up with the first report.
TokenFollows ==
    /\ expected = 0 => partial = <<>>
    /\ \A c \in Calls :
          pc[c] = "send" =>
              /\ response[c] = <<>>
              /\ offset[c] > 0 => /\ expected = sequence[c]
                                  /\ partial = SubSeq(command[c], 1, offset[c])

\* The token has not answered the command of the call yet.
Pending(c) ==
    /\ asked = command[c]
    /\ unread = <<>>
    /\ response[c] = <<>>
    /\ sequence[c] = 0

\* It has: the call has accepted so many reports of the answer, the token has
\* given up so many. Each fault moves one of them by one report.
Answering(c, answer, accepted, given) ==
    /\ asked = <<>>
    /\ unread = SubSeq(Fragments(answer), given + 1, Len(Fragments(answer)))
    /\ accepted < Len(Fragments(answer))
    /\ response[c] = SubSeq(answer, 1, accepted * ChunkSize)
    /\ sequence[c] = accepted % SequenceMod
    /\ accepted <= given + 1
    /\ given <= accepted + faults

Receiving ==
    \A c \in Calls :
        pc[c] = "receive" =>
            \/ Pending(c)
            \/ \E length \in ResponseLengths :
                  LET answer == Response(transmit[c], length)
                  IN  \E accepted, given \in 0..Len(Fragments(answer)) :
                         Answering(c, answer, accepted, given)

Inv ==
    /\ TypeOK
    /\ LockHeld
    /\ Sending
    /\ TokenFollows
    /\ Receiving
    /\ AnswersMatch
    /\ CommandsWhole

=============================================================================
