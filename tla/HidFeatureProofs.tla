-------------------------- MODULE HidFeatureProofs --------------------------
(***************************************************************************)
(* Proofs about HidFeature, for any report size, modulus, lengths and      *)
(* number of goroutines: Transmit returns the whole answer to its own      *)
(* command or an error, and the token never sees two commands mixed up.    *)
(***************************************************************************)
EXTENDS HidFeature, BasicFacts, TLAPS

-----------------------------------------------------------------------------
\* Messages and their reports.

LEMMA CommandShape ==
    ASSUME NEW n \in Nat, NEW length \in Nat \ {0}
    PROVE  /\ Command(n, length) \in Seq(Bytes)
           /\ Len(Command(n, length)) = length
           /\ Command(n, length)[1][2] = n
<1>1. \A i \in 1..length : <<"command", n, i, length>> \in Bytes
  BY DEF Bytes
<1> QED BY <1>1 DEF Command

LEMMA ResponseShape ==
    ASSUME NEW n \in Nat, NEW length \in Nat \ {0}
    PROVE  /\ Response(n, length) \in Seq(Bytes)
           /\ Len(Response(n, length)) = length
<1>1. \A i \in 1..length : <<"response", n, i, length>> \in Bytes
  BY DEF Bytes
<1> QED BY <1>1 DEF Response

\* The offset after the report that starts at an offset.
EndOf(message, start) ==
    IF start + ChunkSize < Len(message) THEN start + ChunkSize ELSE Len(message)

\* A report carries at least one byte, at most ChunkSize, and exactly those that
\* follow the ones before it.
LEMMA FragmentShape ==
    ASSUME NEW message \in Seq(Bytes), NEW start \in Nat, start < Len(message),
           NEW number \in 0..(SequenceMod - 1)
    PROVE  LET report == Fragment(message, start, number)
               end    == EndOf(message, start)
           IN  /\ report \in Reports
               /\ report.number = number
               /\ report.more <=> start + ChunkSize < Len(message)
               /\ start + Len(report.data) = end
               /\ SubSeq(message, 1, start) \o report.data = SubSeq(message, 1, end)
               /\ report.data \in Seq(Bytes)
<1> DEFINE report == Fragment(message, start, number)
           end    == EndOf(message, start)
           data   == SubSeq(message, start + 1, end)
<1>1. ChunkSize \in Nat \ {0}
  BY ConstantsAssumption DEF ConstantsAssumption
<1>2. end \in Nat /\ start < end /\ end <= start + ChunkSize /\ end <= Len(message)
  BY <1>1 DEF EndOf
<1>3. report = [number |-> number, more |-> end < Len(message), data |-> data]
  BY DEF Fragment, EndOf
<1>4. end < Len(message) <=> start + ChunkSize < Len(message)
  BY <1>1 DEF EndOf
<1> HIDE DEF end
<1>5. data \in Seq(Bytes) /\ Len(data) = end - start
  <2>1. \A i \in (start + 1)..end : message[i] \in Bytes
    BY <1>2
  <2> QED BY <1>2, <2>1, SubSeqProperties
<1>6. SubSeq(message, 1, start) \o data = SubSeq(message, 1, end)
  BY <1>2, ConcatAdjacentSubSeq
<1>7. report \in Reports
  BY <1>1, <1>2, <1>3, <1>5 DEF Reports
<1> HIDE DEF report, data
<1>8. /\ report.number = number
      /\ report.more <=> end < Len(message)
      /\ report.data = data
  BY <1>3
<1>9. start + Len(report.data) = end
  BY <1>2, <1>5, <1>8
<1>10. SubSeq(message, 1, start) \o report.data = SubSeq(message, 1, end)
  BY <1>6, <1>8
<1> QED BY <1>4, <1>5, <1>7, <1>8, <1>9, <1>10 DEF report, end

\* The reports of a message: each starts at its multiple of ChunkSize, and all but
\* the last announce more.
LEMMA FragmentsShape ==
    ASSUME NEW message \in Seq(Bytes), Len(message) # 0
    PROVE  LET reports == Fragments(message)
               count   == Len(reports)
           IN  /\ reports \in Seq(Reports)
               /\ count \in Nat \ {0}
               /\ \A i \in Nat : i < count =>
                     /\ reports[i + 1] = Fragment(message, i * ChunkSize, i % SequenceMod)
                     /\ i * ChunkSize \in Nat
                     /\ i * ChunkSize < Len(message)
                     /\ i * ChunkSize + ChunkSize < Len(message) <=> i + 1 < count
<1> DEFINE length == Len(message)
           count  == (length + ChunkSize - 1) \div ChunkSize
           reports == [i \in 1..count |->
                          Fragment(message, (i - 1) * ChunkSize, (i - 1) % SequenceMod)]
           rest == (length + ChunkSize - 1) % ChunkSize
<1>1. /\ ChunkSize \in Nat \ {0}
      /\ SequenceMod \in Nat \ {0, 1}
      /\ length \in Nat \ {0}
  BY ConstantsAssumption DEF ConstantsAssumption
<1>2. /\ count \in Nat
      /\ rest \in 0..(ChunkSize - 1)
      /\ length + ChunkSize - 1 = count * ChunkSize + rest
  <2>1. length + ChunkSize - 1 \in Nat
    BY <1>1
  <2> HIDE DEF length
  <2> QED BY <1>1, <2>1, Division
<1> HIDE DEF count, rest
<1>3. count # 0
  BY <1>1, <1>2
<1>4. ASSUME NEW i \in Nat, i < count
      PROVE  /\ i * ChunkSize \in Nat
             /\ i * ChunkSize < length
             /\ i * ChunkSize + ChunkSize < length <=> i + 1 < count
  <2>1. i * ChunkSize \in Nat /\ count * ChunkSize \in Nat
    BY <1>1, <1>2, Products
  <2>2. i * ChunkSize + ChunkSize <= count * ChunkSize
    BY <1>1, <1>2, <1>4, MultiplesApart
  <2>3. (i + 1) * ChunkSize = i * ChunkSize + ChunkSize
    BY <1>1, NextMultiple
  <2>4. ASSUME i + 1 < count
        PROVE  i * ChunkSize + ChunkSize < length
    <3>1. (i + 1) * ChunkSize + ChunkSize <= count * ChunkSize
      BY <1>1, <1>2, <2>4, MultiplesApart
    <3> QED BY <1>1, <1>2, <2>1, <2>3, <3>1
  <2>5. ASSUME i + 1 = count
        PROVE  ~(i * ChunkSize + ChunkSize < length)
    BY <1>1, <1>2, <2>1, <2>3, <2>5
  <2> QED BY <1>1, <1>2, <1>4, <2>1, <2>2, <2>4, <2>5
<1>5. Fragments(message) = reports
  BY DEF Fragments, count
<1>6. \A i \in 1..count : reports[i] \in Reports
  <2> SUFFICES ASSUME NEW i \in 1..count
               PROVE  reports[i] \in Reports
    OBVIOUS
  <2>1. i - 1 \in Nat /\ i - 1 < count
    BY <1>2
  <2>2. (i - 1) * ChunkSize \in Nat /\ (i - 1) * ChunkSize < length
    BY <1>4, <2>1
  <2>3. (i - 1) % SequenceMod \in 0..(SequenceMod - 1)
    BY <1>1, <2>1, Division
  <2> QED BY <2>2, <2>3, FragmentShape
<1>7. reports \in Seq(Reports) /\ Len(reports) = count
  BY <1>2, <1>6
<1>8. ASSUME NEW i \in Nat, i < count
      PROVE  reports[i + 1] = Fragment(message, i * ChunkSize, i % SequenceMod)
  <2>1. i + 1 \in 1..count /\ (i + 1) - 1 = i
    BY <1>2, <1>8
  <2> QED BY <2>1
<1> HIDE DEF reports
<1> QED BY <1>2, <1>3, <1>4, <1>5, <1>7, <1>8

\* A report of an answer that is accepted in its turn: the bytes so far grow by
\* its own, and with the last one they are the answer.
LEMMA AcceptedReport ==
    ASSUME NEW message \in Seq(Bytes), Len(message) # 0, NEW i \in Nat,
           i < Len(Fragments(message))
    PROVE  LET report == Fragments(message)[i + 1]
               count  == Len(Fragments(message))
               bytes  == SubSeq(message, 1, i * ChunkSize) \o report.data
           IN  /\ report \in Reports
               /\ report.number = i % SequenceMod
               /\ report.more <=> i + 1 < count
               /\ report.more => bytes = SubSeq(message, 1, (i + 1) * ChunkSize)
               /\ ~report.more => bytes = message
<1> DEFINE start == i * ChunkSize
           report == Fragments(message)[i + 1]
           count  == Len(Fragments(message))
           bytes  == SubSeq(message, 1, start) \o report.data
<1>1. ChunkSize \in Nat \ {0} /\ SequenceMod \in Nat \ {0, 1}
  BY ConstantsAssumption DEF ConstantsAssumption
<1>2. /\ report = Fragment(message, start, i % SequenceMod)
      /\ start \in Nat /\ start < Len(message)
      /\ start + ChunkSize < Len(message) <=> i + 1 < count
  BY FragmentsShape
<1>3. i % SequenceMod \in 0..(SequenceMod - 1)
  BY <1>1, Division
<1>4. (i + 1) * ChunkSize = start + ChunkSize
  BY <1>1, NextMultiple
<1> HIDE DEF start, report, count
<1>5. /\ report \in Reports
      /\ report.number = i % SequenceMod
      /\ report.more <=> start + ChunkSize < Len(message)
      /\ bytes = SubSeq(message, 1, EndOf(message, start))
  BY <1>2, <1>3, FragmentShape
<1>6. start + ChunkSize < Len(message) => EndOf(message, start) = start + ChunkSize
  BY DEF EndOf
<1>7. ~(start + ChunkSize < Len(message)) => EndOf(message, start) = Len(message)
  BY DEF EndOf
<1>8. SubSeq(message, 1, Len(message)) = message
  BY SubSeqFull
<1> HIDE DEF bytes
<1>9. /\ report \in Reports
      /\ report.number = i % SequenceMod
      /\ report.more <=> i + 1 < count
      /\ report.more => bytes = SubSeq(message, 1, (i + 1) * ChunkSize)
      /\ ~report.more => bytes = message
  BY <1>2, <1>4, <1>5, <1>6, <1>7, <1>8
<1> QED BY <1>9 DEF bytes, start, report, count

\* The reports not given up yet: one less after each, until there are none.
LEMMA LeftReports ==
    ASSUME NEW reports \in Seq(Reports), NEW given \in 0..Len(reports)
    PROVE  LET left == SubSeq(reports, given + 1, Len(reports))
           IN  /\ left \in Seq(Reports)
               /\ left # <<>> =>
                     /\ given < Len(reports)
                     /\ Head(left) = reports[given + 1]
                     /\ Tail(left) = SubSeq(reports, given + 2, Len(reports))
<1> DEFINE left == SubSeq(reports, given + 1, Len(reports))
<1>1. left \in Seq(Reports)
  <2>1. \A i \in (given + 1)..Len(reports) : reports[i] \in Reports
    OBVIOUS
  <2> QED BY <2>1, SubSeqProperties
<1>2. CASE given = Len(reports)
  <2>1. left = <<>>
    BY <1>2, SubSeqEmpty
  <2> QED BY <1>1, <2>1
<1>3. CASE given < Len(reports)
  <2>1. given + 1 \in 1..Len(reports) /\ Len(reports) \in (given + 1)..Len(reports)
    BY <1>3
  <2>2. (given + 1) + 1 = given + 2
    OBVIOUS
  <2>3. /\ Head(left) = reports[given + 1]
        /\ Tail(left) = SubSeq(reports, given + 2, Len(reports))
    BY <2>1, <2>2, HeadTailOfSubSeq
  <2> QED BY <1>1, <1>3, <2>3
<1> QED BY <1>2, <1>3

-----------------------------------------------------------------------------
\* Facts about the invariant.

Transmitting == {"send", "receive", "answered"}

\* Nobody else is in a Transmit.
LEMMA Alone ==
    ASSUME LockHeld, NEW b \in Calls, NEW c \in Calls,
           pc[b] \in Transmitting, pc[c] \notin {"idle", "lock", "lockToClose"}
    PROVE  b = c
BY DEF LockHeld, Transmitting

LEMMA InitInv == ASSUME Init PROVE Inv
<1> USE ConstantsAssumption DEF ConstantsAssumption, Init
<1>1. TypeOK
  <2>1. <<>> \in Seq(Bytes) /\ <<>> \in Seq(Reports)
    OBVIOUS
  <2>2. 0 \in 0..(SequenceMod - 1) /\ 0 \in 0..(TransmitIds - 1) /\ 0 \in 0..MaxFaults
    OBVIOUS
  <2> QED BY <2>1, <2>2 DEF TypeOK, Places
<1>2. LockHeld /\ Sending /\ TokenFollows
  BY DEF LockHeld, Sending, TokenFollows
<1>3. Receiving /\ AnswersMatch /\ CommandsWhole
  BY DEF Receiving, AnswersMatch, CommandsWhole
<1> QED BY <1>1, <1>2, <1>3 DEF Inv

\* What a Transmit and the token know of each other is disturbed by no step that
\* neither begins one, nor touches one that goes on, nor the token.
LEMMA Undisturbed ==
    ASSUME Inv, UNCHANGED tokenVars,
           \A c \in Calls : pc'[c] \in Transmitting =>
               /\ pc'[c] = pc[c]
               /\ transmit'[c] = transmit[c] /\ command'[c] = command[c]
               /\ offset'[c] = offset[c] /\ sequence'[c] = sequence[c]
               /\ response'[c] = response[c]
    PROVE  (Sending /\ TokenFollows /\ Receiving /\ AnswersMatch /\ CommandsWhole)'
<1> USE DEF Inv, tokenVars, Transmitting
<1>1. Sending'
  BY DEF Sending
<1>2. TokenFollows'
  BY DEF TokenFollows
<1>3. Receiving'
  <2> SUFFICES ASSUME NEW c \in Calls, pc'[c] = "receive",
                      ~Pending(c)'
               PROVE  (\E length \in ResponseLengths :
                          LET answer == Response(transmit[c], length)
                          IN  \E accepted, given \in 0..Len(Fragments(answer)) :
                                 Answering(c, answer, accepted, given))'
    BY DEF Receiving
  <2>1. pc[c] = "receive" /\ ~Pending(c)
    BY DEF Pending
  <2>2. PICK length \in ResponseLengths :
           \E accepted, given \in 0..Len(Fragments(Response(transmit[c], length))) :
              Answering(c, Response(transmit[c], length), accepted, given)
    BY <2>1 DEF Receiving
  <2> DEFINE answer == Response(transmit[c], length)
  <2>3. PICK accepted \in 0..Len(Fragments(answer)), given \in 0..Len(Fragments(answer)) :
           Answering(c, answer, accepted, given)
    BY <2>2
  <2>4. Response(transmit'[c], length) = answer
    BY <2>1
  <2>5. Answering(c, answer, accepted, given)'
    BY <2>3, <2>4 DEF Answering
  <2> QED BY <2>4, <2>5
<1>4. AnswersMatch'
  BY DEF AnswersMatch
<1>5. CommandsWhole'
  BY DEF CommandsWhole
<1> QED BY <1>1, <1>2, <1>3, <1>4, <1>5

\* Steps outside the loops: locking to close, closing, returning, giving up.
LEMMA OutsideInv ==
    ASSUME Inv, NEW c \in Calls,
           \/ Invoke(c)
           \/ TransmitFails(c)
           \/ Answered(c)
           \/ LockToClose(c)
           \/ Close(c)
           \/ Cancel(c)
    PROVE  Inv'
<1> USE DEF Invoke, TransmitFails, Answered, LockToClose, Close, Cancel, GoTo, callVars
<1>1. TypeOK'
  <2>1. pc' \in [Calls -> Places] /\ mu' \in Calls \cup {NoCall}
    BY DEF Inv, TypeOK, Places
  <2>2. canceled' \in [Calls -> BOOLEAN] /\ closed' \in BOOLEAN
    BY DEF Inv, TypeOK
  <2>3. /\ UNCHANGED <<transmit, command, offset, sequence, response, transmits>>
        /\ UNCHANGED tokenVars
    OBVIOUS
  <2> QED BY <2>1, <2>2, <2>3 DEF Inv, TypeOK, tokenVars
<1>2. LockHeld'
  <2>1. \A b \in Calls : b # c => pc'[b] = pc[b]
    BY DEF Inv, TypeOK
  <2>2. \/ /\ mu' = mu
           /\ pc'[c] \in {"idle", "lock", "lockToClose"}
                 <=> pc[c] \in {"idle", "lock", "lockToClose"}
        \/ mu = NoCall /\ mu' = c /\ pc'[c] = "close"
    BY DEF Inv, TypeOK
  <2>3. mu # NoCall => \E b \in Calls : mu = b
    BY DEF Inv, TypeOK
  <2> QED BY <2>1, <2>2, <2>3, ConstantsAssumption DEF ConstantsAssumption, Inv, LockHeld
<1>3. (Sending /\ TokenFollows /\ Receiving /\ AnswersMatch /\ CommandsWhole)'
  <2>1. UNCHANGED tokenVars
    OBVIOUS
  <2>2. UNCHANGED <<transmit, command, offset, sequence, response>>
    OBVIOUS
  <2>3. \A b \in Calls : pc'[b] \in Transmitting => pc'[b] = pc[b]
    BY DEF Transmitting, Inv, TypeOK
  <2> QED BY <2>1, <2>2, <2>3, Undisturbed
<1> QED BY <1>1, <1>2, <1>3 DEF Inv

LEMMA UnlockInv == ASSUME Inv, NEW c \in Calls, Unlock(c) PROVE Inv'
<1> USE DEF Unlock, GoTo
<1>1. TypeOK'
  <2>1. 0 \in 0..(SequenceMod - 1) /\ 0 \in 0..(TransmitIds - 1) /\ <<>> \in Seq(Bytes)
    BY ConstantsAssumption DEF ConstantsAssumption
  <2> QED BY <2>1 DEF Inv, TypeOK, Places, tokenVars
<1>2. LockHeld'
  BY ConstantsAssumption DEF ConstantsAssumption, Inv, TypeOK, LockHeld
<1>3. (Sending /\ TokenFollows /\ Receiving /\ AnswersMatch /\ CommandsWhole)'
  <2>1. \A b \in Calls : pc'[b] \in Transmitting =>
            /\ pc'[b] = pc[b]
            /\ transmit'[b] = transmit[b] /\ command'[b] = command[b]
            /\ offset'[b] = offset[b] /\ sequence'[b] = sequence[b]
            /\ response'[b] = response[b]
    BY DEF Transmitting, Inv, TypeOK
  <2> QED BY <2>1, Undisturbed
<1> QED BY <1>1, <1>2, <1>3 DEF Inv

\* A Transmit begins, for the first command of a call or for GET RESPONSE.
LEMMA StartInv == ASSUME Inv, NEW c \in Calls, Lock(c) \/ FetchMore(c) PROVE Inv'
<1> USE DEF Lock, FetchMore
<1>1. PICK length \in CommandLengths :
         command' = [command EXCEPT ![c] = Command(transmits', length)]
  BY DEF StartTransmit
<1>2. transmits' \in 0..(TransmitIds - 1)
  <2>1. transmits + 1 \in Nat /\ TransmitIds \in Nat \ {0}
    BY ConstantsAssumption DEF ConstantsAssumption, Inv, TypeOK
  <2> QED BY <2>1, Division DEF StartTransmit
<1>3. length \in Nat \ {0}
  BY ConstantsAssumption DEF ConstantsAssumption
<1>4. Command(transmits', length) \in Seq(Bytes) /\ Len(Command(transmits', length)) = length
  BY <1>2, <1>3, CommandShape
<1>5. /\ pc' = [pc EXCEPT ![c] = "send"]
      /\ transmit' = [transmit EXCEPT ![c] = transmits']
      /\ offset' = [offset EXCEPT ![c] = 0]
      /\ sequence' = [sequence EXCEPT ![c] = 0]
      /\ response' = [response EXCEPT ![c] = <<>>]
      /\ faults' = 0
      /\ UNCHANGED <<canceled, closed, partial, expected, asked, unread>>
  BY DEF StartTransmit, GoTo
<1>6. TypeOK'
  <2>1. 0 \in 0..(SequenceMod - 1) /\ 0 \in 0..MaxFaults /\ <<>> \in Seq(Bytes)
    BY ConstantsAssumption DEF ConstantsAssumption
  <2>2. mu' \in Calls \cup {NoCall}
    BY DEF Inv, TypeOK
  <2> QED BY <1>1, <1>2, <1>4, <1>5, <2>1, <2>2 DEF Inv, TypeOK, Places
<1>7. LockHeld'
  <2>1. /\ mu' = c /\ pc' = [pc EXCEPT ![c] = "send"]
        /\ mu = c \/ mu = NoCall
    BY <1>5 DEF Inv, LockHeld
  <2> QED BY <2>1, ConstantsAssumption DEF ConstantsAssumption, Inv, TypeOK, LockHeld
<1>8. ASSUME NEW b \in Calls, b # c
      PROVE  pc'[b] \notin Transmitting
  <2>1. pc'[b] = pc[b] /\ pc'[c] \notin {"idle", "lock", "lockToClose"}
    BY <1>5, <1>8 DEF Inv, TypeOK
  <2>2. mu' = c /\ (mu' = b <=> pc'[b] \notin {"idle", "lock", "lockToClose"})
    BY <1>7, <2>1 DEF LockHeld
  <2> QED BY <1>8, <2>2 DEF Transmitting
<1>9. /\ pc'[c] = "send" /\ offset'[c] = 0 /\ sequence'[c] = 0 /\ response'[c] = <<>>
      /\ transmit'[c] = transmits'
      /\ command'[c] = Command(transmits', length)
  BY <1>1, <1>5 DEF Inv, TypeOK
<1>10. Sending'
  <2>1. 0 = 0 * ChunkSize
    BY ConstantsAssumption DEF ConstantsAssumption
  <2> QED BY <1>3, <1>4, <1>8, <1>9, <2>1 DEF Sending, Transmitting
<1>11. TokenFollows'
  BY <1>5, <1>8, <1>9 DEF Inv, TokenFollows, Transmitting
<1>12. Receiving'
  BY <1>8, <1>9 DEF Receiving, Transmitting
<1>13. AnswersMatch'
  BY <1>8, <1>9 DEF AnswersMatch, Transmitting
<1>14. CommandsWhole'
  BY <1>5 DEF Inv, CommandsWhole
<1> QED BY <1>6, <1>7, <1>10, <1>11, <1>12, <1>13, <1>14 DEF Inv

\* A command that is being sent: the report is the next one of it, and the token
\* has all bytes up to its end.
LEMMA ReportSent ==
    ASSUME Inv, NEW c \in Calls, pc[c] = "send", NEW report,
           report = Fragment(command[c], offset[c], sequence[c]),
           TokenReceives(report)
    PROVE  LET end == EndOf(command[c], offset[c])
           IN  /\ unread' = <<>>
               /\ offset[c] + Len(report.data) = end
               /\ report.more <=> offset[c] + ChunkSize < Len(command[c])
               /\ report.more =>
                     /\ end = (sequence[c] + 1) * ChunkSize /\ end < Len(command[c])
                     /\ (sequence[c] + 1) % SequenceMod = sequence[c] + 1
                     /\ sequence[c] + 1 \in 0..(SequenceMod - 1)
                     /\ partial' = SubSeq(command[c], 1, end)
                     /\ expected' = sequence[c] + 1
                     /\ asked' = <<>>
               /\ ~report.more =>
                     /\ end = Len(command[c])
                     /\ partial' = <<>> /\ expected' = 0 /\ asked' = command[c]
<1> DEFINE message == command[c]
           start   == offset[c]
           number  == sequence[c]
           end     == EndOf(message, start)
           data    == IF report.number = expected THEN partial \o report.data
                      ELSE IF report.number = 0 THEN report.data ELSE <<>>
<1>1. /\ ChunkSize \in Nat \ {0} /\ SequenceMod \in Nat \ {0, 1}
      /\ CommandLengths \subseteq 1..(ChunkSize * (SequenceMod - 1))
  BY ConstantsAssumption DEF ConstantsAssumption
<1>2. /\ message \in Seq(Bytes)
      /\ start \in Nat /\ number \in 0..(SequenceMod - 1)
      /\ start = number * ChunkSize /\ start < Len(message)
  BY DEF Inv, TypeOK, Sending
<1>3. Len(message) <= (SequenceMod - 1) * ChunkSize
  <2>1. PICK length \in CommandLengths : message = Command(transmit[c], length)
    BY DEF Inv, Sending
  <2>2. Len(message) = length
    BY <1>1, <2>1, CommandShape DEF Inv, TypeOK
  <2> QED BY <1>1, <2>2
<1>4. /\ expected = 0 => partial = <<>>
      /\ start > 0 => expected = number /\ partial = SubSeq(message, 1, start)
  BY DEF Inv, TokenFollows
<1>5. /\ unread' = <<>>
      /\ report.more => /\ partial' = data
                        /\ expected' = (report.number + 1) % SequenceMod
                        /\ asked' = <<>>
      /\ ~report.more => partial' = <<>> /\ expected' = 0 /\ asked' = data
  BY DEF TokenReceives
<1>6. (number + 1) * ChunkSize = number * ChunkSize + ChunkSize
  BY <1>1, <1>2, NextMultiple
<1>7. number = 0 => start = 0
  BY <1>1, <1>2
<1>8. start = 0 => number = 0
  <2>1. CASE 0 < number
    BY <1>1, <1>2, <2>1, MultiplesApart
  <2> QED BY <1>2, <2>1
<1>9. start + ChunkSize < Len(message) => number + 1 < SequenceMod - 1
  <2> SUFFICES ASSUME start + ChunkSize < Len(message), ~(number + 1 < SequenceMod - 1)
               PROVE  FALSE
    BY <1>1, <1>2
  <2>1. (number + 1) * ChunkSize < (SequenceMod - 1) * ChunkSize
    <3>1. number * ChunkSize \in Nat /\ (SequenceMod - 1) * ChunkSize \in Nat
      BY <1>1, <1>2, Products
    <3> QED BY <1>1, <1>2, <1>3, <1>6, <3>1
  <2>2. SequenceMod - 1 # number + 1
    <3> SUFFICES ASSUME SequenceMod - 1 = number + 1 PROVE FALSE
      OBVIOUS
    <3>1. (number + 1) * ChunkSize \in Nat
      BY <1>1, <1>2, Products
    <3> QED BY <2>1, <3>1
  <2>3. SequenceMod - 1 < number + 1
    BY <1>1, <1>2, <2>2
  <2>4. (SequenceMod - 1) * ChunkSize + ChunkSize <= (number + 1) * ChunkSize
    BY <1>1, <1>2, <2>3, MultiplesApart
  <2>5. (number + 1) * ChunkSize \in Nat /\ (SequenceMod - 1) * ChunkSize \in Nat
    BY <1>1, <1>2, Products
  <2> QED BY <1>1, <2>1, <2>4, <2>5
<1> HIDE DEF message, start, number
<1>10. /\ report.number = number
       /\ report.more <=> start + ChunkSize < Len(message)
       /\ start + Len(report.data) = end
       /\ SubSeq(message, 1, start) \o report.data = SubSeq(message, 1, end)
       /\ report.data \in Seq(Bytes)
  BY <1>2, FragmentShape DEF message, start, number
<1>11. data = SubSeq(message, 1, end)
  <2>1. CASE start = 0
    <3>1. SubSeq(message, 1, start) = <<>>
      BY <2>1, SubSeqEmpty
    <3>2. <<>> \o report.data = report.data
      BY <1>10, ConcatEmptySeq
    <3>3. SubSeq(message, 1, end) = report.data
      BY <1>10, <3>1, <3>2
    <3>4. CASE expected = 0
      <4>1. data = partial \o report.data
        BY <1>8, <1>10, <2>1, <3>4
      <4>2. partial = <<>>
        BY <1>4, <3>4
      <4> QED BY <3>2, <3>3, <4>1, <4>2
    <3>5. CASE expected # 0
      BY <1>8, <1>10, <2>1, <3>3, <3>5
    <3> QED BY <3>4, <3>5
  <2>2. CASE start > 0
    <3>1. data = partial \o report.data
      BY <1>4, <1>10, <2>2
    <3>2. partial = SubSeq(message, 1, start)
      BY <1>4, <2>2
    <3> QED BY <1>10, <3>1, <3>2
  <2>3. start = 0 \/ start > 0
    BY <1>2
  <2> HIDE DEF data, end
  <2> QED BY <2>1, <2>2, <2>3
<1> HIDE DEF data
<1>12. ASSUME report.more
       PROVE  /\ end = (number + 1) * ChunkSize /\ end < Len(message)
              /\ (number + 1) % SequenceMod = number + 1
              /\ number + 1 \in 0..(SequenceMod - 1)
  <2>1. end = start + ChunkSize /\ end < Len(message)
    BY <1>10, <1>12 DEF EndOf
  <2>2. number + 1 < SequenceMod - 1
    BY <1>9, <1>10, <1>12
  <2>3. \A m \in Nat : \A k \in 0..(m - 1) : k + 1 < m - 1 => k + 1 \in 0..(m - 1)
    OBVIOUS
  <2>4. number + 1 \in 0..(SequenceMod - 1)
    BY <1>1, <1>2, <2>2, <2>3
  <2> QED BY <1>1, <1>2, <1>6, <2>1, <2>4, SmallRemainder
<1>13. ~report.more => end = Len(message)
  BY <1>10 DEF EndOf
<1>14. SubSeq(message, 1, Len(message)) = message
  BY <1>2, SubSeqFull
<1> HIDE DEF end
<1>15. /\ unread' = <<>>
       /\ start + Len(report.data) = end
       /\ report.more <=> start + ChunkSize < Len(message)
       /\ report.more =>
             /\ end = (number + 1) * ChunkSize /\ end < Len(message)
             /\ (number + 1) % SequenceMod = number + 1
             /\ number + 1 \in 0..(SequenceMod - 1)
             /\ partial' = SubSeq(message, 1, end)
             /\ expected' = number + 1
             /\ asked' = <<>>
       /\ ~report.more =>
             /\ end = Len(message)
             /\ partial' = <<>> /\ expected' = 0 /\ asked' = message
  BY <1>5, <1>10, <1>11, <1>12, <1>13, <1>14
<1> QED BY <1>15 DEF message, start, number, end

LEMMA SendReportInv == ASSUME Inv, NEW c \in Calls, SendReport(c) PROVE Inv'
<1> DEFINE report == Fragment(command[c], offset[c], sequence[c])
           end    == EndOf(command[c], offset[c])
           more   == report.more
<1>1. /\ pc[c] = "send"
      /\ TokenReceives(report)
      /\ offset' = [offset EXCEPT ![c] = @ + Len(report.data)]
      /\ sequence' = [sequence EXCEPT ![c] = IF more THEN (@ + 1) % SequenceMod ELSE 0]
      /\ pc' = [pc EXCEPT ![c] = IF more THEN "send" ELSE "receive"]
      /\ UNCHANGED <<mu, canceled, transmit, command, response, transmits, closed, faults>>
  BY DEF SendReport, GoTo
<1>2. /\ unread' = <<>>
      /\ offset[c] + Len(report.data) = end
      /\ more =>
            /\ end = (sequence[c] + 1) * ChunkSize /\ end < Len(command[c])
            /\ (sequence[c] + 1) % SequenceMod = sequence[c] + 1
            /\ sequence[c] + 1 \in 0..(SequenceMod - 1)
            /\ partial' = SubSeq(command[c], 1, end)
            /\ expected' = sequence[c] + 1
            /\ asked' = <<>>
      /\ ~more =>
            /\ end = Len(command[c])
            /\ partial' = <<>> /\ expected' = 0 /\ asked' = command[c]
  BY <1>1, ReportSent
<1>3. end \in Nat
  BY ConstantsAssumption DEF ConstantsAssumption, EndOf, Inv, TypeOK
<1> HIDE DEF report, end, more
<1>4. /\ pc'[c] = IF more THEN "send" ELSE "receive"
      /\ offset'[c] = end
      /\ sequence'[c] = IF more THEN sequence[c] + 1 ELSE 0
      /\ UNCHANGED <<transmit, command, response>>
  BY <1>1, <1>2 DEF Inv, TypeOK
<1>5. TypeOK'
  <2>1. 0 \in 0..(SequenceMod - 1) /\ <<>> \in Seq(Reports)
    BY ConstantsAssumption DEF ConstantsAssumption
  <2>2. sequence' \in [Calls -> 0..(SequenceMod - 1)]
    BY <1>1, <1>2, <2>1 DEF Inv, TypeOK
  <2>3. offset' \in [Calls -> Nat]
    BY <1>1, <1>2, <1>3 DEF Inv, TypeOK
  <2>4. pc' \in [Calls -> Places]
    BY <1>1 DEF Inv, TypeOK, Places
  <2>5. expected' \in 0..(SequenceMod - 1)
    BY <1>2, <2>1
  <2> QED BY <1>1, <1>2, <2>1, <2>2, <2>3, <2>4, <2>5 DEF Inv, TypeOK
<1>6. LockHeld'
  <2>1. \A b \in Calls : b # c => pc'[b] = pc[b]
    BY <1>1 DEF Inv, TypeOK
  <2> QED BY <1>1, <1>4, <2>1 DEF Inv, LockHeld
<1>7. ASSUME NEW b \in Calls, b # c
      PROVE  pc'[b] \notin Transmitting
  <2>1. pc'[b] = pc[b]
    BY <1>1, <1>7 DEF Inv, TypeOK
  <2> QED BY <1>1, <1>7, <2>1, Alone DEF Inv
<1>8. Sending'
  <2>1. \E length \in CommandLengths : command[c] = Command(transmit[c], length)
    BY <1>1 DEF Inv, Sending
  <2> QED BY <1>2, <1>4, <1>7, <2>1 DEF Sending, Transmitting
<1>9. TokenFollows'
  <2>1. response[c] = <<>>
    BY <1>1 DEF Inv, TokenFollows
  <2>2. expected' = 0 => partial' = <<>>
    <3>1. sequence[c] + 1 # 0
      BY DEF Inv, TypeOK
    <3> QED BY <1>2, <3>1
  <2> QED BY <1>2, <1>4, <1>7, <2>1, <2>2 DEF TokenFollows, Transmitting
<1>10. Receiving'
  <2>1. response[c] = <<>>
    BY <1>1 DEF Inv, TokenFollows
  <2>2. ~more => Pending(c)'
    BY <1>2, <1>4, <2>1 DEF Pending
  <2> QED BY <1>4, <1>7, <2>2 DEF Receiving, Transmitting
<1>11. AnswersMatch'
  BY <1>4, <1>7 DEF AnswersMatch, Transmitting
<1>12. CommandsWhole'
  <2>1. PICK length \in CommandLengths : command[c] = Command(transmit[c], length)
    BY <1>1 DEF Inv, Sending
  <2>2. transmit[c] \in 0..(TransmitIds - 1)
    BY DEF Inv, TypeOK
  <2> QED BY <1>2, <2>1, <2>2 DEF CommandsWhole
<1> QED BY <1>5, <1>6, <1>8, <1>9, <1>10, <1>11, <1>12 DEF Inv

\* A call that receives, and whose token has reports for it, is at some place of
\* some answer to its own command.
LEMMA AnswerGoesOn ==
    ASSUME Inv, NEW c \in Calls, pc[c] = "receive", unread # <<>>
    PROVE  \E length \in ResponseLengths :
              LET answer == Response(transmit[c], length)
              IN  /\ answer \in Seq(Bytes)
                  /\ Len(answer) # 0
                  /\ Fragments(answer) \in Seq(Reports)
                  /\ \E accepted, given \in 0..Len(Fragments(answer)) :
                        Answering(c, answer, accepted, given)
<1>1. PICK length \in ResponseLengths :
         \E accepted, given \in 0..Len(Fragments(Response(transmit[c], length))) :
            Answering(c, Response(transmit[c], length), accepted, given)
  BY DEF Inv, Receiving, Pending
<1>2. length \in Nat \ {0} /\ transmit[c] \in Nat
  BY ConstantsAssumption DEF ConstantsAssumption, Inv, TypeOK
<1>3. Response(transmit[c], length) \in Seq(Bytes) /\ Len(Response(transmit[c], length)) = length
  BY <1>2, ResponseShape
<1>4. Fragments(Response(transmit[c], length)) \in Seq(Reports)
  BY <1>2, <1>3, FragmentsShape
<1> QED BY <1>1, <1>2, <1>3, <1>4

LEMMA GetReportInv == ASSUME Inv, NEW c \in Calls, GetReport(c) PROVE Inv'
<1>1. /\ pc[c] = "receive" /\ unread # <<>>
      /\ Accept(c, Head(unread))
      /\ \/ unread' = Tail(unread) /\ faults' = faults
         \/ unread' = unread /\ faults < MaxFaults /\ faults' = faults + 1
      /\ UNCHANGED <<mu, canceled, transmit, command, offset, transmits, closed,
                     partial, expected, asked>>
  BY DEF GetReport
<1>2. PICK length \in ResponseLengths :
         LET answer == Response(transmit[c], length)
         IN  /\ answer \in Seq(Bytes)
             /\ Len(answer) # 0
             /\ Fragments(answer) \in Seq(Reports)
             /\ \E accepted, given \in 0..Len(Fragments(answer)) :
                   Answering(c, answer, accepted, given)
  BY <1>1, AnswerGoesOn
<1> DEFINE answer == Response(transmit[c], length)
           reports == Fragments(answer)
           count  == Len(reports)
           report == Head(unread)
<1>3. PICK accepted \in 0..count, given \in 0..count : Answering(c, answer, accepted, given)
  BY <1>2
<1>4. /\ answer \in Seq(Bytes) /\ Len(answer) # 0 /\ reports \in Seq(Reports)
      /\ count \in Nat
      /\ unread = SubSeq(reports, given + 1, count)
      /\ asked = <<>>
      /\ accepted < count /\ accepted <= given + 1 /\ given <= accepted + faults
      /\ response[c] = SubSeq(answer, 1, accepted * ChunkSize)
      /\ sequence[c] = accepted % SequenceMod
      /\ answer = Response(transmit'[c], length)
      /\ accepted \in Nat /\ given \in Nat /\ given \in 0..count
  <2>1. /\ answer \in Seq(Bytes) /\ Len(answer) # 0 /\ reports \in Seq(Reports)
        /\ count \in Nat
    BY <1>2
  <2>2. Answering(c, answer, accepted, given)
    BY <1>3
  <2>3. answer = Response(transmit'[c], length)
    BY <1>1
  <2> HIDE DEF answer
  <2> QED BY <1>3, <2>1, <2>2, <2>3 DEF Answering
<1> HIDE DEF answer
<1>5. /\ given < count
      /\ report = reports[given + 1]
      /\ Tail(unread) = SubSeq(reports, given + 2, count)
      /\ Tail(unread) \in Seq(Reports)
  BY <1>1, <1>4, LeftReports, HeadTailProperties
<1>6. report \in Reports /\ report.number = given % SequenceMod /\ report.data \in Seq(Bytes)
  <2>1. reports[given + 1] \in Reports /\ reports[given + 1].number = given % SequenceMod
    BY <1>4, <1>5, AcceptedReport
  <2> HIDE DEF report
  <2> QED BY <1>5, <2>1 DEF Reports
<1> HIDE DEF report
<1>7. SequenceMod \in Nat \ {0, 1} /\ MaxFaults \in 0..(SequenceMod - 1) /\ faults \in 0..MaxFaults
  BY ConstantsAssumption DEF ConstantsAssumption, Inv, TypeOK
<1>8. report.number = sequence[c] => accepted = given
  <2>1. given < accepted + SequenceMod /\ accepted < given + SequenceMod
    BY <1>4, <1>7
  <2> QED BY <1>4, <1>6, <1>7, <2>1, RemaindersApart
<1>9. \/ /\ report.number = sequence[c]
         /\ response' = [response EXCEPT ![c] = @ \o report.data]
         /\ sequence' = [sequence EXCEPT ![c] = (@ + 1) % SequenceMod]
         /\ pc' = [pc EXCEPT ![c] = IF report.more THEN "receive" ELSE "answered"]
      \/ /\ report.number # sequence[c]
         /\ pc' = [pc EXCEPT ![c] = "unlock"]
         /\ UNCHANGED <<response, sequence>>
  BY <1>1 DEF Accept, GoTo, report
<1>10. TypeOK'
  <2>1. pc' \in [Calls -> Places]
    BY <1>9 DEF Inv, TypeOK, Places
  <2>2. response' \in [Calls -> Seq(Bytes)]
    <3>1. response[c] \o report.data \in Seq(Bytes)
      BY <1>6, ConcatProperties DEF Inv, TypeOK
    <3> QED BY <1>9, <3>1 DEF Inv, TypeOK
  <2>3. sequence' \in [Calls -> 0..(SequenceMod - 1)]
    <3>1. sequence[c] + 1 \in Nat
      BY <1>7 DEF Inv, TypeOK
    <3>2. (sequence[c] + 1) % SequenceMod \in 0..(SequenceMod - 1)
      BY <1>7, <3>1, Division
    <3> QED BY <1>9, <3>2 DEF Inv, TypeOK
  <2>4. unread \in Seq(Reports)
    BY DEF Inv, TypeOK
  <2>5. unread' \in Seq(Reports)
    BY <1>1, <1>5, <2>4
  <2>6. faults' \in 0..MaxFaults
    BY <1>1, <1>7
  <2> QED BY <1>1, <2>1, <2>2, <2>3, <2>5, <2>6 DEF Inv, TypeOK
<1>11. \A b \in Calls : b # c => pc'[b] = pc[b]
  BY <1>9 DEF Inv, TypeOK
<1>12. pc'[c] \in {"receive", "answered", "unlock"}
  BY <1>9 DEF Inv, TypeOK
<1>13. LockHeld'
  BY <1>1, <1>11, <1>12 DEF Inv, LockHeld
<1>14. ASSUME NEW b \in Calls, b # c
       PROVE  pc'[b] \notin Transmitting
  BY <1>1, <1>11, <1>14, Alone DEF Inv
<1>15. Sending'
  BY <1>1, <1>12, <1>14 DEF Inv, Sending, Transmitting
<1>16. TokenFollows'
  BY <1>1, <1>12, <1>14 DEF Inv, TokenFollows, Transmitting
<1>17. CommandsWhole'
  BY <1>1 DEF Inv, CommandsWhole
<1>18. ASSUME pc'[c] \in {"receive", "answered"}
       PROVE  /\ accepted = given
              /\ response'[c] = SubSeq(answer, 1, given * ChunkSize) \o report.data
              /\ sequence'[c] = (given + 1) % SequenceMod
              /\ report.more <=> given + 1 < count
              /\ report.more =>
                    response'[c] = SubSeq(answer, 1, (given + 1) * ChunkSize)
              /\ ~report.more => response'[c] = answer
              /\ pc'[c] = IF report.more THEN "receive" ELSE "answered"
  <2>1. /\ report.number = sequence[c]
        /\ response'[c] = response[c] \o report.data
        /\ sequence'[c] = (sequence[c] + 1) % SequenceMod
        /\ pc'[c] = IF report.more THEN "receive" ELSE "answered"
    BY <1>9, <1>18 DEF Inv, TypeOK
  <2>2. accepted = given
    BY <1>8, <2>1
  <2>3. ((given % SequenceMod) + 1) % SequenceMod = (given + 1) % SequenceMod
    BY <1>4, <1>7, NextRemainder
  <2>4. LET bytes == SubSeq(answer, 1, given * ChunkSize) \o report.data
        IN  /\ report.more <=> given + 1 < count
            /\ report.more => bytes = SubSeq(answer, 1, (given + 1) * ChunkSize)
            /\ ~report.more => bytes = answer
    BY <1>4, <1>5, AcceptedReport DEF report
  <2> QED BY <1>4, <2>1, <2>2, <2>3, <2>4
<1>19. Receiving'
  <2>1. ASSUME pc'[c] = "receive"
        PROVE  \E a, g \in 0..count : Answering(c, answer, a, g)'
    <3>1. given + 1 < count /\ accepted = given
      BY <1>18, <2>1
    <3>2. PICK g \in {given, given + 1} :
             /\ unread' = SubSeq(reports, g + 1, count)
             /\ given + 1 <= g + 1
             /\ g <= given + 1 + faults'
      <4>1. CASE unread' = Tail(unread) /\ faults' = faults
        <5>1. (given + 1) + 1 = given + 2
          OBVIOUS
        <5>2. given + 1 <= given + 1 + faults'
          BY <1>4, <1>7, <4>1
        <5>3. unread' = SubSeq(reports, (given + 1) + 1, count)
          BY <1>5, <4>1, <5>1
        <5> QED BY <1>4, <5>2, <5>3
      <4>2. CASE unread' = unread /\ faults' = faults + 1
        <5>1. given <= given + 1 + faults'
          BY <1>4, <1>7, <4>2
        <5> QED BY <1>4, <4>2, <5>1
      <4> QED BY <1>1, <4>1, <4>2
    <3>3. answer' = answer
      BY <1>1 DEF answer
    <3>4. Answering(c, answer, given + 1, g)'
      BY <1>1, <1>4, <1>18, <2>1, <3>1, <3>2, <3>3 DEF Answering
    <3>5. given + 1 \in 0..count /\ g \in 0..count
      BY <1>4, <3>1, <3>2
    <3> QED BY <3>4, <3>5
  <2>2. pc'[c] = "receive" =>
          \E a, g \in 0..Len(Fragments(Response(transmit'[c], length))) :
             Answering(c, Response(transmit[c], length), a, g)'
    BY <1>4, <2>1 DEF answer
  <2> QED BY <1>14, <2>2 DEF Receiving, Transmitting
<1>20. AnswersMatch'
  <2>1. pc'[c] = "answered" => response'[c] = answer
    BY <1>18
  <2> QED BY <1>4, <1>14, <2>1 DEF AnswersMatch, Transmitting
<1> QED BY <1>10, <1>13, <1>15, <1>16, <1>17, <1>19, <1>20 DEF Inv

LEMMA TokenAnswersInv == ASSUME Inv, TokenAnswers PROVE Inv'
<1>1. PICK length \in ResponseLengths : unread' = Fragments(Response(asked[1][2], length))
  BY DEF TokenAnswers
<1>2. PICK n \in 0..(TransmitIds - 1), asking \in CommandLengths : asked = Command(n, asking)
  BY DEF TokenAnswers, Inv, CommandsWhole
<1>3. n \in Nat /\ asking \in Nat \ {0} /\ length \in Nat \ {0}
  BY ConstantsAssumption DEF ConstantsAssumption
<1>4. asked[1][2] = n
  BY <1>2, <1>3, CommandShape
<1> DEFINE answer == Response(n, length)
           reports == Fragments(answer)
<1>5. unread' = reports
  BY <1>1, <1>4
<1>6. answer \in Seq(Bytes) /\ Len(answer) = length
  BY <1>3, ResponseShape
<1>7. reports \in Seq(Reports) /\ Len(reports) \in Nat \ {0}
  BY <1>3, <1>6, FragmentsShape
<1>8. /\ asked # <<>> /\ asked' = <<>>
      /\ UNCHANGED <<mu, pc, callVars, closed, partial, expected, faults>>
  BY DEF TokenAnswers
<1>9. TypeOK'
  BY <1>5, <1>7, <1>8 DEF Inv, TypeOK, callVars
<1>10. LockHeld' /\ Sending' /\ TokenFollows' /\ AnswersMatch' /\ CommandsWhole'
  BY <1>8 DEF Inv, LockHeld, Sending, TokenFollows, AnswersMatch, CommandsWhole, callVars
<1>11. Receiving'
  <2> SUFFICES ASSUME NEW c \in Calls, pc'[c] = "receive"
               PROVE  (\E l \in ResponseLengths :
                          LET a == Response(transmit[c], l)
                          IN  \E accepted, given \in 0..Len(Fragments(a)) :
                                 Answering(c, a, accepted, given))'
    BY DEF Receiving
  <2>1. pc[c] = "receive" /\ Pending(c)
    BY <1>8 DEF Inv, Receiving, Answering
  <2>2. transmit[c] = n
    <3>1. PICK l \in CommandLengths : command[c] = Command(transmit[c], l)
      BY <2>1 DEF Inv, Sending
    <3>2. l \in Nat \ {0} /\ transmit[c] \in Nat
      BY ConstantsAssumption DEF ConstantsAssumption, Inv, TypeOK
    <3>3. command[c][1][2] = transmit[c]
      BY <3>1, <3>2, CommandShape
    <3> QED BY <1>4, <2>1, <3>3 DEF Pending
  <2>3. Response(transmit'[c], length) = answer
    BY <1>8, <2>2 DEF callVars
  <2> HIDE DEF answer
  <2>4. SubSeq(reports, 0 + 1, Len(reports)) = reports
    BY <1>7, SubSeqFull
  <2>5. response'[c] = SubSeq(answer, 1, 0 * ChunkSize)
    <3>1. 0 * ChunkSize = 0
      BY ConstantsAssumption DEF ConstantsAssumption
    <3>2. SubSeq(answer, 1, 0) = <<>>
      BY SubSeqEmpty
    <3> QED BY <1>8, <2>1, <3>1, <3>2 DEF Pending, callVars
  <2>6. sequence'[c] = 0 % SequenceMod
    <3>1. 0 \in 0..(SequenceMod - 1) /\ SequenceMod \in Nat \ {0}
      BY ConstantsAssumption DEF ConstantsAssumption
    <3>2. 0 % SequenceMod = 0
      BY <3>1, SmallRemainder
    <3> QED BY <1>8, <2>1, <3>2 DEF Pending, callVars
  <2>7. 0 <= 0 + faults'
    BY <1>8, ConstantsAssumption DEF ConstantsAssumption, Inv, TypeOK
  <2>8. answer' = answer
    BY DEF answer
  <2>9. Answering(c, answer, 0, 0)'
    BY <1>5, <1>7, <1>8, <2>4, <2>5, <2>6, <2>7, <2>8 DEF Answering
  <2>10. 0 \in 0..Len(Fragments(answer))
    BY <1>7
  <2> QED BY <2>3, <2>9, <2>10
<1> QED BY <1>9, <1>10, <1>11 DEF Inv

LEMMA LoseReportInv == ASSUME Inv, LoseReport PROVE Inv'
<1>1. /\ unread # <<>> /\ unread' = Tail(unread)
      /\ faults < MaxFaults /\ faults' = faults + 1
      /\ UNCHANGED <<mu, pc, callVars, closed, partial, expected, asked>>
  BY DEF LoseReport
<1>2. TypeOK'
  <2>1. unread \in Seq(Reports)
    BY DEF Inv, TypeOK
  <2>2. unread' \in Seq(Reports)
    BY <1>1, <2>1, HeadTailProperties
  <2>3. faults' \in 0..MaxFaults
    BY <1>1, ConstantsAssumption DEF ConstantsAssumption, Inv, TypeOK
  <2> QED BY <1>1, <2>2, <2>3 DEF Inv, TypeOK, callVars
<1>3. LockHeld' /\ Sending' /\ TokenFollows' /\ AnswersMatch' /\ CommandsWhole'
  BY <1>1 DEF Inv, LockHeld, Sending, TokenFollows, AnswersMatch, CommandsWhole, callVars
<1>4. Receiving'
  <2> SUFFICES ASSUME NEW c \in Calls, pc'[c] = "receive"
               PROVE  (\E l \in ResponseLengths :
                          LET a == Response(transmit[c], l)
                          IN  \E accepted, given \in 0..Len(Fragments(a)) :
                                 Answering(c, a, accepted, given))'
    BY DEF Receiving
  <2>1. PICK length \in ResponseLengths :
           LET answer == Response(transmit[c], length)
           IN  /\ answer \in Seq(Bytes)
               /\ Len(answer) # 0
               /\ Fragments(answer) \in Seq(Reports)
               /\ \E accepted, given \in 0..Len(Fragments(answer)) :
                     Answering(c, answer, accepted, given)
    BY <1>1, AnswerGoesOn
  <2> DEFINE answer == Response(transmit[c], length)
             reports == Fragments(answer)
             count  == Len(reports)
  <2>2. PICK accepted \in 0..count, given \in 0..count :
           Answering(c, answer, accepted, given)
    BY <2>1
  <2>3. reports \in Seq(Reports) /\ count \in Nat
    BY <2>1
  <2>4. Response(transmit'[c], length) = answer
    BY <1>1 DEF callVars
  <2> HIDE DEF answer
  <2>5. /\ unread = SubSeq(reports, given + 1, count)
        /\ accepted < count /\ accepted <= given + 1 /\ given <= accepted + faults
    BY <2>2 DEF Answering
  <2>6. given < count /\ unread' = SubSeq(reports, given + 2, count)
    BY <1>1, <2>2, <2>3, <2>5, LeftReports
  <2>7. (given + 1) + 1 = given + 2 /\ given + 1 \in 0..count
    BY <2>3, <2>6
  <2>8. accepted <= (given + 1) + 1 /\ given + 1 <= accepted + faults'
    <3>1. faults \in Nat
      BY ConstantsAssumption DEF ConstantsAssumption, Inv, TypeOK
    <3> QED BY <1>1, <2>3, <2>5, <3>1
  <2>9. answer' = answer
    BY <1>1 DEF answer, callVars
  <2>10. Answering(c, answer, accepted, given + 1)'
    BY <1>1, <2>2, <2>5, <2>6, <2>7, <2>8, <2>9 DEF Answering, callVars
  <2>11. Answering(c, Response(transmit[c], length), accepted, given + 1)'
    BY <2>10 DEF answer
  <2>12. accepted \in 0..Len(Fragments(Response(transmit'[c], length)))
    BY <2>4
  <2>13. given + 1 \in 0..Len(Fragments(Response(transmit'[c], length)))
    BY <2>4, <2>7
  <2> QED BY <2>11, <2>12, <2>13
<1> QED BY <1>2, <1>3, <1>4 DEF Inv

LEMMA NextInv == Inv /\ [Next]_vars => Inv'
<1> SUFFICES ASSUME Inv, [Next]_vars PROVE Inv'
  OBVIOUS
<1>1. CASE \E c \in Calls : CallStep(c)
  BY <1>1, OutsideInv, UnlockInv, StartInv, SendReportInv, GetReportInv
     DEF CallStep, LocalStep
<1>2. CASE TokenAnswers
  BY <1>2, TokenAnswersInv
<1>3. CASE LoseReport
  BY <1>3, LoseReportInv
<1>4. CASE UNCHANGED vars
  <2>1. TypeOK' /\ LockHeld'
    BY <1>4 DEF vars, callVars, tokenVars, Inv, TypeOK, LockHeld
  <2>2. (Sending /\ TokenFollows /\ Receiving /\ AnswersMatch /\ CommandsWhole)'
    BY <1>4, Undisturbed DEF vars, callVars
  <2> QED BY <2>1, <2>2 DEF Inv
<1> QED BY <1>1, <1>2, <1>3, <1>4 DEF Next

-----------------------------------------------------------------------------
\* The mutex, the sending loop, the token and the polling loop follow each other.
THEOREM TransmitInvariance == Spec => []Inv
<1>1. Init => Inv
  BY InitInv
<1> QED BY <1>1, NextInv, PTL DEF Spec

\* Report numbers, offsets and reports stay in their ranges: no report carries
\* more than ChunkSize bytes, or none.
THEOREM TransmitTypes == Spec => []TypeOK
<1>1. Inv => TypeOK
  BY DEF Inv
<1> QED BY <1>1, TransmitInvariance, PTL

\* Transmit returns the whole answer to its own command, or an error, as long as
\* no more reports are lost or repeated than the numbers can tell apart.
THEOREM AnswersAlwaysMatch == Spec => []AnswersMatch
<1>1. Inv => AnswersMatch
  BY DEF Inv
<1> QED BY <1>1, TransmitInvariance, PTL

\* The token never works on fragments of two commands.
THEOREM CommandsAlwaysWhole == Spec => []CommandsWhole
<1>1. Inv => CommandsWhole
  BY DEF Inv
<1> QED BY <1>1, TransmitInvariance, PTL

=============================================================================
