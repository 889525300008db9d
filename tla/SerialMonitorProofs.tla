------------------------- MODULE SerialMonitorProofs -------------------------
(***************************************************************************)
(* Proofs about SerialMonitor, for any readers, tokens and number of       *)
(* insertions: what the summary says is what happened, and the trace never *)
(* waits for the monitor's own transaction.                                *)
(***************************************************************************)
EXTENDS SerialMonitor, FiniteSetTheorems, SequenceTheorems, TLAPS

Events == [type : {"inserted", "removed"}, reader : Readers]

\* The events in queue that are to be attempted.
ToAttempt(queue) ==
    {i \in 1..Len(queue) : queue[i].type = "inserted" /\ queue[i].reader \in Matching}

Attempted(event) == event.type = "inserted" /\ event.reader \in Matching

\* 0 is a number of insertions, and stands for no connection.
LEMMA ZeroInsertions == 0 \in 0..MaxInsertions
BY ConstantsAssumption DEF ConstantsAssumption

-----------------------------------------------------------------------------
\* Facts about the channel.

LEMMA ToAttemptFinite ==
    ASSUME NEW queue \in Seq(Events)
    PROVE  /\ IsFiniteSet(ToAttempt(queue))
           /\ Cardinality(ToAttempt(queue)) \in Nat
<1>1. IsFiniteSet(1..Len(queue))
  BY FS_Interval
<1>2. ToAttempt(queue) \in SUBSET (1..Len(queue))
  BY DEF ToAttempt
<1>3. IsFiniteSet(ToAttempt(queue))
  BY <1>1, <1>2, FS_Subset
<1> QED BY <1>3, FS_CardinalityType

\* A new event is one more to attempt, or is none.
LEMMA ToAttemptAppend ==
    ASSUME NEW queue \in Seq(Events), NEW event \in Events
    PROVE  Cardinality(ToAttempt(Append(queue, event))) =
              Cardinality(ToAttempt(queue)) + (IF Attempted(event) THEN 1 ELSE 0)
<1> DEFINE n == Len(queue) + 1
<1>1. /\ Len(Append(queue, event)) = n
      /\ \A i \in 1..Len(queue) : Append(queue, event)[i] = queue[i]
      /\ Append(queue, event)[n] = event
  BY AppendProperties
<1>2. ToAttempt(Append(queue, event)) =
         IF Attempted(event) THEN ToAttempt(queue) \cup {n} ELSE ToAttempt(queue)
  BY <1>1 DEF ToAttempt, Attempted
<1>3. n \notin ToAttempt(queue)
  BY DEF ToAttempt
<1>4. IsFiniteSet(ToAttempt(queue)) /\ Cardinality(ToAttempt(queue)) \in Nat
  BY ToAttemptFinite
<1> HIDE DEF n
<1>6. Cardinality(ToAttempt(queue) \cup {n}) = Cardinality(ToAttempt(queue)) + 1
  BY <1>3, <1>4, FS_AddElement
<1> QED BY <1>2, <1>4, <1>6

\* The event taken is the one that counts no more.
LEMMA ToAttemptTail ==
    ASSUME NEW queue \in Seq(Events), queue # <<>>
    PROVE  Cardinality(ToAttempt(queue)) =
              Cardinality(ToAttempt(Tail(queue))) + (IF Attempted(Head(queue)) THEN 1 ELSE 0)
<1> DEFINE rest == ToAttempt(Tail(queue))
           moved == {i + 1 : i \in rest}
<1>1. /\ Tail(queue) \in Seq(Events)
      /\ Len(queue) \in Nat \ {0}
      /\ Len(Tail(queue)) = Len(queue) - 1
      /\ \A i \in 1..(Len(queue) - 1) : Tail(queue)[i] = queue[i + 1]
      /\ Head(queue) = queue[1]
  BY HeadTailProperties, EmptySeq
<1>2. IsFiniteSet(rest) /\ Cardinality(rest) \in Nat
  BY <1>1, ToAttemptFinite
<1>3. rest \in SUBSET (Nat \ {0})
  BY DEF ToAttempt
<1>4. IsFiniteSet(moved) /\ Cardinality(moved) = Cardinality(rest)
  <2> HIDE DEF rest
  <2>1. [i \in rest |-> i + 1] \in Bijection(rest, moved)
    BY <1>3 DEF Bijection, Injection, Surjection, IsInjective
  <2>2. ExistsBijection(rest, moved)
    BY <2>1 DEF ExistsBijection
  <2> QED BY <1>2, <2>2, FS_Bijection
<1>5. 1 \notin moved
  BY <1>3
<1>6. ToAttempt(queue) = IF Attempted(Head(queue)) THEN moved \cup {1} ELSE moved
  <2>1. \A k \in 1..Len(queue) : k = 1 \/ (k - 1 \in 1..(Len(queue) - 1) /\ queue[k] = Tail(queue)[k - 1])
    BY <1>1
  <2>2. \A k \in moved : k \in 2..Len(queue) /\ Attempted(queue[k])
    BY <1>1 DEF ToAttempt, Attempted
  <2>3. \A k \in ToAttempt(queue) : k # 1 => k - 1 \in rest
    BY <1>1, <2>1 DEF ToAttempt
  <2>4. \A k \in ToAttempt(queue) : k # 1 => k \in moved
    <3>1. \A k \in ToAttempt(queue) : k \in Nat /\ k = (k - 1) + 1
      BY <1>1 DEF ToAttempt
    <3> QED BY <2>3, <3>1
  <2>5. 1 \in ToAttempt(queue) <=> Attempted(Head(queue))
    BY <1>1 DEF ToAttempt, Attempted
  <2>6. moved \subseteq ToAttempt(queue)
    BY <1>1, <2>2 DEF ToAttempt, Attempted
  <2>7. \A k : k \in ToAttempt(queue) <=>
               k \in (IF Attempted(Head(queue)) THEN moved \cup {1} ELSE moved)
    <3> HIDE DEF moved, rest
    <3> QED BY <2>4, <2>5, <2>6, <1>5
  <2> HIDE DEF moved, rest
  <2> QED BY <2>7
<1> HIDE DEF moved, rest
<1>7. Cardinality(moved \cup {1}) = Cardinality(moved) + 1
  BY <1>4, <1>5, FS_AddElement
<1>8. CASE Attempted(Head(queue))
  BY <1>2, <1>4, <1>6, <1>7, <1>8 DEF rest
<1>9. CASE ~Attempted(Head(queue))
  BY <1>2, <1>4, <1>6, <1>9 DEF rest
<1> QED BY <1>8, <1>9

LEMMA WaitingIsToAttempt == Waiting = ToAttempt(events) /\ Waiting' = ToAttempt(events')
BY DEF Waiting, ToAttempt

-----------------------------------------------------------------------------
\* Facts about the invariant.

\* The numbers of the summary are numbers.
LEMMA Counters ==
    ASSUME Inv
    PROVE  /\ insertions \in Nat /\ shown \in Nat /\ attempts \in Nat /\ failures \in Nat
           /\ shown <= MaxInsertions
           /\ MaxInsertions \in Nat
           /\ Cardinality(serials) \in Nat
           /\ Cardinality(Waiting) \in Nat
           /\ events \in Seq(Events)
<1>1. Cardinality(serials) \in Nat
  BY FS_CardinalityType DEF Inv, AttemptsCounted
<1>2. events \in Seq(Events)
  BY DEF Inv, TypeOK, WorldTypes, Events
<1>3. Cardinality(Waiting) \in Nat
  BY <1>2, ToAttemptFinite, WaitingIsToAttempt
<1> QED BY <1>1, <1>2, <1>3, ConstantsAssumption
        DEF Inv, TypeOK, WorldTypes, ResultTypes, ConstantsAssumption

-----------------------------------------------------------------------------
\* The invariant holds initially and every action preserves it.

LEMMA InitInv == Init => Inv
<1> SUFFICES ASSUME Init PROVE Inv
  OBVIOUS
<1> USE ConstantsAssumption DEF ConstantsAssumption, Init
<1>1. TypeOK
  <2>1. events \in Seq([type : {"inserted", "removed"}, reader : Readers])
    OBVIOUS
  <2>2. /\ present \in [Readers -> Tokens \cup {None}]
        /\ born \in [Readers -> 0..MaxInsertions]
    BY ZeroInsertions
  <2>3. /\ insertions \in 0..MaxInsertions /\ shown \in 0..insertions
    OBVIOUS
  <2>4. busy \subseteq Readers /\ listening \in BOOLEAN /\ canceled \in BOOLEAN
    OBVIOUS
  <2>5. WorldTypes
    BY <2>1, <2>2, <2>3, <2>4 DEF WorldTypes
  <2>6. ResultTypes
    BY DEF ResultTypes
  <2> QED BY <2>5, <2>6, ZeroInsertions DEF TypeOK, Places
<1>2. InsertionsAccounted
  <2>1. Waiting = {}
    BY DEF Waiting
  <2> QED BY <2>1, FS_EmptySet DEF InsertionsAccounted
<1>3. AttemptsCounted
  BY FS_EmptySet DEF AttemptsCounted, Undecided
<1>4. ReaderNamed /\ TransactionClosed
  BY DEF ReaderNamed, TransactionClosed
<1> QED BY <1>1, <1>2, <1>3, <1>4 DEF Inv

\* What the world does to the monitor: nothing to its counters and its place.
LEMMA WorldInv ==
    ASSUME Inv, UNCHANGED <<pc, reader, conn, serial, results>>,
           holds' \in {holds, FALSE}, TypeOK', InsertionsAccounted'
    PROVE  Inv'
<1>1. AttemptsCounted'
  BY DEF Inv, AttemptsCounted, Undecided, results
<1>2. ReaderNamed'
  BY DEF Inv, ReaderNamed
<1>3. TransactionClosed'
  BY DEF Inv, TypeOK, TransactionClosed
<1> QED BY <1>1, <1>2, <1>3 DEF Inv

LEMMA InsertInv ==
    ASSUME Inv, NEW r \in Readers, NEW t \in Tokens, Insert(r, t)
    PROVE  Inv'
<1> USE ConstantsAssumption DEF ConstantsAssumption, Insert
<1> DEFINE event == [type |-> "inserted", reader |-> r]
<1>1. event \in Events /\ (Attempted(event) <=> r \in Matching)
  BY DEF Events, Attempted
<1>2. events' \in Seq(Events)
  BY <1>1, Counters, AppendProperties
<1>3. TypeOK'
  BY <1>2, Counters DEF Inv, TypeOK, WorldTypes, ResultTypes, Events, results
<1>4. InsertionsAccounted'
  <2>1. Cardinality(Waiting)' = Cardinality(Waiting) + (IF r \in Matching THEN 1 ELSE 0)
    BY <1>1, Counters, ToAttemptAppend, WaitingIsToAttempt
  <2> QED BY <2>1, Counters DEF Inv, InsertionsAccounted, results
<1> QED BY <1>3, <1>4, WorldInv

LEMMA RemoveInv == ASSUME Inv, NEW r \in Readers, Remove(r) PROVE Inv'
<1> USE ConstantsAssumption DEF ConstantsAssumption, Remove
<1> DEFINE event == [type |-> "removed", reader |-> r]
<1>1. event \in Events /\ ~Attempted(event)
  BY DEF Events, Attempted
<1>2. events' \in Seq(Events)
  BY <1>1, Counters, AppendProperties
<1>3. holds' \in {holds, FALSE}
  BY DEF Inv, TypeOK
<1>4. TypeOK'
  BY <1>2, <1>3 DEF Inv, TypeOK, WorldTypes, ResultTypes, Events, results
<1>5. InsertionsAccounted'
  <2>1. Cardinality(Waiting)' = Cardinality(Waiting)
    BY <1>1, Counters, ToAttemptAppend, WaitingIsToAttempt
  <2> QED BY <2>1, Counters DEF Inv, InsertionsAccounted, results
<1> QED BY <1>3, <1>4, <1>5, WorldInv

\* Other applications, the end of the service and Ctrl-C, and stuttering.
LEMMA QuietWorldInv ==
    ASSUME Inv, \/ \E r \in Readers : OtherLocks(r) \/ OtherUnlocks(r)
                \/ StopListening \/ Interrupt \/ UNCHANGED vars
    PROVE  Inv'
<1>1. /\ UNCHANGED <<present, born, insertions, shown, events, pc, reader, conn, holds,
                     serial, results>>
      /\ busy' \subseteq Readers /\ listening' \in BOOLEAN /\ canceled' \in BOOLEAN
  BY DEF Inv, TypeOK, WorldTypes, OtherLocks, OtherUnlocks, StopListening, Interrupt, vars,
         world
<1>2. TypeOK'
  BY <1>1 DEF Inv, TypeOK, WorldTypes, ResultTypes, results
<1>3. InsertionsAccounted'
  BY <1>1 DEF Inv, InsertionsAccounted, Waiting, results
<1> QED BY <1>1, <1>2, <1>3, WorldInv

LEMMA ReceiveInv == ASSUME Inv, Receive PROVE Inv'
<1> USE ConstantsAssumption DEF ConstantsAssumption, Receive
<1> DEFINE taken == Attempted(Head(events))
<1>1. /\ events \in Seq(Events) /\ events # <<>>
      /\ Head(events) \in Events /\ Tail(events) \in Seq(Events)
  BY Counters, HeadTailProperties
<1>2. Cardinality(Waiting) = Cardinality(Waiting)' + (IF taken THEN 1 ELSE 0)
  BY <1>1, ToAttemptTail, WaitingIsToAttempt
<1>3. Cardinality(Waiting)' \in Nat
  BY <1>1, ToAttemptFinite, WaitingIsToAttempt
<1>4. /\ taken => /\ attempts' = attempts + 1
                  /\ reader' = Head(events).reader /\ reader' \in Matching
                  /\ pc' = "open"
      /\ ~taken => UNCHANGED <<attempts, reader, pc>>
  BY DEF Attempted, GoTo
<1>5. InsertionsAccounted'
  BY <1>2, <1>3, <1>4, Counters DEF Inv, InsertionsAccounted
<1>6. attempts' \in 0..MaxInsertions /\ failures' \in 0..attempts'
  <2>1. taken => attempts + 1 <= shown
    BY <1>2, <1>3, Counters DEF Inv, InsertionsAccounted
  <2> QED BY <1>4, <2>1, Counters DEF Inv, TypeOK, ResultTypes
<1>7. TypeOK'
  BY <1>1, <1>4, <1>6 DEF Inv, TypeOK, WorldTypes, ResultTypes, Places, Events
<1>8. AttemptsCounted'
  BY <1>4, Counters DEF Inv, AttemptsCounted, Undecided
<1>9. (ReaderNamed /\ TransactionClosed)'
  BY <1>4 DEF Inv, ReaderNamed, TransactionClosed
<1> QED BY <1>5, <1>7, <1>8, <1>9 DEF Inv

\* A step of the monitor that leaves the world alone keeps its account of the
\* insertions if it keeps the attempts.
LEMMA SameAccount ==
    ASSUME Inv, UNCHANGED <<world, attempts>>
    PROVE  InsertionsAccounted'
BY DEF Inv, InsertionsAccounted, Waiting, world

\* A failure turns the undecided attempt into a counted one.
LEMMA FailedCounts ==
    ASSUME Inv, Failed, pc \in {"open", "close"}
    PROVE  /\ AttemptsCounted'
           /\ failures' \in 0..attempts'
           /\ pc' = "traceOpen" /\ serial' = None
           /\ UNCHANGED <<attempts, serials>>
<1> USE DEF Failed, GoTo
<1>1. Undecided = 1 /\ Undecided' = 0
  BY DEF Undecided
<1> QED BY <1>1, Counters DEF Inv, AttemptsCounted

LEMMA OpenInv == ASSUME Inv, Open PROVE Inv'
<1> USE ConstantsAssumption DEF ConstantsAssumption, Open
<1>1. InsertionsAccounted'
  BY SameAccount DEF Failed, results
<1>2. reader \in Matching /\ ~holds /\ conn = 0
  BY DEF Inv, TypeOK, ReaderNamed, TransactionClosed
<1>3. CASE Failed /\ UNCHANGED conn
  <2>1. TypeOK'
    BY <1>2, <1>3, FailedCounts DEF Inv, TypeOK, Places, ResultTypes, WorldTypes, world
  <2> QED BY <1>1, <1>2, <1>3, <2>1, FailedCounts DEF Inv, ReaderNamed, TransactionClosed
<1>4. CASE ~(Failed /\ UNCHANGED conn)
  <2>1. pc' = "begin" /\ conn' = born[reader] /\ UNCHANGED <<serial, results>>
    BY <1>4 DEF GoTo
  <2>2. TypeOK'
    BY <1>2, <2>1 DEF Inv, TypeOK, Places, ResultTypes, WorldTypes, world, results
  <2>3. AttemptsCounted'
    BY <2>1 DEF Inv, AttemptsCounted, Undecided, results
  <2> QED BY <1>1, <1>2, <2>1, <2>2, <2>3 DEF Inv, ReaderNamed, TransactionClosed
<1> QED BY <1>3, <1>4

LEMMA CloseInv == ASSUME Inv, Close PROVE Inv'
<1> USE ConstantsAssumption DEF ConstantsAssumption, Close
<1>1. InsertionsAccounted'
  BY SameAccount DEF Failed
<1>2. reader \in Matching
  BY DEF Inv, ReaderNamed
<1>3. CASE Failed
  <2>1. /\ AttemptsCounted' /\ failures' \in 0..attempts'
        /\ pc' = "traceOpen" /\ serial' = None /\ conn' = 0 /\ holds' = FALSE
        /\ UNCHANGED <<attempts, serials, world, reader>>
    BY <1>3, FailedCounts
  <2>2. TypeOK'
    BY <2>1, ZeroInsertions DEF Inv, TypeOK, Places, ResultTypes, WorldTypes, world
  <2> QED BY <1>1, <1>2, <2>1, <2>2 DEF Inv, ReaderNamed, TransactionClosed
<1>4. CASE ~Failed
  <2>1. /\ pc' = "select" /\ serial' = None
        /\ serial \in Tokens /\ serials' = serials \cup {serial}
        /\ UNCHANGED <<attempts, failures>>
    BY <1>4 DEF GoTo, Inv, TypeOK
  <2>2. TypeOK'
    BY <2>1, ZeroInsertions DEF Inv, TypeOK, Places, ResultTypes, WorldTypes, world
  <2>3. /\ IsFiniteSet(serials')
        /\ Cardinality(serials') \in Nat
        /\ Cardinality(serials') <= Cardinality(serials) + 1
    <3>1. IsFiniteSet(serials)
      BY DEF Inv, AttemptsCounted
    <3>2. /\ IsFiniteSet(serials \cup {serial})
          /\ Cardinality(serials \cup {serial}) =
                IF serial \in serials THEN Cardinality(serials) ELSE Cardinality(serials) + 1
      BY <3>1, FS_AddElement
    <3> QED BY <2>1, <3>2, Counters
  <2>4. AttemptsCounted'
    BY <2>1, <2>3, Counters DEF Inv, AttemptsCounted, Undecided
  <2> QED BY <1>1, <2>1, <2>2, <2>4 DEF Inv, ReaderNamed, TransactionClosed
<1> QED BY <1>3, <1>4

\* The other steps change neither the results nor the world, and keep the
\* undecided attempt undecided.
LEMMA WalkInv ==
    ASSUME Inv, UNCHANGED <<world, reader, results>>,
           pc \notin {"select", "done"} \/ pc' \in {"select", "done"},
           Undecided' = Undecided, pc' \in Places,
           conn' \in 0..MaxInsertions, serial' \in Tokens \cup {None}, holds' \in BOOLEAN,
           pc' \in {"select", "open", "traceOpen", "done"} => conn' = 0,
           TransactionClosed'
    PROVE  Inv'
<1>1. TypeOK'
  BY DEF Inv, TypeOK, ResultTypes, WorldTypes, world, results
<1>2. InsertionsAccounted'
  BY SameAccount DEF results
<1>3. (AttemptsCounted /\ ReaderNamed)'
  BY DEF Inv, AttemptsCounted, ReaderNamed, results
<1> QED BY <1>1, <1>2, <1>3 DEF Inv

LEMMA ReadingInv == ASSUME Inv, Begin \/ Read \/ End PROVE Inv'
<1> USE DEF Inv, TypeOK, TransactionClosed, GoTo, Undecided, Places
<1>1. CASE Begin
  BY <1>1, WalkInv DEF Begin, BeginTransaction
<1>2. CASE Read
  <2>1. serial' \in Tokens \cup {None}
    BY <1>2, ConstantsAssumption DEF Read, Alive, ReaderNamed, WorldTypes, ConstantsAssumption
  <2> QED BY <1>2, <2>1, WalkInv DEF Read
<1>3. CASE End
  BY <1>3, WalkInv DEF End
<1> QED BY <1>1, <1>2, <1>3

LEMMA CallFailsInv == ASSUME Inv, CallFails PROVE Inv'
<1> USE DEF Inv, TypeOK, TransactionClosed, GoTo, Undecided, Places
<1> QED BY WalkInv DEF CallFails, Waits

LEMMA TraceInv ==
    ASSUME Inv, TraceOpen \/ TraceBegin \/ Trace \/ TraceEnd \/ TraceClose
    PROVE  Inv'
<1> USE DEF Inv, TypeOK, TransactionClosed, GoTo, Undecided, Places
<1>1. CASE TraceOpen
  <2>1. reader \in Readers
    BY <1>1, ConstantsAssumption DEF TraceOpen, ReaderNamed, ConstantsAssumption
  <2>2. conn' \in 0..MaxInsertions
    BY <1>1, <2>1 DEF TraceOpen, WorldTypes
  <2> QED BY <1>1, <2>1, <2>2, WalkInv DEF TraceOpen
<1>2. CASE TraceBegin
  BY <1>2, WalkInv DEF TraceBegin, BeginTransaction
<1>3. CASE Trace
  BY <1>3, WalkInv DEF Trace
<1>4. CASE TraceEnd
  BY <1>4, WalkInv DEF TraceEnd
<1>5. CASE TraceClose
  <2>1. /\ pc = "traceClose" /\ pc' = "select" /\ conn' = 0 /\ ~holds' /\ holds' \in BOOLEAN
        /\ UNCHANGED <<world, reader, serial, results>>
    BY <1>5 DEF TraceClose
  <2> QED BY <2>1, ZeroInsertions, WalkInv
<1> QED BY <1>1, <1>2, <1>3, <1>4, <1>5

LEMMA StopInv == ASSUME Inv, Stop PROVE Inv'
<1>1. /\ pc = "select" /\ pc' = "done" /\ ~holds
      /\ UNCHANGED <<world, reader, conn, holds, serial, results>>
  BY DEF Stop, GoTo, Inv, TransactionClosed
<1>2. Undecided' = Undecided /\ pc' \in Places /\ TransactionClosed'
  BY <1>1 DEF Undecided, Places, TransactionClosed
<1> QED BY <1>1, <1>2, WalkInv DEF Inv, TypeOK

LEMMA NextInv == Inv /\ [Next]_vars => Inv'
<1> SUFFICES ASSUME Inv, [Next]_vars PROVE Inv'
  OBVIOUS
<1>1. CASE MonitorStep
  BY <1>1, ReceiveInv, OpenInv, CloseInv, ReadingInv, CallFailsInv, TraceInv, StopInv
     DEF MonitorStep, LocalStep
<1>2. CASE WorldStep
  BY <1>2, InsertInv, RemoveInv, QuietWorldInv DEF WorldStep
<1>3. CASE UNCHANGED vars
  BY <1>3, QuietWorldInv
<1> QED BY <1>1, <1>2, <1>3 DEF Next

-----------------------------------------------------------------------------
\* The theorems.

\* The conjunction of the invariants, which is inductive.
THEOREM MonitorInvariance == Spec => []Inv
<1> QED BY InitInv, NextInv, PTL DEF Spec

\* However fast tokens come and go, every card shown to a matching reader was
\* attempted once or its event still waits in the channel.
THEOREM NoInsertionLost == Spec => []InsertionsAccounted
<1>1. Inv => InsertionsAccounted
  BY DEF Inv
<1> QED BY <1>1, MonitorInvariance, PTL

\* The summary of a monitor that waits or has ended adds up: serials and failures
\* together are no more than the attempts, and nothing read means all failed.
THEOREM SummaryAddsUp == Spec => []ResultsAccounted
<1>1. Inv => ResultsAccounted
  BY Counters DEF Inv, AttemptsCounted, ResultsAccounted, Undecided
<1> QED BY <1>1, MonitorInvariance, PTL

\* The trace begins its transaction when the failed reading has given up its own.
THEOREM TraceNeverSelfBlocked == Spec => []TraceUnblocked
<1>1. Inv => TraceUnblocked
  BY DEF Inv, TransactionClosed, TraceUnblocked
<1> QED BY <1>1, MonitorInvariance, PTL

=============================================================================
