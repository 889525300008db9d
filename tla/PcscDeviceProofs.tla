-------------------------- MODULE PcscDeviceProofs --------------------------
(***************************************************************************)
(* Proofs about PcscDevice, for any number of Devices and goroutines.      *)
(***************************************************************************)
EXTENDS PcscDevice, TLAPS

-----------------------------------------------------------------------------
\* Facts about the step tables.

\* The first step under the lock neither uses the card nor returns.
LEMMA FirstStep ==
    ASSUME NEW o \in Operations
    PROVE  /\ Fits(o, AfterLock(o))
           /\ AfterLock(o) \in {"begin", "checkBeforeATR", "setting"}
BY DEF Operations, Transactional, Settings, AfterLock, Fits

\* A transaction starts with a SELECT.
LEMMA FirstSelect ==
    ASSUME NEW o \in Transactional
    PROVE  /\ Fits(o, AfterBegin(o))
           /\ AfterBegin(o) \in {"selectOTP", "selectOTPForConfig"}
BY DEF Transactional, AfterBegin, Fits, SerialSteps, ConfigurationSteps

\* When a reading is over the call checks its context, ends or unlocks.
LEMMA ReadingOver ==
    ASSUME NEW o \in Operations, NEW s \in CardSteps \cup {"status"}, Fits(o, s)
    PROVE  /\ Fits(o, AfterReading(o, s))
           /\ AfterReading(o, s) \in {"checkAfterSerial", "checkAfterATR", "end", "unlock"}
           /\ o \in Transactional => AfterReading(o, s) # "unlock"
BY DEF Operations, Transactional, Settings, AfterReading, Fits, ReadSteps,
       CardSteps, SerialSteps, ConfigurationSteps

\* A final answer leads to another command only for the applet that is selected.
LEMMA NextCommand ==
    ASSUME NEW o \in Operations, NEW s \in CardSteps, Fits(o, s),
           NEW sw \in FinalStatus
    PROVE  LET n == AfterExchange(o, s, sw)
           IN  /\ Fits(o, n)
               /\ n \in CardSteps \cup {"checkAfterSerial", "end", "unlock"}
               /\ o \in Transactional => n # "unlock"
               /\ n \in AppletSteps =>
                    \/ s \in AppletSteps /\ NeededApplet(n) = NeededApplet(s)
                    \/ s \in SelectSteps /\ sw = Success /\ NeededApplet(n) = Selects(s)
<1>1. CASE AfterExchange(o, s, sw) = AfterReading(o, s)
  <2>1. AfterReading(o, s) \in {"checkAfterSerial", "end", "unlock"}
    BY DEF CardSteps, SerialSteps, ConfigurationSteps, AfterReading
  <2> QED BY <1>1, <2>1, ReadingOver DEF AppletSteps
<1>2. CASE AfterExchange(o, s, sw) # AfterReading(o, s)
  BY <1>2 DEF AfterExchange, Fits, Operations, Transactional, Settings,
       CardSteps, SerialSteps, ConfigurationSteps, ReadSteps, AppletSteps,
       SelectSteps, NeededApplet, Selects, Success, Unsupported
<1> QED BY <1>1, <1>2

-----------------------------------------------------------------------------
\* Facts about the invariant.

\* A call past mu.Lock runs a method and holds the mutex alone on its Device.
LEMMA MutexExcludes ==
    ASSUME Inv, NEW b \in Calls, NEW c \in Calls, DeviceOf[b] = DeviceOf[c],
           pc[b] \notin {"idle", "lock"}, pc[c] \notin {"idle", "lock"}
    PROVE  b = c
BY DEF Inv, LockHeld

\* Nobody but its owner can reach the card during a transaction.
LEMMA TransactionExcludes ==
    ASSUME Inv, NEW b \in Calls, NEW c \in Calls,
           op[b] \in Transactional, pc[b] \in ReadSteps \cup {"end"}, IsOpen(b),
           pc[c] \notin {"idle", "lock"}, Reachable(c)
    PROVE  b = c
<1>1. tx = DeviceOf[b] /\ tx \in {NoDevice, DeviceOf[c]}
  BY DEF Inv, TransactionHeld, Reachable
<1>2. tx # NoDevice
  BY <1>1, ConstantsAssumption DEF ConstantsAssumption
<1>3. pc[b] \notin {"idle", "lock"}
  BY DEF ReadSteps, SerialSteps, ConfigurationSteps
<1> QED BY <1>1, <1>2, <1>3, MutexExcludes

\* A call that sends or checks something runs a method.
LEMMA Running ==
    ASSUME Inv, NEW c \in Calls, pc[c] # "idle"
    PROVE  op[c] \in Operations /\ Fits(op[c], pc[c])
BY DEF Inv, StepsFit, Fits, Operations, Transactional

\* Commands for an applet, SELECTs and continuations of a transactional read are
\* sent inside its transaction.
LEMMA InTransaction ==
    ASSUME Inv, NEW c \in Calls
    PROVE  /\ pc[c] \in AppletSteps \cup SelectSteps =>
                op[c] \in Transactional /\ pc[c] \in ReadSteps
           /\ op[c] \in Transactional /\ fetching[c] => pc[c] \in ReadSteps
<1>1. Fits(op[c], pc[c]) /\ (fetching[c] => pc[c] \in CardSteps)
  BY DEF Inv, StepsFit, TypeOK
<1> QED
  BY <1>1 DEF Fits, AppletSteps, SelectSteps, CardSteps, ReadSteps, SerialSteps,
       ConfigurationSteps, Transactional, Settings

-----------------------------------------------------------------------------
\* The invariant holds initially and every action preserves it.

LEMMA InitInv == Init => Inv
<1> SUFFICES ASSUME Init PROVE Inv
  OBVIOUS
<1>1. TypeOK
  BY ConstantsAssumption DEF ConstantsAssumption, Init, TypeOK, Steps, Operations
<1>2. StepsFit /\ LockHeld /\ SelectHeld
  BY DEF Init, StepsFit, Fits, LockHeld, SelectHeld
<1>3. TransactionHeld
  BY DEF Init, TransactionHeld, Transactional
<1>4. AppletHeld /\ ReadingUndisturbed /\ SettingSerialized
  BY DEF Init, AppletHeld, AppletSteps, ReadingUndisturbed, SettingSerialized
<1>5. TransactionReported
  BY DEF Init, TransactionReported
<1> QED BY <1>1, <1>2, <1>3, <1>4, <1>5 DEF Inv

LEMMA OpenInv == ASSUME Inv, NEW d \in Devices, Open(d) PROVE Inv'
<1> USE DEF Inv, Open, callVars, cardVars
<1>1. TypeOK'
  BY DEF TypeOK
<1>2. (StepsFit /\ LockHeld /\ SettingSerialized /\ TransactionReported)'
  BY DEF TypeOK, StepsFit, LockHeld, SettingSerialized, TransactionReported
<1>3. ASSUME NEW c \in Calls, IsOpen(c)'
      PROVE  IsOpen(c) \/ (pc[c] = "idle" /\ op[c] = "none")
  BY <1>3 DEF TypeOK, IsOpen, StepsFit, Fits, ConfigurationSteps, SerialSteps, ReadSteps
<1>4. (TransactionHeld /\ ReadingUndisturbed)'
  BY <1>3 DEF TransactionHeld, ReadingUndisturbed, Transactional
<1>5. (AppletHeld /\ SelectHeld)'
  BY <1>3 DEF AppletHeld, AppletSteps, SelectHeld, SelectSteps
<1> QED BY <1>1, <1>2, <1>4, <1>5

LEMMA RequestCloseInv == ASSUME Inv, NEW d \in Devices, RequestClose(d) PROVE Inv'
<1> USE DEF Inv, RequestClose, callVars, cardVars
<1>1. TypeOK'
  BY DEF TypeOK
<1>2. \A c \in Calls : IsOpen(c)' <=> IsOpen(c)
  BY DEF TypeOK, IsOpen
<1>3. (StepsFit /\ LockHeld /\ TransactionHeld /\ TransactionReported)'
  BY <1>2 DEF TypeOK, StepsFit, LockHeld, TransactionHeld, TransactionReported
<1>4. (AppletHeld /\ SelectHeld /\ ReadingUndisturbed /\ SettingSerialized)'
  BY <1>2 DEF AppletHeld, SelectHeld, ReadingUndisturbed, SettingSerialized
<1> QED BY <1>1, <1>3, <1>4

LEMMA CloseInv == ASSUME Inv, NEW d \in Devices, Close(d) PROVE Inv'
<1> USE DEF Inv, Close, DisconnectCard, callVars
<1>1. TypeOK'
  BY DEF TypeOK, Applets
<1>2. (StepsFit /\ LockHeld)'
  BY DEF TypeOK, StepsFit, LockHeld
<1>3. SettingSerialized'
  BY DEF SettingSerialized
<1>4. TransactionReported'
  BY ConstantsAssumption DEF TransactionReported, ConstantsAssumption
<1>5. ASSUME NEW c \in Calls, IsOpen(c)'
      PROVE  IsOpen(c) /\ DeviceOf[c] # d
  BY <1>5 DEF TypeOK, IsOpen
<1>6. TransactionHeld'
  BY <1>5 DEF TransactionHeld
<1>7. ASSUME NEW c \in Calls, IsOpen(c)', op[c] \in Transactional, pc[c] \in ReadSteps
      PROVE  UNCHANGED <<applet, last>>
  BY <1>5, <1>7, ConstantsAssumption DEF TransactionHeld, ConstantsAssumption
<1>8. (AppletHeld /\ ReadingUndisturbed /\ SelectHeld)'
  BY <1>5, <1>7, InTransaction DEF AppletHeld, ReadingUndisturbed, SelectHeld
<1> QED BY <1>1, <1>2, <1>3, <1>4, <1>6, <1>8

LEMMA InvokeInv == ASSUME Inv, NEW c \in Calls, NEW o \in Ops, Invoke(c, o) PROVE Inv'
<1> USE ConstantsAssumption DEF ConstantsAssumption, Inv, Invoke, GoTo, cardVars
<1>1. (StepsFit /\ LockHeld)'
  BY DEF TypeOK, StepsFit, Fits, LockHeld
<1>2. ~fetching[c]
  BY DEF TypeOK, CardSteps, SerialSteps, ConfigurationSteps
<1>3. TypeOK'
  <2>1. ASSUME NEW b \in Calls, fetching'[b]
        PROVE  b # c /\ pc'[b] \in CardSteps
    BY <1>2, <2>1 DEF TypeOK
  <2> QED BY <2>1 DEF TypeOK, Steps
<1>4. (AppletHeld /\ TransactionHeld)'
  BY DEF TypeOK, AppletHeld, TransactionHeld, IsOpen, AppletSteps, ReadSteps,
         SerialSteps, ConfigurationSteps
<1>5. (SelectHeld /\ ReadingUndisturbed)'
  BY <1>2 DEF TypeOK, SelectHeld, ReadingUndisturbed, IsOpen, SelectSteps, AppletSteps
<1>6. (SettingSerialized /\ TransactionReported)'
  BY <1>2 DEF TypeOK, SettingSerialized, TransactionReported
<1> QED BY <1>1, <1>3, <1>4, <1>5, <1>6

LEMMA LockInv == ASSUME Inv, NEW c \in Calls, Lock(c) PROVE Inv'
<1> USE ConstantsAssumption DEF ConstantsAssumption, Inv, Lock, GoTo, cardVars
<1>1. /\ Fits(op[c], AfterLock(op[c]))
      /\ AfterLock(op[c]) \in {"begin", "checkBeforeATR", "setting"}
  BY Running, FirstStep
<1>2. StepsFit' /\ LockHeld'
  <2>1. StepsFit'
    BY <1>1 DEF TypeOK, StepsFit
  <2>2. LockHeld'
    BY <1>1 DEF TypeOK, LockHeld
  <2> QED BY <2>1, <2>2
<1>3. ~fetching[c]
  BY DEF TypeOK, CardSteps, SerialSteps, ConfigurationSteps
<1>4. TypeOK'
  <2>1. ASSUME NEW b \in Calls, fetching'[b]
        PROVE  b # c /\ pc'[b] \in CardSteps
    BY <1>3, <2>1 DEF TypeOK
  <2> QED BY <1>1, <2>1 DEF TypeOK, Steps, CardSteps, CheckSteps
<1>5. (AppletHeld /\ TransactionHeld)'
  BY <1>1 DEF TypeOK, AppletHeld, TransactionHeld, IsOpen, AppletSteps, ReadSteps,
         SerialSteps, ConfigurationSteps
<1>6. (SelectHeld /\ ReadingUndisturbed)'
  BY <1>1, <1>3 DEF TypeOK, SelectHeld, ReadingUndisturbed, IsOpen, SelectSteps, AppletSteps
<1>7. (SettingSerialized /\ TransactionReported)'
  BY <1>1, <1>3 DEF TypeOK, SettingSerialized, TransactionReported
<1> QED BY <1>2, <1>4, <1>5, <1>6, <1>7

LEMMA BeginInv == ASSUME Inv, NEW c \in Calls, BeginTransaction(c) PROVE Inv'
<1> USE ConstantsAssumption DEF ConstantsAssumption, Inv, BeginTransaction, GoTo
<1>1. op[c] \in Transactional
  BY Running DEF Fits, Operations, Transactional, Settings, ConfigurationSteps,
     SerialSteps, ReadSteps
<1>2. /\ Fits(op[c], AfterBegin(op[c]))
      /\ AfterBegin(op[c]) \in {"selectOTP", "selectOTPForConfig"}
  BY <1>1, FirstSelect
<1>3. TypeOK'
  BY <1>2 DEF TypeOK, Steps, CardSteps, SerialSteps, ConfigurationSteps
<1>4. (StepsFit /\ LockHeld)'
  BY <1>2 DEF TypeOK, StepsFit, LockHeld
<1>5. ~fetching[c]
  BY DEF TypeOK, CardSteps, SerialSteps, ConfigurationSteps
<1>6. TransactionHeld'
  <2>1. ASSUME NEW b \in Calls, b # c, op[b] \in Transactional,
               pc[b] \in ReadSteps \cup {"end"}, IsOpen(b)
        PROVE  FALSE
    BY <2>1, TransactionExcludes
  <2> QED BY <2>1 DEF TransactionHeld, TypeOK, IsOpen
<1>7. (AppletHeld /\ SelectHeld)'
  BY <1>2, <1>5 DEF TypeOK, AppletHeld, SelectHeld, IsOpen, AppletSteps,
     CardSteps, SerialSteps, ConfigurationSteps
<1>8. (ReadingUndisturbed /\ SettingSerialized)'
  BY <1>2, <1>5 DEF TypeOK, ReadingUndisturbed, SettingSerialized, IsOpen, AppletSteps
<1>9. TransactionReported'
  <2>1. ASSUME NEW b \in Calls, b # c, pc[b] = "unlock"
        PROVE  DeviceOf[b] # DeviceOf[c]
    BY <2>1, MutexExcludes
  <2> QED BY <1>2, <2>1 DEF TransactionReported, TypeOK
<1> QED BY <1>3, <1>4, <1>6, <1>7, <1>8, <1>9

LEMMA CardAnswersInv ==
    ASSUME Inv, NEW c \in Calls, NEW sw \in StatusWords, CardAnswers(c, sw)
    PROVE  Inv'
<1> USE ConstantsAssumption DEF ConstantsAssumption, Inv, CardAnswers, GoTo
<1> DEFINE n == pc'[c]
<1>1. op[c] \in Operations /\ Fits(op[c], pc[c]) /\ pc[c] \in CardSteps
  BY Running DEF CardSteps, SerialSteps, ConfigurationSteps
<1>2. /\ Fits(op[c], n)
      /\ n \in CardSteps \cup {"checkAfterSerial", "end", "unlock"}
      /\ op[c] \in Transactional => n # "unlock"
      /\ sw = MoreData => n = pc[c]
      /\ sw # MoreData /\ n \in AppletSteps =>
            \/ pc[c] \in AppletSteps /\ NeededApplet(n) = NeededApplet(pc[c])
            \/ /\ pc[c] \in SelectSteps
               /\ sw = Success
               /\ NeededApplet(n) = Selects(pc[c])
  <2>1. CASE sw = MoreData
    <3>1. n = pc[c]
      BY <2>1 DEF TypeOK
    <3>2. op[c] \in Transactional => pc[c] # "unlock"
      BY <1>1 DEF CardSteps, SerialSteps, ConfigurationSteps
    <3> QED BY <1>1, <2>1, <3>1, <3>2
  <2>2. CASE sw # MoreData
    <3>1. n = AfterExchange(op[c], pc[c], sw) /\ sw \in FinalStatus
      BY <2>2 DEF TypeOK, StatusWords
    <3> HIDE DEF n
    <3> QED BY <1>1, <2>2, <3>1, NextCommand
  <2> QED BY <2>1, <2>2
<1> HIDE DEF n
<1>3. /\ pc' = [pc EXCEPT ![c] = n]
      /\ n \in Steps \ {"idle", "lock"}
  BY <1>2 DEF n, TypeOK, Steps, CardSteps, CheckSteps, SerialSteps, ConfigurationSteps
<1>4. TypeOK'
  <2>1. ASSUME NEW b \in Calls, fetching'[b]
        PROVE  pc'[b] \in CardSteps
    BY <1>1, <1>2, <1>3, <2>1 DEF TypeOK
  <2> QED BY <1>3, <2>1 DEF TypeOK, Applets, Selects
<1>5. (StepsFit /\ LockHeld)'
  BY <1>1, <1>2, <1>3 DEF TypeOK, StepsFit, LockHeld, CardSteps, SerialSteps, ConfigurationSteps
<1>6. ASSUME NEW b \in Calls, b # c, op[b] \in Transactional,
             pc[b] \in ReadSteps, IsOpen(b)
      PROVE  FALSE
  <2>1. pc[c] \notin {"idle", "lock"}
    BY <1>1 DEF CardSteps, SerialSteps, ConfigurationSteps
  <2> QED BY <1>6, <2>1, TransactionExcludes
<1>7. TransactionHeld'
  <2>1. ASSUME op[c] \in Transactional
        PROVE  pc[c] \in ReadSteps
    BY <1>1, <2>1 DEF Fits, Transactional, Settings, CardSteps, ReadSteps,
       SerialSteps, ConfigurationSteps
  <2> QED BY <1>3, <2>1 DEF TransactionHeld, TypeOK, IsOpen
<1>8. SelectHeld'
  <2>1. ASSUME NEW b \in Calls, fetching'[b]
        PROVE  pc'[b] \in CardSteps
    BY <1>1, <1>2, <1>3, <2>1 DEF SelectHeld, TypeOK
  <2>2. ASSUME NEW b \in Calls, b # c, fetching'[b], pc'[b] \in SelectSteps, IsOpen(b)'
        PROVE  FALSE
    BY <1>3, <1>6, <2>2, InTransaction DEF TypeOK, IsOpen
  <2>3. ASSUME fetching'[c], n \in SelectSteps, IsOpen(c)'
        PROVE  applet' = Selects(n)
    <3>1. sw = MoreData /\ n = pc[c]
      BY <1>2, <1>3, <2>3 DEF TypeOK
    <3>2. pc[c] \in SelectSteps /\ fetching'[c] /\ IsOpen(c)
      BY <2>3, <3>1 DEF IsOpen
    <3>3. applet' = IF fetching[c] THEN applet ELSE Selects(pc[c])
      BY <3>1, <3>2
    <3> QED BY <3>1, <3>2, <3>3 DEF SelectHeld
  <2> QED BY <1>3, <2>1, <2>2, <2>3 DEF SelectHeld, TypeOK
<1>9. AppletHeld'
  <2>1. ASSUME NEW b \in Calls, b # c, pc'[b] \in AppletSteps, IsOpen(b)'
        PROVE  FALSE
    BY <1>3, <1>6, <2>1, InTransaction DEF TypeOK, IsOpen
  <2>2. ASSUME n \in AppletSteps, IsOpen(c)'
        PROVE  applet' = NeededApplet(n)
    <3>1. CASE pc[c] \in AppletSteps
      <4>1. pc[c] \notin SelectSteps /\ IsOpen(c)
        BY <2>2, <3>1 DEF AppletSteps, SelectSteps, IsOpen
      <4> QED BY <1>2, <2>2, <3>1, <4>1 DEF AppletHeld
    <3>2. CASE pc[c] \notin AppletSteps
      <4>1. sw # MoreData
        BY <1>2, <2>2, <3>2
      <4>2. pc[c] \in SelectSteps /\ sw = Success /\ NeededApplet(n) = Selects(pc[c])
        BY <1>2, <2>2, <3>2, <4>1
      <4> QED BY <2>2, <4>2 DEF SelectHeld, IsOpen
    <3> QED BY <3>1, <3>2
  <2> QED BY <1>3, <2>1, <2>2 DEF AppletHeld, TypeOK
<1>10. ReadingUndisturbed'
  <2>1. ASSUME NEW b \in Calls, b # c, op[b] \in Transactional,
               pc'[b] \in AppletSteps \/ fetching'[b], IsOpen(b)'
        PROVE  FALSE
    BY <1>3, <1>6, <2>1, InTransaction DEF TypeOK, IsOpen
  <2> QED BY <2>1 DEF ReadingUndisturbed
<1>11. SettingSerialized'
  <2>1. ASSUME NEW b \in Calls, b # c, fetching[b]
        PROVE  DeviceOf[b] # DeviceOf[c]
    <3>1. /\ pc[b] \notin {"idle", "lock"}
          /\ pc[c] \notin {"idle", "lock"}
      BY <1>1, <2>1 DEF TypeOK, CardSteps, SerialSteps, ConfigurationSteps
    <3> QED BY <2>1, <3>1, MutexExcludes
  <2> QED BY <2>1 DEF SettingSerialized, TypeOK
<1>12. TransactionReported'
  BY <1>2, <1>3 DEF TransactionReported, TypeOK
<1> QED BY <1>4, <1>5, <1>7, <1>8, <1>9, <1>10, <1>11, <1>12

LEMMA CallFailsInv == ASSUME Inv, NEW c \in Calls, CallFails(c) PROVE Inv'
<1> USE ConstantsAssumption DEF ConstantsAssumption, Inv, CallFails, GoTo
<1> DEFINE n == pc'[c]
<1>1. op[c] \in Operations /\ Fits(op[c], pc[c]) /\ pc[c] \notin {"idle", "lock"}
  BY Running DEF CardSteps, SerialSteps, ConfigurationSteps
<1>2. /\ Fits(op[c], n)
      /\ n \in {"checkAfterSerial", "checkAfterATR", "end", "unlock"}
      /\ op[c] \in Transactional /\ n = "unlock" => pc[c] = "begin"
      /\ n # "unlock" => pc[c] \in CardSteps
  <2>1. CASE pc[c] = "begin"
    BY <1>1, <2>1 DEF Fits, TypeOK
  <2>2. CASE pc[c] # "begin"
    <3>1. n = AfterReading(op[c], pc[c]) /\ pc[c] \in CardSteps
      BY <2>2 DEF TypeOK
    <3> HIDE DEF n
    <3> QED BY <1>1, <3>1, ReadingOver
  <2> QED BY <2>1, <2>2
<1>3. pc' = [pc EXCEPT ![c] = n] /\ n \in Steps
  BY <1>2 DEF TypeOK, Steps, CheckSteps
<1> HIDE DEF n
<1>4. TypeOK'
  BY <1>3 DEF TypeOK, Applets, Selects
<1>5. (StepsFit /\ LockHeld)'
  BY <1>1, <1>2, <1>3 DEF TypeOK, StepsFit, LockHeld
<1>6. ASSUME NEW b \in Calls, b # c, op[b] \in Transactional,
             pc[b] \in ReadSteps, IsOpen(b)
      PROVE  UNCHANGED <<applet, last>>
  BY <1>1, <1>6, TransactionExcludes
<1>7. TransactionHeld'
  <2>1. ASSUME op[c] \in Transactional, n # "unlock"
        PROVE  pc[c] \in ReadSteps
    BY <1>1, <1>2, <2>1 DEF Fits, Transactional, Settings, CardSteps, ReadSteps,
       SerialSteps, ConfigurationSteps
  <2> QED BY <1>2, <1>3, <2>1 DEF TransactionHeld, TypeOK, IsOpen, ReadSteps,
             SerialSteps, ConfigurationSteps
<1>8. n \notin AppletSteps \cup SelectSteps /\ ~fetching'[c]
  BY <1>2 DEF AppletSteps, SelectSteps, TypeOK
<1>9. (SelectHeld /\ AppletHeld)'
  BY <1>3, <1>6, <1>8, InTransaction DEF SelectHeld, AppletHeld, TypeOK, IsOpen
<1>10. ReadingUndisturbed'
  BY <1>3, <1>6, <1>8, InTransaction DEF ReadingUndisturbed, TypeOK, IsOpen
<1>11. SettingSerialized'
  <2>1. ASSUME NEW b \in Calls, b # c, fetching[b]
        PROVE  DeviceOf[b] # DeviceOf[c]
    <3>1. pc[b] \notin {"idle", "lock"}
      BY <2>1 DEF TypeOK, CardSteps, SerialSteps, ConfigurationSteps
    <3> QED BY <1>1, <2>1, <3>1, MutexExcludes
  <2> QED BY <1>8, <2>1 DEF SettingSerialized, TypeOK
<1>12. TransactionReported'
  BY <1>2, <1>3 DEF TransactionReported, TypeOK
<1> QED BY <1>4, <1>5, <1>7, <1>9, <1>10, <1>11, <1>12

\* ReadStatus and CheckContext: steps in which only pc changes, to a step that
\* needs no applet.
LEMMA QuietStepInv ==
    ASSUME Inv, NEW c \in Calls, NEW n \in Steps,
           pc[c] \in CheckSteps \cup {"status"},
           n \in CheckSteps \cup {"status", "selectOTPForConfig", "end", "unlock"},
           Fits(op[c], n),
           op[c] \in Transactional => n # "unlock",
           pc' = [pc EXCEPT ![c] = n],
           UNCHANGED <<handle, mu, op, canceled, txErr, fetching, cardVars>>
    PROVE  Inv'
<1> USE DEF Inv, cardVars
<1>1. ~fetching[c]
  BY DEF TypeOK, CheckSteps, CardSteps, SerialSteps, ConfigurationSteps
<1>2. op[c] \in Transactional => pc[c] \in ReadSteps
  BY DEF StepsFit, Fits, CheckSteps, Transactional, Settings, ReadSteps
<1>3. TypeOK'
  <2>1. ASSUME NEW b \in Calls, fetching'[b]
        PROVE  b # c /\ pc'[b] \in CardSteps
    BY <1>1, <2>1 DEF TypeOK
  <2> QED BY <2>1 DEF TypeOK
<1>4. (StepsFit /\ LockHeld)'
  BY DEF TypeOK, StepsFit, LockHeld, CheckSteps
<1>5. (TransactionHeld /\ TransactionReported)'
  BY <1>2 DEF TypeOK, TransactionHeld, TransactionReported, IsOpen
<1>6. n \notin AppletSteps
  BY DEF AppletSteps, CheckSteps
<1>7. (SelectHeld /\ AppletHeld)'
  BY <1>1, <1>6 DEF TypeOK, SelectHeld, AppletHeld, IsOpen
<1>8. (ReadingUndisturbed /\ SettingSerialized)'
  BY <1>1, <1>6 DEF TypeOK, ReadingUndisturbed, SettingSerialized, IsOpen
<1> QED BY <1>3, <1>4, <1>5, <1>7, <1>8

LEMMA ReadStatusInv == ASSUME Inv, NEW c \in Calls, ReadStatus(c) PROVE Inv'
<1>1. op[c] \in Operations /\ Fits(op[c], "status") /\ pc[c] = "status"
  BY Running DEF ReadStatus
<1> DEFINE n == AfterReading(op[c], "status")
<1>2. /\ Fits(op[c], n)
      /\ n \in {"checkAfterSerial", "checkAfterATR", "end", "unlock"}
      /\ op[c] \in Transactional => n # "unlock"
  BY <1>1, ReadingOver
<1>3. n \in Steps /\ n \in CheckSteps \cup {"status", "selectOTPForConfig", "end", "unlock"}
  BY <1>2 DEF Steps, CheckSteps
<1> HIDE DEF n
<1>4. /\ pc' = [pc EXCEPT ![c] = n]
      /\ UNCHANGED <<handle, mu, op, canceled, txErr, fetching, cardVars>>
  BY DEF n, ReadStatus, GoTo
<1> QED BY <1>1, <1>2, <1>3, <1>4, QuietStepInv

LEMMA CheckContextInv == ASSUME Inv, NEW c \in Calls, CheckContext(c) PROVE Inv'
<1> DEFINE n == AfterCheck(op[c], pc[c], canceled[c])
<1>1. op[c] \in Operations /\ Fits(op[c], pc[c]) /\ pc[c] \in CheckSteps
  BY Running DEF CheckContext, CheckSteps
<1>2. op[c] = "ATR" \/ op[c] = "DeviceInfo"
  BY <1>1 DEF Fits, CheckSteps, SerialSteps, ConfigurationSteps
<1>3. op[c] = "ATR" <=> pc[c] = "checkBeforeATR"
  BY <1>1, <1>2 DEF Fits, CheckSteps, Transactional, SerialSteps, ConfigurationSteps, ReadSteps, Settings
<1>4. /\ Fits(op[c], n)
      /\ n \in {"status", "selectOTPForConfig", "end", "unlock"}
      /\ op[c] \in Transactional => n # "unlock"
  BY <1>1, <1>2, <1>3 DEF Fits, AfterCheck, CheckSteps, Transactional, Operations,
     ConfigurationSteps, ReadSteps
<1>5. n \in Steps
  BY <1>4 DEF Steps, CardSteps, ConfigurationSteps
<1> HIDE DEF n
<1>6. /\ pc' = [pc EXCEPT ![c] = n]
      /\ UNCHANGED <<handle, mu, op, canceled, txErr, fetching, cardVars>>
  BY DEF n, CheckContext, GoTo
<1> QED BY <1>1, <1>4, <1>5, <1>6, QuietStepInv

LEMMA EndInv == ASSUME Inv, NEW c \in Calls, EndTransaction(c) PROVE Inv'
<1> USE ConstantsAssumption DEF ConstantsAssumption, Inv, EndTransaction, GoTo
<1>1. op[c] \in Transactional /\ pc[c] \notin {"idle", "lock"}
  BY Running DEF Fits, Operations, Transactional, Settings, ConfigurationSteps,
     SerialSteps, ReadSteps
<1>2. ~fetching[c]
  BY DEF TypeOK, CardSteps, SerialSteps, ConfigurationSteps
<1>3. TypeOK'
  <2>1. ASSUME NEW b \in Calls, fetching'[b]
        PROVE  b # c /\ pc'[b] \in CardSteps
    BY <1>2, <2>1 DEF TypeOK
  <2> QED BY <2>1 DEF TypeOK, Steps
<1>4. (StepsFit /\ LockHeld)'
  BY <1>1 DEF TypeOK, StepsFit, Fits, LockHeld, Operations
<1>5. TransactionHeld'
  <2>1. ASSUME IsOpen(c)
        PROVE  Reachable(c)
    BY <1>1, <2>1 DEF TransactionHeld, Reachable
  <2>2. ASSUME NEW b \in Calls, b # c, op[b] \in Transactional,
               pc[b] \in ReadSteps \cup {"end"}, IsOpen(b), IsOpen(c)
        PROVE  FALSE
    BY <1>1, <2>1, <2>2, TransactionExcludes
  <2>3. ~IsOpen(c) => UNCHANGED tx
    OBVIOUS
  <2> QED BY <2>2, <2>3 DEF TransactionHeld, TypeOK, IsOpen, ReadSteps,
             SerialSteps, ConfigurationSteps
<1>6. (AppletHeld /\ SelectHeld)'
  BY <1>2 DEF TypeOK, AppletHeld, SelectHeld, IsOpen, AppletSteps
<1>7. (ReadingUndisturbed /\ SettingSerialized)'
  BY <1>2 DEF TypeOK, ReadingUndisturbed, SettingSerialized, IsOpen, AppletSteps
<1>8. TransactionReported'
  <2>1. tx' \in {tx, NoDevice} /\ (tx' = NoDevice \/ txErr'[c])
    BY DEF TypeOK
  <2>2. ASSUME NEW b \in Calls, b # c
        PROVE  pc'[b] = pc[b] /\ op'[b] = op[b] /\ txErr'[b] = txErr[b]
    BY <2>2 DEF TypeOK
  <2>3. \A b \in Calls : NoDevice # DeviceOf[b]
    OBVIOUS
  <2> QED BY <2>1, <2>2, <2>3 DEF TransactionReported
<1> QED BY <1>3, <1>4, <1>5, <1>6, <1>7, <1>8

LEMMA UnlockInv == ASSUME Inv, NEW c \in Calls, Unlock(c) PROVE Inv'
<1> USE ConstantsAssumption DEF ConstantsAssumption, Inv, Unlock, GoTo, cardVars
<1>1. ~fetching[c]
  BY DEF TypeOK, CardSteps, SerialSteps, ConfigurationSteps
<1>2. TypeOK'
  <2>1. ASSUME NEW b \in Calls, fetching'[b]
        PROVE  b # c /\ pc'[b] \in CardSteps
    BY <1>1, <2>1 DEF TypeOK
  <2> QED BY <2>1 DEF TypeOK, Steps
<1>3. StepsFit'
  BY DEF TypeOK, StepsFit, Fits
<1>4. LockHeld'
  <2>1. ASSUME NEW b \in Calls, b # c, pc[b] \notin {"idle", "lock"}
        PROVE  DeviceOf[b] # DeviceOf[c]
    BY <2>1, MutexExcludes
  <2> QED BY <2>1 DEF LockHeld, TypeOK
<1>5. (TransactionHeld /\ TransactionReported)'
  BY DEF TypeOK, TransactionHeld, TransactionReported, IsOpen, Transactional
<1>6. (AppletHeld /\ SelectHeld)'
  BY <1>1 DEF TypeOK, AppletHeld, SelectHeld, IsOpen, AppletSteps
<1>7. (ReadingUndisturbed /\ SettingSerialized)'
  BY <1>1 DEF TypeOK, ReadingUndisturbed, SettingSerialized, IsOpen, AppletSteps
<1> QED BY <1>2, <1>3, <1>4, <1>5, <1>6, <1>7

LEMMA CancelInv == ASSUME Inv, NEW c \in Calls, Cancel(c) PROVE Inv'
<1> USE DEF Inv, Cancel, cardVars
<1>1. TypeOK'
  BY DEF TypeOK
<1>2. (StepsFit /\ LockHeld /\ TransactionHeld /\ TransactionReported)'
  BY DEF StepsFit, LockHeld, TransactionHeld, TransactionReported, IsOpen
<1>3. (AppletHeld /\ SelectHeld /\ ReadingUndisturbed /\ SettingSerialized)'
  BY DEF AppletHeld, SelectHeld, ReadingUndisturbed, SettingSerialized, IsOpen
<1> QED BY <1>1, <1>2, <1>3

LEMMA OtherApplicationInv == ASSUME Inv, OtherApplication PROVE Inv'
<1> USE ConstantsAssumption DEF ConstantsAssumption, Inv, OtherApplication, callVars
<1>1. TypeOK'
  BY DEF TypeOK
<1>2. (StepsFit /\ LockHeld /\ TransactionHeld /\ TransactionReported)'
  BY DEF StepsFit, LockHeld, TransactionHeld, TransactionReported, IsOpen
<1>3. ASSUME NEW b \in Calls, op[b] \in Transactional, pc[b] \in ReadSteps, IsOpen(b)
      PROVE  FALSE
  BY <1>3 DEF TransactionHeld
<1>4. (AppletHeld /\ SelectHeld)'
  BY <1>3, InTransaction DEF AppletHeld, SelectHeld, IsOpen
<1>5. (ReadingUndisturbed /\ SettingSerialized)'
  BY <1>3, InTransaction DEF ReadingUndisturbed, SettingSerialized, IsOpen
<1> QED BY <1>1, <1>2, <1>4, <1>5

LEMMA StutterInv == ASSUME Inv, UNCHANGED vars PROVE Inv'
<1> USE DEF Inv, vars, callVars, cardVars
<1>1. (TypeOK /\ StepsFit /\ LockHeld /\ TransactionHeld /\ TransactionReported)'
  BY DEF TypeOK, StepsFit, LockHeld, TransactionHeld, TransactionReported, IsOpen
<1>2. (AppletHeld /\ SelectHeld /\ ReadingUndisturbed /\ SettingSerialized)'
  BY DEF AppletHeld, SelectHeld, ReadingUndisturbed, SettingSerialized, IsOpen
<1> QED BY <1>1, <1>2

LEMMA NextInv == Inv /\ [Next]_vars => Inv'
<1> SUFFICES ASSUME Inv, [Next]_vars PROVE Inv'
  OBVIOUS
<1>1. CASE \E d \in Devices : Open(d) \/ RequestClose(d) \/ Close(d)
  BY <1>1, OpenInv, RequestCloseInv, CloseInv
<1>2. CASE \E c \in Calls : CallStep(c)
  BY <1>2, InvokeInv, LockInv, BeginInv, CardAnswersInv, CallFailsInv, ReadStatusInv,
     CheckContextInv, EndInv, UnlockInv, CancelInv DEF CallStep, LocalStep
<1>3. CASE OtherApplication
  BY <1>3, OtherApplicationInv
<1>4. CASE UNCHANGED vars
  BY <1>4, StutterInv
<1> QED BY <1>1, <1>2, <1>3, <1>4 DEF Next

-----------------------------------------------------------------------------
\* The theorems: what TLC checks for three goroutines on two handles holds for
\* any number of both.

\* The conjunction of all invariants, which is inductive.
THEOREM Invariance == Spec => []Inv
<1> QED BY InitInv, NextInv, PTL DEF Spec

\* Every variable keeps its type: device.go never leaves the steps of a method.
THEOREM TypeCorrect == Spec => []TypeOK
<1>1. Inv => TypeOK
  BY DEF Inv
<1> QED BY <1>1, Invariance, PTL

\* A command of Configuration, SerialNumber or DeviceInfo always finds the applet
\* it is meant for: mutex, transaction and the repeated SELECT suffice together.
THEOREM AppletAlwaysHeld == Spec => []AppletHeld
<1>1. Inv => AppletHeld
  BY DEF Inv
<1> QED BY <1>1, Invariance, PTL

\* No other command reaches the card between the SELECT of a reading and its
\* last response.
THEOREM ReadingAlwaysUndisturbed == Spec => []ReadingUndisturbed
<1>1. Inv => ReadingUndisturbed
  BY DEF Inv
<1> QED BY <1>1, Invariance, PTL

\* A reader setting needs no transaction: no call of the same Device gets between
\* its command and its GET RESPONSE.
THEOREM SettingAlwaysSerialized == Spec => []SettingSerialized
<1>1. Inv => SettingSerialized
  BY DEF Inv
<1> QED BY <1>1, Invariance, PTL

\* A transaction that could not be ended, or begun, shows in the returned error.
THEOREM TransactionAlwaysReported == Spec => []TransactionReported
<1>1. Inv => TransactionReported
  BY DEF Inv
<1> QED BY <1>1, Invariance, PTL

-----------------------------------------------------------------------------
\* PcscDevice implements CardSessions. The call between Begin and End owns the
\* session: the invariant says that there is one such call at most and that only
\* its commands reach the card.

\* The owner's handle holds the transaction.
LEMMA OwnsTransaction ==
    ASSUME Inv, NEW c \in Calls, Owns(c)
    PROVE  tx = DeviceOf[c]
BY DEF Inv, TransactionHeld, Owns

\* At most one call owns the card.
LEMMA OwnsExcludes ==
    ASSUME Inv, NEW b \in Calls, NEW c \in Calls, Owns(b), Owns(c)
    PROVE  b = c
<1>1. Reachable(c)
  BY OwnsTransaction DEF Owns, Reachable
<1>2. pc[c] \notin {"idle", "lock"}
  BY DEF Owns, ReadSteps, SerialSteps, ConfigurationSteps
<1> QED BY <1>1, <1>2, TransactionExcludes DEF Owns

LEMMA OwnerUnique ==
    Inv => /\ \A c \in Calls : Owns(c) => Owner = c
           /\ (\A c \in Calls : ~Owns(c)) => Owner = NoCall
<1> SUFFICES ASSUME Inv
             PROVE  /\ \A c \in Calls : Owns(c) => Owner = c
                    /\ (\A c \in Calls : ~Owns(c)) => Owner = NoCall
  OBVIOUS
<1>1. ASSUME NEW c \in Calls, Owns(c)
      PROVE  Owner = c
  <2>1. \E b \in Calls : Owns(b)
    BY <1>1
  <2>2. Owner \in Calls /\ Owns(Owner)
    BY <2>1 DEF Owner
  <2> QED BY <1>1, <2>2, OwnsExcludes
<1>2. (\A c \in Calls : ~Owns(c)) => Owner = NoCall
  BY DEF Owner
<1> QED BY <1>1, <1>2

LEMMA OwnerUniqueNext ==
    Inv' => (/\ \A c \in Calls : Owns(c) => Owner = c
             /\ (\A c \in Calls : ~Owns(c)) => Owner = NoCall)'
BY OwnerUnique, PTL

\* The session is unchanged when no call gains or loses the card.
LEMMA SameOwner ==
    ASSUME Inv, Inv', \A b \in Calls : Owns(b)' <=> Owns(b)
    PROVE  Owner' = Owner
<1>1. CASE \E c \in Calls : Owns(c)
  <2>1. PICK c \in Calls : Owns(c)
    BY <1>1
  <2> QED BY <2>1, OwnerUnique, OwnerUniqueNext
<1>2. CASE \A c \in Calls : ~Owns(c)
  BY <1>2, OwnerUnique, OwnerUniqueNext
<1> QED BY <1>1, <1>2

-----------------------------------------------------------------------------
\* How each step of a Device looks to the card's sessions.

\* The abstract step [Next]_vars of CardSessions.
Abstract == Sessions!Next \/ (UNCHANGED <<Owner, last, applet>>)

LEMMA RequestCloseRefines ==
    ASSUME Inv, Inv', NEW d \in Devices, RequestClose(d)
    PROVE  Abstract
<1>1. \A b \in Calls : Owns(b)' <=> Owns(b)
  BY DEF RequestClose, callVars, Owns, IsOpen, Inv, TypeOK
<1> QED BY <1>1, SameOwner DEF Abstract, RequestClose, cardVars

LEMMA CloseRefines ==
    ASSUME Inv, Inv', NEW d \in Devices, Close(d)
    PROVE  Abstract
<1> USE ConstantsAssumption DEF ConstantsAssumption
<1> DEFINE Reset == applet' = "none" /\ last' = NoCall
<1>1. UNCHANGED <<applet, last>> \/ (Reset /\ tx \in {NoDevice, d})
  BY DEF Close, DisconnectCard
<1>2. ASSUME NEW b \in Calls
      PROVE  Owns(b)' <=> Owns(b) /\ DeviceOf[b] # d
  BY DEF Close, DisconnectCard, callVars, Owns, IsOpen, Inv, TypeOK
<1>3. CASE \E c \in Calls : Owns(c) /\ DeviceOf[c] = d
  <2>1. PICK c \in Calls : Owns(c) /\ DeviceOf[c] = d
    BY <1>3
  <2>2. \A b \in Calls : ~Owns(b)'
    BY <1>2, <2>1, OwnsExcludes
  <2>3. Owner = c /\ Owner' = NoCall
    BY <2>1, <2>2, OwnerUnique, OwnerUniqueNext
  <2>4. Sessions!Release(c)
    BY <1>1, <2>3 DEF Sessions!Release
  <2> QED BY <2>4 DEF Abstract, Sessions!Next
<1>4. CASE \A c \in Calls : ~(Owns(c) /\ DeviceOf[c] = d)
  <2>1. Owner' = Owner
    BY <1>2, <1>4, SameOwner
  <2>2. CASE UNCHANGED <<applet, last>>
    BY <2>1, <2>2 DEF Abstract
  <2>3. CASE Reset /\ tx \in {NoDevice, d}
    <3>1. \A c \in Calls : ~Owns(c)
      BY <1>4, <2>3, OwnsTransaction
    <3>2. Owner = NoCall
      BY <3>1, OwnerUnique
    <3> QED BY <2>1, <2>3, <3>2 DEF Abstract, Sessions!Next, Sessions!Outside, Applets
  <2> QED BY <1>1, <2>2, <2>3
<1> QED BY <1>3, <1>4

LEMMA BeginRefines ==
    ASSUME Inv, Inv', NEW c \in Calls, BeginTransaction(c)
    PROVE  Abstract
<1>1. op[c] \in Transactional /\ AfterBegin(op[c]) \in {"selectOTP", "selectOTPForConfig"}
  <2>1. op[c] \in Transactional
    BY Running DEF BeginTransaction, Fits, Operations, Transactional, Settings,
       ConfigurationSteps, SerialSteps, ReadSteps
  <2> QED BY <2>1, FirstSelect
<1>2. \A b \in Calls : ~Owns(b)
  <2>1. ASSUME NEW b \in Calls, Owns(b)
        PROVE  b = c
    BY <2>1, TransactionExcludes DEF BeginTransaction, Owns
  <2>2. ~Owns(c)
    BY DEF BeginTransaction, Owns, ReadSteps, SerialSteps, ConfigurationSteps
  <2> QED BY <2>1, <2>2
<1>3. Owns(c)'
  BY <1>1 DEF BeginTransaction, GoTo, Owns, IsOpen, Reachable, Inv, TypeOK,
     ReadSteps, SerialSteps, ConfigurationSteps
<1>4. Owner = NoCall /\ Owner' = c
  BY <1>2, <1>3, OwnerUnique, OwnerUniqueNext
<1>5. Sessions!Acquire(c)
  BY <1>4 DEF Sessions!Acquire, BeginTransaction
<1> QED BY <1>5 DEF Abstract, Sessions!Next

\* A command: an exchange of the owner's session, or outside all sessions.
LEMMA CommandRefines ==
    ASSUME Inv, Inv', NEW c \in Calls, Fits(op[c], pc[c]),
           pc[c] \in CardSteps, Reachable(c),
           op[c] \in Transactional => pc'[c] \in ReadSteps \cup {"end"},
           \A b \in Calls : b # c => pc'[b] = pc[b],
           UNCHANGED <<handle, op, tx>>,
           last' = c, applet' \in Applets
    PROVE  Abstract
<1>1. CASE op[c] \in Transactional
  <2>1. pc[c] \in ReadSteps
    BY <1>1 DEF Fits, Transactional, Settings, CardSteps, ReadSteps, SerialSteps,
       ConfigurationSteps
  <2>2. Owns(c) /\ Owns(c)'
    BY <1>1, <2>1 DEF Owns, Inv, TransactionHeld, Reachable, IsOpen
  <2>3. Owner = c /\ Owner' = c
    BY <2>2, OwnerUnique, OwnerUniqueNext
  <2>4. Sessions!Exchange(c)
    BY <2>3 DEF Sessions!Exchange
  <2> QED BY <2>4 DEF Abstract, Sessions!Next
<1>2. CASE op[c] \notin Transactional
  <2>1. \A b \in Calls : ~Owns(b)
    <3>1. pc[c] \notin {"idle", "lock"}
      BY DEF CardSteps, SerialSteps, ConfigurationSteps
    <3> QED BY <1>2, <3>1, TransactionExcludes DEF Owns
  <2>2. \A b \in Calls : ~Owns(b)'
    BY <1>2, <2>1 DEF Owns, IsOpen
  <2>3. Owner = NoCall /\ Owner' = NoCall
    BY <2>1, <2>2, OwnerUnique, OwnerUniqueNext
  <2> QED BY <2>3 DEF Abstract, Sessions!Next, Sessions!Outside
<1> QED BY <1>1, <1>2

\* A transactional call stays between Begin and End when a command is over.
LEMMA StaysInTransaction ==
    ASSUME NEW o \in Transactional, NEW n, Fits(o, n),
           n \in CardSteps \cup {"checkAfterSerial", "checkAfterATR", "end"}
    PROVE  n \in ReadSteps \cup {"end"}
BY DEF Fits, Transactional, Settings, CardSteps, ReadSteps, SerialSteps, ConfigurationSteps

LEMMA AnswerRefines ==
    ASSUME Inv, Inv', NEW c \in Calls, NEW sw \in StatusWords, CardAnswers(c, sw)
    PROVE  Abstract
<1>1. op[c] \in Operations /\ Fits(op[c], pc[c]) /\ pc[c] \in CardSteps
  BY Running DEF CardAnswers, CardSteps, SerialSteps, ConfigurationSteps
<1>2. ASSUME op[c] \in Transactional
      PROVE  pc'[c] \in ReadSteps \cup {"end"}
  <2> DEFINE n == pc'[c]
  <2>1. CASE sw = MoreData
    <3>1. n = pc[c]
      BY <2>1 DEF CardAnswers, GoTo, Inv, TypeOK
    <3> HIDE DEF n
    <3>2. n \in ReadSteps \cup {"end"}
      BY <1>1, <1>2, <3>1, StaysInTransaction
    <3> QED BY <3>2 DEF n
  <2>2. CASE sw # MoreData
    <3>1. n = AfterExchange(op[c], pc[c], sw) /\ sw \in FinalStatus
      BY <2>2 DEF CardAnswers, GoTo, Inv, TypeOK, StatusWords
    <3> HIDE DEF n
    <3>2. /\ Fits(op[c], n)
          /\ n \in CardSteps \cup {"checkAfterSerial", "end", "unlock"}
          /\ n # "unlock"
      BY <1>1, <1>2, <3>1, NextCommand
    <3>3. n \in ReadSteps \cup {"end"}
      BY <1>2, <3>2, StaysInTransaction
    <3> QED BY <3>3 DEF n
  <2> QED BY <2>1, <2>2
<1>3. /\ \A b \in Calls : b # c => pc'[b] = pc[b]
      /\ applet' \in Applets
      /\ Reachable(c) /\ last' = c
      /\ UNCHANGED <<handle, op, tx>>
  BY DEF CardAnswers, GoTo, Inv, TypeOK
<1> QED BY <1>1, <1>2, <1>3, CommandRefines

LEMMA FailureRefines ==
    ASSUME Inv, Inv', NEW c \in Calls, CallFails(c)
    PROVE  Abstract
<1>1. op[c] \in Operations /\ Fits(op[c], pc[c])
  BY Running DEF CallFails, CardSteps, SerialSteps, ConfigurationSteps
<1>2. ASSUME op[c] \in Transactional, pc[c] \in CardSteps
      PROVE  pc'[c] \in ReadSteps \cup {"end"}
  <2> DEFINE n == pc'[c]
  <2>1. n = AfterReading(op[c], pc[c])
    BY <1>2 DEF CallFails, GoTo, Inv, TypeOK, CardSteps, SerialSteps, ConfigurationSteps
  <2> HIDE DEF n
  <2>2. n \in ReadSteps \cup {"end"}
    BY <1>1, <1>2, <2>1, ReadingOver, StaysInTransaction
  <2> QED BY <2>2 DEF n
<1>3. /\ \A b \in Calls : b # c => pc'[b] = pc[b]
      /\ applet' \in Applets
      /\ UNCHANGED <<handle, op, tx>>
  BY DEF CallFails, GoTo, Inv, TypeOK
<1>4. CASE pc[c] \in CardSteps /\ Reachable(c) /\ last' = c
  BY <1>1, <1>2, <1>3, <1>4, CommandRefines
<1>5. CASE UNCHANGED <<applet, last>>
  <2>1. ASSUME pc[c] = "begin"
        PROVE  pc'[c] = "unlock"
    BY <2>1 DEF CallFails, GoTo, Inv, TypeOK
  <2>2. Owns(c)' <=> Owns(c)
    <3>1. CASE pc[c] = "begin"
      BY <2>1, <3>1 DEF Owns, ReadSteps, SerialSteps, ConfigurationSteps
    <3>2. CASE pc[c] \in CardSteps /\ op[c] \in Transactional
      <4>1. pc[c] \in ReadSteps \cup {"end"}
        BY <1>1, <3>2, StaysInTransaction
      <4> QED BY <1>2, <1>3, <3>2, <4>1 DEF Owns, IsOpen
    <3>3. CASE op[c] \notin Transactional
      BY <1>3, <3>3 DEF Owns
    <3> QED BY <3>1, <3>2, <3>3 DEF CallFails
  <2>3. \A b \in Calls : Owns(b)' <=> Owns(b)
    BY <1>3, <2>2 DEF Owns, IsOpen
  <2> QED BY <1>5, <2>3, SameOwner DEF Abstract
<1> QED BY <1>4, <1>5 DEF CallFails

LEMMA EndRefines ==
    ASSUME Inv, Inv', NEW c \in Calls, EndTransaction(c)
    PROVE  Abstract
<1> USE ConstantsAssumption DEF ConstantsAssumption
<1>1. op[c] \in Transactional
  BY Running DEF EndTransaction, Fits, Operations, Transactional, Settings,
     ConfigurationSteps, SerialSteps, ReadSteps
<1>2. ASSUME NEW b \in Calls, Owns(b)'
      PROVE  b # c /\ Owns(b)
  <2>1. UNCHANGED <<handle, op>>
    BY DEF EndTransaction
  <2>2. pc'[c] = "unlock" /\ \A a \in Calls : a # c => pc'[a] = pc[a]
    BY DEF EndTransaction, GoTo, Inv, TypeOK
  <2>3. b # c
    BY <1>2, <2>2 DEF Owns, ReadSteps, SerialSteps, ConfigurationSteps
  <2> QED BY <1>2, <2>1, <2>2, <2>3 DEF Owns, IsOpen
<1>3. CASE IsOpen(c)
  <2>1. Owns(c)
    BY <1>1, <1>3 DEF Owns, EndTransaction, Inv, TransactionHeld
  <2>2. \A b \in Calls : ~Owns(b)'
    BY <1>2, <2>1, OwnsExcludes
  <2>3. Owner = c /\ Owner' = NoCall
    BY <2>1, <2>2, OwnerUnique, OwnerUniqueNext
  <2>4. Sessions!Release(c)
    BY <2>3 DEF Sessions!Release, EndTransaction
  <2> QED BY <2>4 DEF Abstract, Sessions!Next
<1>4. CASE ~IsOpen(c)
  <2>1. \A b \in Calls : Owns(b)' <=> Owns(b)
    BY <1>2, <1>4 DEF EndTransaction, GoTo, Owns, IsOpen, Inv, TypeOK
  <2> QED BY <2>1, SameOwner DEF Abstract, EndTransaction
<1> QED BY <1>3, <1>4

LEMMA OtherRefines ==
    ASSUME Inv, Inv', OtherApplication
    PROVE  Abstract
<1>1. \A b \in Calls : ~Owns(b)
  BY OwnsTransaction, ConstantsAssumption DEF ConstantsAssumption, OtherApplication
<1>2. \A b \in Calls : ~Owns(b)'
  BY <1>1 DEF OtherApplication, callVars, Owns, IsOpen
<1>3. Owner = NoCall /\ Owner' = NoCall
  BY <1>1, <1>2, OwnerUnique, OwnerUniqueNext
<1> QED BY <1>3 DEF OtherApplication, Abstract, Sessions!Next, Sessions!Outside

\* Steps that neither use the card nor begin or end a transaction.
LEMMA LocalRefines ==
    ASSUME Inv, Inv', NEW c \in Calls,
           \/ \E o \in Ops : Invoke(c, o)
           \/ Lock(c)
           \/ ReadStatus(c)
           \/ CheckContext(c)
           \/ Unlock(c)
           \/ Cancel(c)
    PROVE  Abstract
<1>1. UNCHANGED <<handle, cardVars>> /\ \A b \in Calls : b # c => pc'[b] = pc[b] /\ op'[b] = op[b]
  BY DEF Inv, TypeOK, GoTo, Invoke, Lock, ReadStatus, CheckContext, Unlock, Cancel
<1>2. Owns(c)' <=> Owns(c)
  <2>1. CASE \E o \in Ops : Invoke(c, o)
    BY <2>1 DEF Invoke, GoTo, Owns, Inv, TypeOK, ReadSteps, SerialSteps, ConfigurationSteps
  <2>2. CASE Lock(c)
    <3>1. AfterLock(op[c]) \in {"begin", "checkBeforeATR", "setting"}
      BY <2>2, Running, FirstStep DEF Lock
    <3> QED BY <2>2, <3>1 DEF Lock, GoTo, Owns, Inv, TypeOK, ReadSteps, SerialSteps,
               ConfigurationSteps
  <2>3. CASE ReadStatus(c)
    <3>1. op[c] \in Operations /\ Fits(op[c], "status") /\ pc[c] = "status"
      BY <2>3, Running DEF ReadStatus
    <3>2. op[c] \in Transactional => AfterReading(op[c], "status") \in {"checkAfterATR", "end"}
      BY <3>1 DEF Fits, AfterReading, Transactional, Settings, SerialSteps, ConfigurationSteps
    <3> QED BY <2>3, <3>1, <3>2 DEF ReadStatus, GoTo, Owns, IsOpen, cardVars, Inv, TypeOK,
               ReadSteps
  <2>4. CASE CheckContext(c)
    <3>1. Fits(op[c], pc[c]) /\ pc[c] \in CheckSteps
      BY <2>4, Running DEF CheckContext, CheckSteps
    <3>2. op[c] \in Transactional =>
            /\ pc[c] \in ReadSteps
            /\ op[c] = "DeviceInfo"
      BY <3>1 DEF Fits, CheckSteps, Transactional, Settings, ReadSteps, SerialSteps,
         ConfigurationSteps
    <3>3. op[c] = "DeviceInfo" =>
            AfterCheck(op[c], pc[c], canceled[c]) \in {"end", "status", "selectOTPForConfig"}
      BY DEF AfterCheck
    <3> QED BY <2>4, <3>2, <3>3 DEF CheckContext, GoTo, Owns, IsOpen, cardVars, Inv,
               TypeOK, ReadSteps, ConfigurationSteps
  <2>5. CASE Unlock(c)
    BY <2>5 DEF Unlock, GoTo, Owns, Inv, TypeOK, ReadSteps, SerialSteps, ConfigurationSteps
  <2>6. CASE Cancel(c)
    BY <2>6 DEF Cancel, Owns, IsOpen, cardVars
  <2> QED BY <2>1, <2>2, <2>3, <2>4, <2>5, <2>6
<1>3. \A b \in Calls : Owns(b)' <=> Owns(b)
  BY <1>1, <1>2 DEF Owns, IsOpen, cardVars
<1> QED BY <1>1, <1>3, SameOwner DEF Abstract, cardVars

LEMMA OpenRefines ==
    ASSUME Inv, Inv', NEW d \in Devices, Open(d)
    PROVE  Abstract
<1>1. ASSUME NEW b \in Calls
      PROVE  Owns(b)' <=> Owns(b)
  <2>1. CASE DeviceOf[b] = d
    <3>1. pc[b] = "idle"
      BY <2>1 DEF Open, Inv, StepsFit
    <3> QED BY <3>1 DEF Open, callVars, Owns, ReadSteps, SerialSteps, ConfigurationSteps
  <2>2. CASE DeviceOf[b] # d
    BY <2>2 DEF Open, callVars, cardVars, Owns, IsOpen, Inv, TypeOK
  <2> QED BY <2>1, <2>2
<1> QED BY <1>1, SameOwner DEF Abstract, Open, cardVars

LEMMA NextRefines ==
    ASSUME Inv, Inv', [Next]_vars
    PROVE  Abstract
<1>1. CASE \E d \in Devices : Open(d) \/ RequestClose(d) \/ Close(d)
  BY <1>1, OpenRefines, RequestCloseRefines, CloseRefines
<1>2. CASE \E c \in Calls : CallStep(c)
  BY <1>2, LocalRefines, BeginRefines, AnswerRefines, FailureRefines, EndRefines
     DEF CallStep, LocalStep
<1>3. CASE OtherApplication
  BY <1>3, OtherRefines
<1>4. CASE UNCHANGED vars
  BY <1>4, SameOwner DEF vars, callVars, cardVars, Owns, IsOpen, Abstract
<1> QED BY <1>1, <1>2, <1>3, <1>4 DEF Next

-----------------------------------------------------------------------------

LEMMA InitRefines == ASSUME Init PROVE Sessions!Init
<1>1. \A c \in Calls : ~Owns(c)
  BY DEF Init, Owns, Transactional
<1>2. Owner = NoCall
  BY <1>1 DEF Owner
<1> QED BY <1>2 DEF Init, Sessions!Init

\* device.go implements the abstract card sessions: whatever goroutines, handles,
\* closings, cancellations and failures there are, between BeginTransaction and
\* EndTransaction the card handles the commands of one call only.
THEOREM DeviceImplementsSessions == Spec => ImplementsSessions
<1>1. Init => Sessions!Init
  BY InitRefines
<1>2. Inv /\ Inv' /\ [Next]_vars => [Sessions!Next]_(Sessions!vars)
  BY NextRefines DEF Abstract, Sessions!vars
<1> QED BY <1>1, <1>2, Invariance, PTL DEF Spec, ImplementsSessions, Sessions!Spec

=============================================================================
