----------------------------- MODULE PcscDevice -----------------------------
(***************************************************************************)
(* pcsc.Device under concurrent use: goroutines calling the methods of     *)
(* Devices that are connected to one card.                                 *)
(*                                                                         *)
(* A call is one goroutine slot. It belongs to one Device (DeviceOf) and   *)
(* runs one public method at a time through the steps of PcscProgram. The  *)
(* mutex of a Device serializes its calls; the PC/SC transaction keeps     *)
(* other handles and other applications away from the card; Close takes    *)
(* no lock and may come at any moment. The native PC/SC connection and the *)
(* card are external: what they answer is nondeterministic.                *)
(***************************************************************************)
EXTENDS PcscProgram

CONSTANTS
    Devices,    \* handles that Open may return, all to the same card
    Calls,      \* goroutine slots that call methods
    DeviceOf,   \* the Device each slot works on
    Ops,        \* the methods that may be called
    NoDevice,   \* "no transaction is active"
    NoCall      \* "nobody": a free mutex, a command of another application

ASSUME ConstantsAssumption ==
    /\ DeviceOf \in [Calls -> Devices]
    /\ Ops \subseteq Operations
    /\ NoDevice \notin Devices
    /\ NoCall \notin Calls

VARIABLES
    handle,     \* Device -> "new", "open", "closing" (in Device.Close), "closed"
    mu,         \* Device -> the call that holds Device.mu
    pc,         \* call -> the step it is at
    op,         \* call -> the method it runs
    canceled,   \* call -> its context is done
    txErr,      \* call -> its result holds an error of Begin/EndTransaction
    fetching,   \* call -> it was announced more data and sends GET RESPONSE
    tx,         \* the Device whose transaction locks the card
    applet,     \* the applet selected on the card
    last        \* the call whose command the card handled last

callVars == <<pc, op, canceled, txErr, fetching>>
cardVars == <<tx, applet, last>>
vars     == <<handle, mu, callVars, cardVars>>

TypeOK ==
    /\ handle \in [Devices -> {"new", "open", "closing", "closed"}]
    /\ mu \in [Devices -> Calls \cup {NoCall}]
    /\ pc \in [Calls -> Steps]
    /\ op \in [Calls -> Operations \cup {"none"}]
    /\ canceled \in [Calls -> BOOLEAN]
    /\ txErr \in [Calls -> BOOLEAN]
    /\ fetching \in [Calls -> BOOLEAN]
    /\ \A c \in Calls : fetching[c] => pc[c] \in CardSteps
    /\ tx \in Devices \cup {NoDevice}
    /\ applet \in Applets
    /\ last \in Calls \cup {NoCall}

Init ==
    /\ handle = [d \in Devices |-> "new"]
    /\ mu = [d \in Devices |-> NoCall]
    /\ pc = [c \in Calls |-> "idle"]
    /\ op = [c \in Calls |-> "none"]
    /\ canceled = [c \in Calls |-> FALSE]
    /\ txErr = [c \in Calls |-> FALSE]
    /\ fetching = [c \in Calls |-> FALSE]
    /\ tx = NoDevice
    /\ applet \in Applets
    /\ last = NoCall

-----------------------------------------------------------------------------
IsOpen(c) == handle[DeviceOf[c]] \in {"open", "closing"}

\* PC/SC lets a command through unless another handle holds a transaction.
Reachable(c) == IsOpen(c) /\ tx \in {NoDevice, DeviceOf[c]}

GoTo(c, step) == pc' = [pc EXCEPT ![c] = step]

-----------------------------------------------------------------------------
\* The connection of a Device.

Open(d) ==
    /\ handle[d] = "new"
    /\ handle' = [handle EXCEPT ![d] = "open"]
    /\ UNCHANGED <<mu, callVars, cardVars>>

\* A goroutine enters Device.Close.
RequestClose(d) ==
    /\ handle[d] = "open"
    /\ handle' = [handle EXCEPT ![d] = "closing"]
    /\ UNCHANGED <<mu, callVars, cardVars>>

\* The native Close, which Device.Close reaches without Device.mu. It ends the
\* transaction of the handle and, as an option of Open, resets the card.
DisconnectCard(d) ==
    /\ handle[d] = "closing"
    /\ handle' = [handle EXCEPT ![d] = "closed"]
    /\ tx' = IF tx = d THEN NoDevice ELSE tx
    /\ \/ UNCHANGED <<applet, last>>
       \/ /\ tx \in {NoDevice, d}
          /\ applet' = "none"
          /\ last' = NoCall
    /\ UNCHANGED <<mu, callVars>>

\* Mutant: Close takes Device.mu first, like the other methods.
CloseLocked(d) ==
    /\ mu[d] = NoCall
    /\ DisconnectCard(d)

Close(d) == DisconnectCard(d)

-----------------------------------------------------------------------------
\* The steps of a call.

Invoke(c, o) ==
    /\ pc[c] = "idle"
    /\ handle[DeviceOf[c]] # "new"
    /\ op' = [op EXCEPT ![c] = o]
    /\ GoTo(c, "lock")
    /\ UNCHANGED <<handle, mu, canceled, txErr, fetching, cardVars>>

\* Mutant: a read lock, which calls of one Device share.
LockShared(c) ==
    /\ pc[c] = "lock"
    /\ mu' = [mu EXCEPT ![DeviceOf[c]] = c]
    /\ GoTo(c, AfterLock(op[c]))
    /\ UNCHANGED <<handle, op, canceled, txErr, fetching, cardVars>>

\* mu.Lock knows nothing of the context.
Lock(c) ==
    /\ pc[c] = "lock"
    /\ mu[DeviceOf[c]] = NoCall
    /\ mu' = [mu EXCEPT ![DeviceOf[c]] = c]
    /\ GoTo(c, AfterLock(op[c]))
    /\ UNCHANGED <<handle, op, canceled, txErr, fetching, cardVars>>

BeginTransaction(c) ==
    /\ pc[c] = "begin"
    /\ Reachable(c)
    /\ tx' = DeviceOf[c]
    /\ GoTo(c, AfterBegin(op[c]))
    /\ UNCHANGED <<handle, mu, op, canceled, txErr, fetching, applet, last>>

\* The card answers the command of the current step, or the GET RESPONSE that
\* continues it. 61xx and 9Fxx keep the call in iso7816.Exchange.
CardAnswers(c, sw) ==
    /\ pc[c] \in CardSteps
    /\ Reachable(c)
    /\ last' = c
    /\ applet' = IF /\ pc[c] \in SelectSteps
                    /\ ~fetching[c]
                    /\ sw \in {Success, MoreData}
                 THEN Selects(pc[c]) ELSE applet
    /\ fetching' = [fetching EXCEPT ![c] = (sw = MoreData)]
    /\ GoTo(c, IF sw = MoreData THEN pc[c] ELSE AfterExchange(op[c], pc[c], sw))
    /\ UNCHANGED <<handle, mu, op, canceled, txErr, tx>>

\* Mutant: an error leaves the call in the middle of its continuation.
CallFailsFetching(c) ==
    /\ pc[c] \in CardSteps
    /\ GoTo(c, AfterReading(op[c], pc[c]))
    /\ UNCHANGED <<handle, mu, op, canceled, txErr, fetching, cardVars>>

\* BeginTransaction or Transmit returns an error: the card or the reader
\* failed, the context is done or the connection was closed. The command may
\* have reached the card before.
CallFails(c) ==
    /\ pc[c] \in CardSteps \cup {"begin"}
    /\ \/ UNCHANGED <<applet, last>>
       \/ /\ pc[c] \in CardSteps
          /\ Reachable(c)
          /\ last' = c
          /\ applet' \in IF pc[c] \in SelectSteps /\ ~fetching[c]
                         THEN {applet, Selects(pc[c])} ELSE {applet}
    /\ txErr' = [txErr EXCEPT ![c] = (pc[c] = "begin")]
    /\ fetching' = [fetching EXCEPT ![c] = FALSE]
    /\ GoTo(c, IF pc[c] = "begin" THEN "unlock" ELSE AfterReading(op[c], pc[c]))
    /\ UNCHANGED <<handle, mu, op, canceled, tx>>

\* Status takes no context, and ATR calls it outside any transaction. It may
\* fail: the call goes on in the same way.
ReadStatus(c) ==
    /\ pc[c] = "status"
    /\ GoTo(c, AfterReading(op[c], "status"))
    /\ UNCHANGED <<handle, mu, op, canceled, txErr, fetching, cardVars>>

CheckContext(c) ==
    /\ pc[c] \in CheckSteps
    /\ GoTo(c, AfterCheck(op[c], pc[c], canceled[c]))
    /\ UNCHANGED <<handle, mu, op, canceled, txErr, fetching, cardVars>>

\* Mutant: defer card.EndTransaction(...), its error dropped.
EndTransactionUnjoined(c) ==
    /\ pc[c] = "end"
    /\ tx' \in IF IsOpen(c) THEN {tx, NoDevice} ELSE {tx}
    /\ GoTo(c, "unlock")
    /\ UNCHANGED <<handle, mu, op, canceled, txErr, fetching, applet, last>>

\* The deferred EndTransaction; its error is joined into the result. When it
\* fails the transaction may remain.
EndTransaction(c) ==
    /\ pc[c] = "end"
    /\ \/ /\ IsOpen(c)
          /\ tx' = NoDevice
          /\ UNCHANGED txErr
       \/ /\ txErr' = [txErr EXCEPT ![c] = TRUE]
          /\ tx' \in IF IsOpen(c) THEN {tx, NoDevice} ELSE {tx}
    /\ GoTo(c, "unlock")
    /\ UNCHANGED <<handle, mu, op, canceled, fetching, applet, last>>

\* The deferred Unlock, and the return.
Unlock(c) ==
    /\ pc[c] = "unlock"
    /\ mu' = [mu EXCEPT ![DeviceOf[c]] = NoCall]
    /\ op' = [op EXCEPT ![c] = "none"]
    /\ canceled' = [canceled EXCEPT ![c] = FALSE]
    /\ txErr' = [txErr EXCEPT ![c] = FALSE]
    /\ GoTo(c, "idle")
    /\ UNCHANGED <<handle, fetching, cardVars>>

-----------------------------------------------------------------------------
\* The environment.

Cancel(c) ==
    /\ pc[c] # "idle"
    /\ ~canceled[c]
    /\ canceled' = [canceled EXCEPT ![c] = TRUE]
    /\ UNCHANGED <<handle, mu, pc, op, txErr, fetching, cardVars>>

\* Another application uses the card between transactions.
OtherApplication ==
    /\ tx = NoDevice
    /\ applet' \in Applets
    /\ last' = NoCall
    /\ UNCHANGED <<handle, mu, callVars, tx>>

-----------------------------------------------------------------------------
\* Steps that depend on nobody but the call itself.
LocalStep(c) ==
    \/ ReadStatus(c)
    \/ CheckContext(c)
    \/ EndTransaction(c)
    \/ Unlock(c)

CallStep(c) ==
    \/ \E o \in Ops : Invoke(c, o)
    \/ Lock(c)
    \/ BeginTransaction(c)
    \/ \E sw \in StatusWords : CardAnswers(c, sw)
    \/ CallFails(c)
    \/ LocalStep(c)
    \/ Cancel(c)

Next ==
    \/ \E d \in Devices : Open(d) \/ RequestClose(d) \/ Close(d)
    \/ \E c \in Calls : CallStep(c)
    \/ OtherApplication

Spec == Init /\ [][Next]_vars

\* Mutant: commands are sent with context.Background().
InterruptedByClose(c) ==
    /\ handle[DeviceOf[c]] = "closed"
    /\ CallFails(c)

\* The native connection gives up a command whose context is done or whose
\* connection was closed.
Interrupted(c) ==
    /\ canceled[c] \/ handle[DeviceOf[c]] = "closed"
    /\ CallFails(c)

\* A call's own steps are taken, Close reaches the native connection, and
\* sync.Mutex hands over to a waiter that starves. Nothing makes the card
\* answer, a caller cancel or anyone close.
Fairness ==
    /\ \A d \in Devices : WF_vars(Close(d))
    /\ \A c \in Calls :
           /\ WF_vars(LocalStep(c))
           /\ WF_vars(Interrupted(c))
           /\ SF_vars(Lock(c))

FairSpec == Spec /\ Fairness

-----------------------------------------------------------------------------
\* Properties.

\* The command of a step finds the applet it is meant for, whatever the other
\* calls, the other handles, other applications and the FIDO fallback of
\* ReadSerialNumber do: serial and configuration commands go to the OTP applet,
\* the last fallback to FIDO, until the call's own connection is closed.
AppletHeld ==
    \A c \in Calls :
        pc[c] \in AppletSteps /\ IsOpen(c) => applet = NeededApplet(pc[c])

\* Within a reading the card handled nobody else's command since the SELECT, so
\* the GET RESPONSE of iso7816.Exchange and the legacy prelude, which depend on
\* the command before them, continue the call's own command.
ReadingUndisturbed ==
    \A c \in Calls :
        /\ op[c] \in Transactional
        /\ pc[c] \in AppletSteps \/ fetching[c]
        /\ IsOpen(c)
        => last = c

\* A reader setting runs in no transaction: only the mutex protects it. No call
\* on the same Device gets between its command and its GET RESPONSE.
SettingSerialized ==
    \A c \in Calls :
        op[c] \in Settings /\ fetching[c] =>
            \/ last \in {c, NoCall}
            \/ DeviceOf[last] # DeviceOf[c]

\* A transactional method whose result holds no transaction error returns with
\* the card released: a failed BeginTransaction or EndTransaction is never lost.
TransactionReported ==
    \A c \in Calls :
        pc[c] = "unlock" /\ op[c] \in Transactional /\ ~txErr[c]
            => tx # DeviceOf[c]

-----------------------------------------------------------------------------
\* The inductive invariant behind the four properties above.

\* A call is at a step of the method it runs, on a Device that Open returned.
StepsFit ==
    \A c \in Calls :
        /\ Fits(op[c], pc[c])
        /\ handle[DeviceOf[c]] = "new" => pc[c] = "idle"

\* Past mu.Lock a call holds the mutex of its Device.
LockHeld ==
    \A c \in Calls : pc[c] \notin {"idle", "lock"} => mu[DeviceOf[c]] = c

\* Between Begin and End the transaction is the call's, while its handle is open.
TransactionHeld ==
    \A c \in Calls :
        /\ op[c] \in Transactional
        /\ pc[c] \in ReadSteps \cup {"end"}
        /\ IsOpen(c)
        => tx = DeviceOf[c]

\* A SELECT that was answered with 61xx has taken effect.
SelectHeld ==
    \A c \in Calls :
        fetching[c] /\ pc[c] \in SelectSteps /\ IsOpen(c)
            => applet = Selects(pc[c])

Inv ==
    /\ TypeOK
    /\ StepsFit
    /\ LockHeld
    /\ TransactionHeld
    /\ SelectHeld
    /\ AppletHeld
    /\ ReadingUndisturbed
    /\ SettingSerialized
    /\ TransactionReported

-----------------------------------------------------------------------------
\* The call that has the card to itself.
Owns(c) ==
    /\ pc[c] \in ReadSteps \cup {"end"}
    /\ op[c] \in Transactional
    /\ IsOpen(c)

Owner == IF \E c \in Calls : Owns(c) THEN CHOOSE c \in Calls : Owns(c) ELSE NoCall

Sessions == INSTANCE CardSessions WITH session <- Owner

\* The Device implements the abstract card sessions: between BeginTransaction
\* and EndTransaction the card handles the commands of one call only.
ImplementsSessions == Sessions!Spec

\* Close lets no call hang: once it is called every call in progress on the
\* Device, those that wait for its mutex included, returns, even if the card
\* never answers.
CloseReturnsCalls ==
    \A c \in Calls :
        (pc[c] # "idle" /\ handle[DeviceOf[c]] \in {"closing", "closed"})
            ~> pc[c] = "idle"

\* A done context makes a call return once it has the mutex. (It may wait for
\* the mutex as long as the call before it waits for the card: mu.Lock does not
\* look at the context.)
CancelReturnsCall ==
    \A c \in Calls :
        (canceled[c] /\ pc[c] # "lock") ~> pc[c] = "idle"

=============================================================================
