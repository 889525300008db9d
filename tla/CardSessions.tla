---------------------------- MODULE CardSessions ----------------------------
(***************************************************************************)
(* What the lock and the transaction of a Device promise together: a       *)
(* transactional read has the card to itself. The card serves one session  *)
(* at a time; while it lasts every command the card handles is the         *)
(* owner's, and nobody else changes the selected applet.                   *)
(***************************************************************************)
CONSTANTS
    Calls,      \* who may own a session
    NoCall,     \* nobody
    Applets     \* what may be selected

VARIABLES
    session,    \* the call that owns the card, or NoCall
    last,       \* the call whose command the card handled last
    applet      \* the applet selected on the card

vars == <<session, last, applet>>

Init ==
    /\ session = NoCall
    /\ last = NoCall
    /\ applet \in Applets

Acquire(c) ==
    /\ session = NoCall
    /\ session' = c
    /\ UNCHANGED <<last, applet>>

\* The owner's command, and the only way to the card during a session.
Exchange(c) ==
    /\ session = c
    /\ last' = c
    /\ applet' \in Applets
    /\ UNCHANGED session

\* A session may end by closing the connection, which may reset the card.
Release(c) ==
    /\ session = c
    /\ session' = NoCall
    /\ \/ UNCHANGED <<last, applet>>
       \/ last' = NoCall /\ applet' = "none"

\* Commands that need no session: reader settings, other applications.
Outside ==
    /\ session = NoCall
    /\ last' \in Calls \cup {NoCall}
    /\ applet' \in Applets
    /\ UNCHANGED session

Next ==
    \/ \E c \in Calls : Acquire(c) \/ Exchange(c) \/ Release(c)
    \/ Outside

Spec == Init /\ [][Next]_vars

=============================================================================
