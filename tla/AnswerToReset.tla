---------------------------- MODULE AnswerToReset ----------------------------
(***************************************************************************)
(* token2.ParseATR, the bytes a card makes of the structure of its         *)
(* answer-to-reset, and the grammar of these bytes: a set of presence      *)
(* bytes, each announcing the next, historical bytes, and a check byte.    *)
(***************************************************************************)
EXTENDS Bytes, Sequences, FiniteSets, FiniteSetsExt, SequencesExt

CONSTANTS
    Presences,      \* the presence nibbles of a card's T0 and TDs, less bit 8
    Historicals,    \* the historical bytes a card may have
    MaxGroups       \* bound: the interface-byte groups of a card

ASSUME StructuresAssumption ==
    /\ Presences \subseteq 0..7
    /\ \A h \in Historicals : h \in Seq(Byte) /\ Len(h) \in 0..15
    /\ MaxGroups \in Nat \ {0}

-----------------------------------------------------------------------------
\* The parser. A rejection stands for each of the errors that wrap ErrInvalidATR.

Rejected == [error |-> "ErrInvalidATR"]

High(byte) == byte \div 16
Low(byte)  == byte % 16

\* Mutant: mask < 4.
InterfaceBytesTwo(presence) ==
    Cardinality({mask \in {1, 2} : Has(presence, mask)})

\* TA, TB and TC are present when bits 1, 2 and 4 of the nibble are.
InterfaceBytes(presence) ==
    Cardinality({mask \in {1, 2, 4} : Has(presence, mask)})

\* Mutant: the last TD alone decides about the TCK.
GroupsLastTD(bytes) ==
    LET walk[state \in [at : 2..Len(bytes), hasTCK : BOOLEAN]] ==
            LET presence == High(bytes[state.at])
                offset   == state.at + InterfaceBytes(presence)
            IN  IF offset > Len(bytes) \/ (offset = Len(bytes) /\ Has(presence, 8))
                THEN Rejected
                ELSE IF ~Has(presence, 8)
                     THEN [offset |-> offset, hasTCK |-> state.hasTCK]
                     ELSE walk[[at     |-> offset + 1,
                                hasTCK |-> Low(bytes[offset + 1]) # 0]]
    IN  walk[[at |-> 2, hasTCK |-> FALSE]]

\* The loop over the groups, the presence byte of one at state.at: how many bytes
\* precede the historical ones, and whether a TCK follows them. Interface bytes or
\* a TD that is not there reject the ATR.
Groups(bytes) ==
    LET walk[state \in [at : 2..Len(bytes), hasTCK : BOOLEAN]] ==
            LET presence == High(bytes[state.at])
                offset   == state.at + InterfaceBytes(presence)
            IN  IF offset > Len(bytes) \/ (offset = Len(bytes) /\ Has(presence, 8))
                THEN Rejected
                ELSE IF ~Has(presence, 8)
                     THEN [offset |-> offset, hasTCK |-> state.hasTCK]
                     ELSE walk[[at     |-> offset + 1,
                                hasTCK |-> state.hasTCK \/ Low(bytes[offset + 1]) # 0]]
    IN  walk[[at |-> 2, hasTCK |-> FALSE]]

Checksum(bytes) == FoldLeft(LAMBDA sum, byte : Xor(sum, byte), 0, Tail(bytes))

LengthFits(bytes, groups, end) ==
    Len(bytes) = end + (IF groups.hasTCK THEN 1 ELSE 0)

ChecksumFits(bytes, groups) == groups.hasTCK => Checksum(bytes) = 0

historicalBytes(bytes) ==
    IF Len(bytes) < 2 \/ bytes[1] \notin {59, 63}
    THEN Rejected
    ELSE LET groups == Groups(bytes)
             end    == groups.offset + Low(bytes[2])
         IN  IF /\ groups # Rejected
                /\ LengthFits(bytes, groups, end)
                /\ ChecksumFits(bytes, groups)
             THEN [bytes |-> SubSeq(bytes, groups.offset + 1, end)]
             ELSE Rejected

NoIdentity == [nil |-> TRUE]

ParseATR(bytes) ==
    LET found      == historicalBytes(bytes)
        historical == found.bytes
        token2     == Len(historical) >= 2 /\ SubSeq(historical, 1, 2) = <<134, 142>>
    IN  IF found = Rejected THEN Rejected
        ELSE CASE ~token2 -> [Raw |-> bytes, Identity |-> NoIdentity]
               [] token2 /\ Len(historical) # 15 -> Rejected
               [] token2 /\ Len(historical) = 15 ->
                     [Raw |-> bytes,
                      Identity |-> [ProductID    |-> historical[3] * 256 + historical[4],
                                    SerialSuffix |-> SubSeq(historical, 8, 15)]]

-----------------------------------------------------------------------------
\* What a card sends: presences and protocols of its groups (a TD announces the
\* protocol of the group after it), the historical bytes and, unless every
\* protocol is T=0, the TCK. Interface bytes are all 17.
Structures ==
    UNION {[TS : {59, 63}, presences : [1..n -> Presences], protocols : [1..(n - 1) -> {0, 1}],
            historical : Historicals] : n \in 1..MaxGroups}

Sum8(bytes) == FoldLeft(LAMBDA sum, byte : Xor(sum, byte), 0, bytes)

\* The bytes of a structure.
Assemble(s) ==
    LET n == Len(s.presences)
        nibble(i) == s.presences[i] + (IF i < n THEN 8 ELSE 0)
        group(i) ==
            [k \in 1..Cardinality({b \in {1, 2, 4} : Has(s.presences[i], b)}) |-> 17]
                \o (IF i < n THEN <<nibble(i + 1) * 16 + s.protocols[i]>> ELSE <<>>)
        body == <<nibble(1) * 16 + Len(s.historical)>>
                    \o FlattenSeq([i \in 1..n |-> group(i)]) \o s.historical
    IN  <<s.TS>> \o body
            \o (IF \E i \in 1..(n - 1) : s.protocols[i] # 0 THEN <<Sum8(body)>> ELSE <<>>)

-----------------------------------------------------------------------------
\* The grammar.

\* The positions of T0 and the TDs: T0 is the second byte, and a presence byte
\* with bit 8 has a TD at the end of its group.
Links(byte) == Cardinality({b \in {16, 32, 64, 128} : Has(byte, b)})

PresenceBytes(bytes) ==
    LET isOne[p \in 2..(Len(bytes) + 4)] ==
            \/ p = 2
            \/ \E q \in {i \in (p - 4)..(p - 1) : i \in 2..Len(bytes)} :
                  /\ bytes[q] >= 128
                  /\ q + Links(bytes[q]) = p
                  /\ isOne[q]
    IN  {p \in 2..(Len(bytes) + 4) : isOne[p]}

\* Where the last group ends, and the historical bytes behind it.
GroupsEnd(bytes) == Max({p + Links(bytes[p]) : p \in PresenceBytes(bytes)})

HistoricalOf(bytes) ==
    SubSeq(bytes, GroupsEnd(bytes) + 1, GroupsEnd(bytes) + (bytes[2] % 16))

\* The grammar: groups that fit, the announced number of historical bytes, and a
\* TCK that makes every bit of the bytes after TS even, if a TD names a protocol
\* other than T=0.
WellFormed(bytes) ==
    /\ Len(bytes) >= 2
    /\ bytes[1] \in {59, 63}
    /\ \A p \in PresenceBytes(bytes) : p <= Len(bytes)
    /\ LET end == GroupsEnd(bytes) + (bytes[2] % 16)
       IN  IF \E p \in PresenceBytes(bytes) \ {2} : bytes[p] % 16 # 0
           THEN /\ Len(bytes) = end + 1
                /\ \A b \in BitMasks :
                      Cardinality({i \in 2..Len(bytes) : Has(bytes[i], b)}) % 2 = 0
           ELSE Len(bytes) = end

Vendor(historical) == Len(historical) >= 2 /\ SubSeq(historical, 1, 2) = <<134, 142>>

=============================================================================
