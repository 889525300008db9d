------------------------------ MODULE VendorData ------------------------------
(***************************************************************************)
(* The pure functions of package token2 on the data of a token: an answer- *)
(* to-reset, a configuration or a serial number as the token sent it, and  *)
(* what is left of it when its end is lost, bytes follow it or a byte      *)
(* differs, or when a setting of the token is changed.                     *)
(***************************************************************************)
EXTENDS AnswerToReset, VendorReplies, Catalogue

CONSTANTS
    Masks,      \* the mask bytes of a token: <<transfer type, configuration, extension>>
    Serials,    \* serial numbers, as byte sequences
    StrayBytes, \* values a damaged byte may take
    MaxPadding  \* bound: bytes behind the data

ASSUME DataAssumption ==
    /\ Masks \subseteq Byte \X Byte \X Byte
    /\ \A s \in Serials : s \in Seq(Byte) /\ Len(s) \in Byte
    /\ StrayBytes \subseteq Byte
    /\ MaxPadding \in Nat

VARIABLES
    kind,       \* "atr", "configuration" or "serial"
    sent,       \* what the token means: a structure, masks or a serial number
    bytes,      \* the bytes that the parser of the kind is given
    damage      \* "none", "cut", "padded", "changed": a byte; "flipped": a setting

vars == <<kind, sent, bytes, damage>>

\* What a token sends. Appearance and version of a configuration are zeros.
Encoding(k, x) ==
    CASE k = "atr" -> Assemble(x)
      [] k = "configuration" -> <<x[1], x[2], 0, 0, 0, 0, 0, 0, 0, x[3]>>
      [] k = "serial" -> <<209, Len(x)>> \o x

Init ==
    /\ \/ kind = "atr" /\ sent \in Structures
       \/ kind = "configuration" /\ sent \in Masks
       \/ kind = "serial" /\ sent \in Serials
    /\ bytes = Encoding(kind, sent)
    /\ damage = "none"

Damaged(how) ==
    /\ damage = "none"
    /\ damage' = how
    /\ UNCHANGED <<kind, sent>>

Cut ==
    /\ Damaged("cut")
    /\ \E n \in 0..(Len(bytes) - 1) : bytes' = SubSeq(bytes, 1, n)

Pad ==
    /\ Damaged("padded")
    /\ \E n \in 1..MaxPadding, byte \in StrayBytes :
          bytes' = bytes \o [i \in 1..n |-> byte]

Change ==
    /\ Damaged("changed")
    /\ \E i \in DOMAIN bytes :
          \E byte \in StrayBytes \ {bytes[i]} : bytes' = [bytes EXCEPT ![i] = byte]

\* A setting of the token changes: one bit of byte i of its configuration.
FlipBit(i, mask) ==
    /\ kind = "configuration"
    /\ Damaged("flipped")
    /\ bytes' = [bytes EXCEPT ![i] = IF Has(@, mask) THEN @ - mask ELSE @ + mask]

Next ==
    \/ Cut
    \/ Pad
    \/ Change
    \/ \E i \in {2, 10}, mask \in BitMasks : FlipBit(i, mask)
    \/ \E mask \in {1, 2, 4} : FlipBit(1, mask)

Spec == Init /\ [][Next]_vars

-----------------------------------------------------------------------------
\* Properties.

\* ParseATR accepts exactly the grammar, however the groups, the lengths and the
\* check byte of damaged bytes fall together, except for vendor's bytes that are
\* too few or too many for an identity.
AcceptsTheGrammar ==
    kind = "atr" =>
        (ParseATR(bytes) # Rejected <=>
            WellFormed(bytes) /\ (Vendor(HistoricalOf(bytes)) => Len(HistoricalOf(bytes)) = 15))

\* The identity read is the one the card put into its historical bytes, behind
\* any number of interface bytes, and an ATR of another vendor gets none.
IdentityRead ==
    kind = "atr" /\ damage = "none" =>
        LET h      == sent.historical
            result == ParseATR(bytes)
        IN  CASE ~Vendor(h) -> result # Rejected /\ result.Identity = NoIdentity
              [] Vendor(h) /\ Len(h) # 15 -> result = Rejected
              [] OTHER ->
                    /\ result # Rejected
                    /\ result.Identity =
                          [ProductID |-> h[3] * 256 + h[4], SerialSuffix |-> SubSeq(h, 8, 15)]

Reported == ParseConfiguration(bytes)

Changed(f, g) == {x \in DOMAIN f : f[x] # g[x]}

\* A setting moves exactly one of the reported flags: every bit is decoded, no
\* two flags read the same one, and no flag of one view answers to a bit of
\* another byte.
OneBitOneFlag ==
    [][ damage' = "flipped" =>
            Cardinality(Changed(InterfaceState(Reported), InterfaceState(Reported)'))
                + Cardinality(Changed(Capabilities(Reported).flags,
                                      Capabilities(Reported)'.flags)) = 1 ]_vars

\* What is left of a configuration never claims a capability: two of the flags
\* are set when their bit is zero, so zeros for missing bytes would claim them.
CutClaimsNothing ==
    kind = "configuration" /\ damage = "cut" =>
        \/ Reported = Invalid
        \/ Len(bytes) = 1 /\ Capabilities(Reported) = Unknown

\* A serial number is read whole or not at all, whatever follows it.
SerialWhole ==
    kind = "serial" /\ damage # "changed" =>
        ParseSerialNumber(bytes) =
            IF damage = "cut" THEN Invalid ELSE [value |-> sent]

\* Whatever serial number is read, of a token or damaged, Identify names the one
\* row of the catalogue that owns it, and none if there is none: no serial number
\* has two owners, zeros before it and values beyond 64 bits included.
IdentifiesOwner ==
    LET result == ParseSerialNumber(bytes)
    IN  kind = "serial" /\ result # Invalid =>
            LET owners == Owners(result.value)
            IN  /\ Cardinality(owners) <= 1
                /\ Identify(result.value) \in (IF owners = {} THEN {NoModel} ELSE owners)

-----------------------------------------------------------------------------
\* The invariant that the proofs use.

\* What is left of the data is bytes: a proper prefix of what was sent, or all of
\* it and more.
Inv ==
    /\ bytes \in Seq(Byte)
    /\ \/ kind = "atr" /\ sent \in Structures
       \/ kind = "configuration" /\ sent \in Masks
       \/ kind = "serial" /\ sent \in Serials
    /\ damage \in {"none", "cut", "padded", "changed", "flipped"}
    /\ damage = "none" => bytes = Encoding(kind, sent)
    /\ damage = "cut" => Len(bytes) < Len(Encoding(kind, sent)) /\ IsPrefix(bytes, Encoding(kind, sent))
    /\ damage = "padded" => IsPrefix(Encoding(kind, sent), bytes)
    /\ damage = "flipped" => kind = "configuration"

=============================================================================
