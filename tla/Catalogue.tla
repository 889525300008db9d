------------------------------ MODULE Catalogue ------------------------------
(***************************************************************************)
(* token2.Identify: the model catalogue, looked up by serial number. A     *)
(* serial number is a sequence of ASCII bytes. A row of the catalogue is a *)
(* five-digit prefix, or a range of numbers; release, form factor and      *)
(* branding come with the row.                                             *)
(***************************************************************************)
EXTENDS Integers, Sequences, FiniteSets, SequencesExt

SerialPrefixes ==
    { 86105, 86104, 86103, 86202,                                           \* R1
      96105, 96104, 96103, 23103,                                           \* R2
      76103, 76104, 76202, 86106, 76106,                                    \* R3
      76105, 26105, 72102,                                                  \* R3.1
      77103, 24103, 72101, 72103, 22103,                                    \* R3.2
      66105, 66104, 66103, 66107, 66106, 66114, 66113,
      66202, 66102, 66302, 66101, 66111, 72113, 24133,                      \* R3.3
      65103, 72114, 65101, 65111 }                                          \* R3.4

\* The one row that is a range, of release R3.1.
SerialFrom == 70000001
SerialTo   == 70002000

NoModel == [row |-> "none"]
CardRow == [row |-> "range"]
Row(p)  == [row |-> "prefix", prefix |-> p]

-----------------------------------------------------------------------------
\* strconv.ParseUint(s, 10, 64): digits, and a value below 2^64. A value of more
\* than eight digits is kept as its digits.

Digit(byte) == byte - 48

IsNumber(s) == Range(s) \subseteq 48..57

Significant(s) ==
    LET nonzero == {i \in DOMAIN s : s[i] # 48}
    IN  IF nonzero = {} THEN <<>>
        ELSE SubSeq(s, CHOOSE i \in nonzero : \A j \in nonzero : i <= j, Len(s))

Largest == <<1,8,4,4,6,7,4,4,0,7,3,7,0,9,5,5,1,6,1,5>>

Fits64(s) ==
    LET digits == Significant(s)
    IN  \/ Len(digits) < 20
        \/ /\ Len(digits) = 20
           /\ \A i \in 1..20 :
                 Digit(digits[i]) > Largest[i] =>
                    \E j \in 1..(i - 1) : Digit(digits[j]) < Largest[j]

Number(s) == FoldLeft(LAMBDA n, byte : 10 * n + Digit(byte), 0, s)

\* Mutant: serial < candidate.SerialTo.
InRangeShort(s) ==
    /\ Len(Significant(s)) <= 8
    /\ SerialFrom <= Number(s) /\ Number(s) < SerialTo

InRange(s) ==
    /\ Len(Significant(s)) <= 8
    /\ SerialFrom <= Number(s) /\ Number(s) <= SerialTo

\* Ranges come before prefixes; a prefix is compared with the first five digits
\* as they are, a range with the value.
Identify(s) ==
    IF Len(s) < 7 \/ ~IsNumber(s) \/ ~Fits64(s) THEN NoModel
    ELSE IF InRange(s) THEN CardRow
    ELSE LET prefix == Number(SubSeq(s, 1, 5))
         IN  IF prefix \in SerialPrefixes THEN Row(prefix) ELSE NoModel

-----------------------------------------------------------------------------
\* Who owns a serial number, without parsing it.

Decimal(n, width) ==
    LET digit[i \in 1..width] == 48 + ((n \div 10^(width - i)) % 10)
    IN  digit

RangeSerials == {Decimal(n, 8) : n \in SerialFrom..SerialTo}

\* A range owns the numbers in it, with any number of zeros before them. No
\* prefix begins with 0 or 1: what it owns fits into 64 bits up to 19 digits.
Owners(s) ==
    LET zeros == Len(s) - 8
    IN  (IF /\ zeros >= 0
            /\ \A i \in 1..zeros : s[i] = 48
            /\ SubSeq(s, zeros + 1, Len(s)) \in RangeSerials
         THEN {CardRow} ELSE {})
        \cup (IF Len(s) \in 7..19 /\ IsNumber(s)
              THEN {Row(p) : p \in {q \in SerialPrefixes : IsPrefix(Decimal(q, 5), s)}} ELSE {})

=============================================================================
