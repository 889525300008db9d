----------------------------- MODULE MCVendorData -----------------------------
(* Cards of up to three interface-byte groups: no historical bytes, a       *)
(* foreign one, the vendor's prefix alone, and a Token2 identity. Tokens    *)
(* with no mask bit, all of them, and the masks of the source's tests.      *)
(* Serial numbers of every row of the catalogue and around the range, of    *)
(* up to 24 digits, and two that are none.                                  *)
EXTENDS VendorData

MCHistoricals ==
    { <<>>, <<84>>, <<134, 142>>,
      <<134, 142, 2, 22, 96, 0, 96, 51, 53, 55, 56, 48, 53, 50, 56>> }

MCMasks == {<<0, 0, 0>>, <<7, 255, 255>>, <<2, 170, 213>>, <<2, 42, 55>>}

Zeros(n) == [i \in 1..n |-> 48]
Nines(n) == [i \in 1..n |-> 57]

MCSerials ==
    { <<>>, <<209, 0>> }
        \cup {Decimal(p, 5) \o Nines(2) : p \in SerialPrefixes}
        \cup {Zeros(k) \o Decimal(n, 8) :
                k \in {0, 1, 16}, n \in {SerialFrom - 1, SerialFrom, SerialTo, SerialTo + 1}}
        \cup {Decimal(65111, 5) \o Nines(n) : n \in {1, 9, 14, 15}}
        \cup {Zeros(2) \o Decimal(65111, 5) \o Nines(2)}
        \cup {[i \in 1..20 |-> Largest[i] + 48]}

=============================================================================
