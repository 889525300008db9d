-------------------------- MODULE VendorDataProofs --------------------------
(***************************************************************************)
(* Proofs about VendorData: what the parsers make of every sequence of     *)
(* bytes that a token sends, whole or damaged.                             *)
(***************************************************************************)
EXTENDS VendorData, BasicFacts

-----------------------------------------------------------------------------
\* Bytes.

LEMMA HighOrLow ==
    ASSUME NEW x \in Byte
    PROVE  x < 128 <=> ~(x >= 128)
BY DEF Byte

\* A byte is its eight bits.
LEMMA BitsOfSum ==
    ASSUME NEW c1 \in 0..1, NEW c2 \in 0..1, NEW c4 \in 0..1, NEW c8 \in 0..1,
           NEW c16 \in 0..1, NEW c32 \in 0..1, NEW c64 \in 0..1, NEW c128 \in 0..1,
           NEW x, x = c1 + 2 * c2 + 4 * c4 + 8 * c8 + 16 * c16 + 32 * c32 + 64 * c64 + 128 * c128
    PROVE  /\ x \in Byte
           /\ Has(x, 1) <=> c1 = 1
           /\ Has(x, 2) <=> c2 = 1
           /\ Has(x, 4) <=> c4 = 1
           /\ Has(x, 8) <=> c8 = 1
           /\ Has(x, 16) <=> c16 = 1
           /\ Has(x, 32) <=> c32 = 1
           /\ Has(x, 64) <=> c64 = 1
           /\ Has(x, 128) <=> c128 = 1
BY DEF Has, Byte

LEMMA ByteIsSum ==
    ASSUME NEW x \in Byte
    PROVE  x = ((x \div 1) % 2) + 2 * ((x \div 2) % 2) + 4 * ((x \div 4) % 2) + 8 * ((x \div 8) % 2)
                 + 16 * ((x \div 16) % 2) + 32 * ((x \div 32) % 2) + 64 * ((x \div 64) % 2)
                 + 128 * ((x \div 128) % 2)
<1> DEFINE h(m) == x \div m
<1>1. \A y \in Nat : y = 2 * (y \div 2) + (y % 2) /\ y \div 2 \in Nat /\ y \div 1 = y
  OBVIOUS
<1>2. x \in Nat /\ x < 256
  BY DEF Byte
<1>3. h(1) = x
  BY <1>1, <1>2
<1>4. h(2) = h(1) \div 2
  BY <1>2
<1>5. h(4) = h(2) \div 2
  BY <1>2
<1>6. h(8) = h(4) \div 2
  BY <1>2
<1>7. h(16) = h(8) \div 2
  BY <1>2
<1>8. h(32) = h(16) \div 2
  BY <1>2
<1>9. h(64) = h(32) \div 2
  BY <1>2
<1>10. h(128) = h(64) \div 2
  BY <1>2
<1> HIDE DEF h
<1>11. /\ h(1) \in Nat /\ h(2) \in Nat /\ h(4) \in Nat /\ h(8) \in Nat
       /\ h(16) \in Nat /\ h(32) \in Nat /\ h(64) \in Nat /\ h(128) \in Nat
  BY <1>1, <1>2, <1>3, <1>4, <1>5, <1>6, <1>7, <1>8, <1>9, <1>10
<1>12. /\ h(1) = 2 * h(2) + (h(1) % 2) /\ h(2) = 2 * h(4) + (h(2) % 2) /\ h(4) = 2 * h(8) + (h(4) % 2)
       /\ h(8) = 2 * h(16) + (h(8) % 2) /\ h(16) = 2 * h(32) + (h(16) % 2)
       /\ h(32) = 2 * h(64) + (h(32) % 2) /\ h(64) = 2 * h(128) + (h(64) % 2)
  BY <1>1, <1>4, <1>5, <1>6, <1>7, <1>8, <1>9, <1>10, <1>11
<1>13. h(128) = h(128) % 2
  <2>1. h(128) < 2
    BY <1>2 DEF h
  <2> QED BY <1>11, <2>1
<1> DEFINE r(m) == h(m) % 2
<1>14. x = r(1) + 2 * r(2) + 4 * r(4) + 8 * r(8) + 16 * r(16) + 32 * r(32) + 64 * r(64) + 128 * r(128)
  <2>1. /\ r(1) \in Nat /\ r(2) \in Nat /\ r(4) \in Nat /\ r(8) \in Nat
        /\ r(16) \in Nat /\ r(32) \in Nat /\ r(64) \in Nat /\ r(128) \in Nat
    BY <1>11
  <2>2. /\ h(1) = 2 * h(2) + r(1) /\ h(2) = 2 * h(4) + r(2) /\ h(4) = 2 * h(8) + r(4)
        /\ h(8) = 2 * h(16) + r(8) /\ h(16) = 2 * h(32) + r(16)
        /\ h(32) = 2 * h(64) + r(32) /\ h(64) = 2 * h(128) + r(64) /\ h(128) = r(128)
    BY <1>12, <1>13
  <2> HIDE DEF r
  <2> QED BY <1>3, <1>11, <2>1, <2>2
<1> QED BY <1>14 DEF r, h

\* Flipping one bit of a byte flips that bit and no other.
Flipped(byte, mask) == IF Has(byte, mask) THEN byte - mask ELSE byte + mask

LEMMA FlipOne ==
    ASSUME NEW byte \in Byte, NEW mask \in BitMasks
    PROVE  /\ Flipped(byte, mask) \in Byte
           /\ Has(Flipped(byte, mask), mask) <=> ~Has(byte, mask)
           /\ \A m \in BitMasks \ {mask} : Has(Flipped(byte, mask), m) <=> Has(byte, m)
<1> DEFINE c(m) == (byte \div m) % 2
           d(m) == IF m = mask THEN 1 - c(m) ELSE c(m)
           f == Flipped(byte, mask)
<1>1. \A m \in BitMasks : c(m) \in 0..1 /\ (Has(byte, m) <=> c(m) = 1)
  <2> SUFFICES ASSUME NEW m \in BitMasks PROVE c(m) \in 0..1 /\ (Has(byte, m) <=> c(m) = 1)
    OBVIOUS
  <2>1. byte \div m \in Nat
    BY Division DEF Byte, BitMasks
  <2>2. \A q \in Nat : q % 2 \in 0..1
    OBVIOUS
  <2> QED BY <2>1, <2>2 DEF Has
<1>2. byte = c(1) + 2 * c(2) + 4 * c(4) + 8 * c(8) + 16 * c(16) + 32 * c(32)
               + 64 * c(64) + 128 * c(128)
  BY ByteIsSum
<1>3. f = IF c(mask) = 1 THEN byte - mask ELSE byte + mask
  BY <1>1 DEF Flipped
<1> HIDE DEF c, f
<1>4. \A m \in BitMasks : d(m) \in 0..1
  BY <1>1
<1>5. f = d(1) + 2 * d(2) + 4 * d(4) + 8 * d(8) + 16 * d(16) + 32 * d(32)
            + 64 * d(64) + 128 * d(128)
  <2>1. /\ c(1) \in 0..1 /\ c(2) \in 0..1 /\ c(4) \in 0..1 /\ c(8) \in 0..1
        /\ c(16) \in 0..1 /\ c(32) \in 0..1 /\ c(64) \in 0..1 /\ c(128) \in 0..1
    BY <1>1 DEF BitMasks
  <2>2. CASE mask = 1
    BY <1>2, <1>3, <2>1, <2>2
  <2>3. CASE mask = 2
    BY <1>2, <1>3, <2>1, <2>3
  <2>4. CASE mask = 4
    BY <1>2, <1>3, <2>1, <2>4
  <2>5. CASE mask = 8
    BY <1>2, <1>3, <2>1, <2>5
  <2>6. CASE mask = 16
    BY <1>2, <1>3, <2>1, <2>6
  <2>7. CASE mask = 32
    BY <1>2, <1>3, <2>1, <2>7
  <2>8. CASE mask = 64
    BY <1>2, <1>3, <2>1, <2>8
  <2>9. CASE mask = 128
    BY <1>2, <1>3, <2>1, <2>9
  <2> QED BY <2>2, <2>3, <2>4, <2>5, <2>6, <2>7, <2>8, <2>9 DEF BitMasks
<1> HIDE DEF d
<1>6. /\ f \in Byte
      /\ Has(f, 1) <=> d(1) = 1
      /\ Has(f, 2) <=> d(2) = 1
      /\ Has(f, 4) <=> d(4) = 1
      /\ Has(f, 8) <=> d(8) = 1
      /\ Has(f, 16) <=> d(16) = 1
      /\ Has(f, 32) <=> d(32) = 1
      /\ Has(f, 64) <=> d(64) = 1
      /\ Has(f, 128) <=> d(128) = 1
  <2>1. /\ d(1) \in 0..1 /\ d(2) \in 0..1 /\ d(4) \in 0..1 /\ d(8) \in 0..1
        /\ d(16) \in 0..1 /\ d(32) \in 0..1 /\ d(64) \in 0..1 /\ d(128) \in 0..1
    BY <1>4 DEF BitMasks
  <2> QED BY <1>5, <2>1, BitsOfSum
<1>7. \A m \in BitMasks : Has(f, m) <=> d(m) = 1
  BY <1>6 DEF BitMasks
<1>8. Has(f, mask) <=> ~Has(byte, mask)
  BY <1>1, <1>7 DEF d
<1>9. \A m \in BitMasks \ {mask} : Has(f, m) <=> Has(byte, m)
  BY <1>1, <1>7 DEF d
<1> QED BY <1>6, <1>8, <1>9 DEF f

LEMMA ZeroHasNoBit ==
    ASSUME NEW x \in Byte
    PROVE  x = 0 <=> \A m \in BitMasks : ~Has(x, m)
BY DEF Has, Byte, BitMasks

LEMMA XorBits ==
    ASSUME NEW a \in Byte, NEW b \in Byte
    PROVE  /\ Xor(a, b) \in Byte
           /\ \A m \in BitMasks : Has(Xor(a, b), m) <=> ~(Has(a, m) <=> Has(b, m))
<1> DEFINE c(m) == ((a \div m) + (b \div m)) % 2
<1>1. ASSUME NEW m \in BitMasks
      PROVE  c(m) \in 0..1 /\ (c(m) = 1 <=> ~(Has(a, m) <=> Has(b, m)))
  <2>1. a \div m \in Nat /\ b \div m \in Nat
    BY Division DEF Byte, BitMasks
  <2>2. \A p, q \in Nat : /\ (p + q) % 2 \in 0..1
                          /\ (p + q) % 2 = 1 <=> ~(p % 2 = 1 <=> q % 2 = 1)
    OBVIOUS
  <2> QED BY <2>1, <2>2 DEF Has
<1>2. Xor(a, b) = c(1) + 2 * c(2) + 4 * c(4) + 8 * c(8) + 16 * c(16) + 32 * c(32)
                    + 64 * c(64) + 128 * c(128)
  <2>1. \A m \in BitMasks : c(m) \in Int
    BY <1>1
  <2> QED BY <2>1 DEF Xor, BitMasks
<1> HIDE DEF c
<1>3. \A m \in BitMasks : c(m) \in 0..1
  BY <1>1
<1>4. /\ Xor(a, b) \in Byte
      /\ Has(Xor(a, b), 1) <=> c(1) = 1
      /\ Has(Xor(a, b), 2) <=> c(2) = 1
      /\ Has(Xor(a, b), 4) <=> c(4) = 1
      /\ Has(Xor(a, b), 8) <=> c(8) = 1
      /\ Has(Xor(a, b), 16) <=> c(16) = 1
      /\ Has(Xor(a, b), 32) <=> c(32) = 1
      /\ Has(Xor(a, b), 64) <=> c(64) = 1
      /\ Has(Xor(a, b), 128) <=> c(128) = 1
  <2>1. /\ c(1) \in 0..1 /\ c(2) \in 0..1 /\ c(4) \in 0..1 /\ c(8) \in 0..1
        /\ c(16) \in 0..1 /\ c(32) \in 0..1 /\ c(64) \in 0..1 /\ c(128) \in 0..1
    BY <1>3 DEF BitMasks
  <2> QED BY <1>2, <2>1, BitsOfSum
<1> QED BY <1>1, <1>4 DEF BitMasks

LEMMA XorItself ==
    ASSUME NEW a \in Byte
    PROVE  Xor(a, a) = 0
BY XorBits, ZeroHasNoBit

\* The check byte, from byte to byte.
LEMMA Sum8Is ==
    ASSUME NEW s \in Seq(Byte)
    PROVE  \E acc \in [0..Len(s) -> Byte] :
              /\ acc[0] = 0
              /\ \A i \in 1..Len(s) : acc[i] = Xor(acc[i - 1], s[i])
              /\ Sum8(s) = acc[Len(s)]
<1> DEFINE n == Len(s)
           step == [p \in Byte \X Byte |-> Xor(p[1], p[2])]
           Fold(f) == f = [T \in SUBSET DOMAIN s |->
                             IF T = {} THEN 0 ELSE Xor(f[T \ {Max(T)}], s[Max(T)])]
           chosen == CHOOSE f : Fold(f)
<1>1. n \in Nat /\ s \in [1..n -> Byte] /\ DOMAIN s = 1..n
  BY LenProperties
<1>2. Sum8(s) = chosen[DOMAIN s]
  BY DEF Sum8, FoldLeft, MapThenFoldSet
<1> HIDE DEF n
<1>3. \A a, b \in Byte : step[<<a, b>>] = Xor(a, b) /\ Xor(a, b) \in Byte
  BY XorBits
<1>4. step \in [Byte \X Byte -> Byte]
  BY XorBits
<1>5. 0 \in Byte
  BY DEF Byte
<1>6. PICK g \in [SUBSET (1..n) -> Byte] : Folds(g, n, s, step, 0)
  <2> HIDE DEF step
  <2> QED BY <1>1, <1>4, <1>5, FoldExists
<1>7. ASSUME NEW T \in SUBSET (1..n)
      PROVE  g[T] = IF T = {} THEN 0 ELSE Xor(g[T \ {Max(T)}], s[Max(T)])
  <2> HIDE DEF step
  <2>1. T # {} => T \ {Max(T)} \in SUBSET (1..n) /\ Max(T) \in 1..n
    BY <1>1, MaxExists
  <2>2. T # {} => g[T \ {Max(T)}] \in Byte /\ s[Max(T)] \in Byte
    BY <1>1, <2>1
  <2> QED BY <1>3, <1>6, <2>2 DEF Folds
<1>8. Fold(g)
  BY <1>1, <1>7
<1>9. Fold(chosen)
  <2> HIDE DEF Fold
  <2> QED BY <1>8
<1> HIDE DEF chosen
<1>10. \A T \in SUBSET (1..n) : chosen[T] = IF T = {} THEN 0 ELSE Xor(chosen[T \ {Max(T)}], s[Max(T)])
  BY <1>1, <1>9
<1>11. chosen[1..0] = 0 /\ \A i \in 1..n : chosen[1..i] = Xor(chosen[1..(i - 1)], s[i])
  <2>1. \A i \in 1..n : chosen[1..i] = Xor(chosen[1..(i - 1)], s[i])
    BY <1>1, <1>10, LastOfPrefix
  <2>2. 1..0 = {} /\ {} \in SUBSET (1..n)
    OBVIOUS
  <2> QED BY <1>10, <2>1, <2>2
<1> DEFINE acc == [i \in 0..n |-> chosen[1..i]]
<1>12. acc[0] = 0 /\ \A i \in 1..n : acc[i] = Xor(acc[i - 1], s[i])
  <2>1. \A i \in 1..n : i - 1 \in 0..n /\ i \in 0..n
    BY <1>1
  <2> QED BY <1>1, <1>11, <2>1
<1>13. Sum8(s) = acc[n]
  BY <1>1, <1>2
<1>14. acc \in [0..n -> Byte]
  <2> DEFINE S == {k \in 0..n : acc[k] \in Byte}
  <2>1. ASSUME NEW k \in 0..n, \A j \in 0..n : j < k => j \in S PROVE k \in S
    <3>1. CASE k = 0
      BY <1>5, <1>12, <3>1
    <3>2. CASE k # 0
      <4>1. k \in 1..n /\ k - 1 \in 0..n /\ k - 1 < k
        BY <1>1, <3>2
      <4>2. acc[k - 1] \in Byte /\ s[k] \in Byte
        BY <1>1, <2>1, <4>1
      <4> HIDE DEF acc
      <4> QED BY <1>12, <4>1, <4>2, XorBits
    <3> QED BY <3>1, <3>2
  <2>2. 0 \in Nat
    OBVIOUS
  <2>3. 0..n \subseteq S
    <3> HIDE DEF S
    <3> QED BY <1>1, <2>1, <2>2, StrongInduction
  <2>4. \A k \in 0..n : acc[k] \in Byte
    BY <2>3
  <2> QED BY <2>4
<1> HIDE DEF acc
<1> QED BY <1>12, <1>13, <1>14 DEF n

\* A prefix, element by element.
LEMMA PrefixElements ==
    ASSUME NEW S, NEW s \in Seq(S), NEW t \in Seq(S)
    PROVE  IsPrefix(s, t) <=> Len(s) <= Len(t) /\ \A i \in 1..Len(s) : s[i] = t[i]
<1>1. Len(s) \in Nat /\ Len(t) \in Nat
  BY LenProperties
<1>2. SubSeq(s, 1, Len(s)) = [i \in 1..Len(s) |-> s[i]]
  BY <1>1 DEF SubSeq
<1>3. SubSeq(t, 1, Len(s)) = [i \in 1..Len(s) |-> t[i]]
  BY <1>1 DEF SubSeq
<1> QED BY <1>1, <1>2, <1>3 DEF IsPrefix

\* The number of a nibble's interface bytes, mask by mask.
LEMMA InterfaceByteCount ==
    ASSUME NEW presence
    PROVE  /\ InterfaceBytes(presence) \in 0..3
           /\ InterfaceBytes(presence) = (IF Has(presence, 1) THEN 1 ELSE 0)
                                       + (IF Has(presence, 2) THEN 1 ELSE 0)
                                       + (IF Has(presence, 4) THEN 1 ELSE 0)
<1> DEFINE T == {mask \in {1, 2, 4} : Has(presence, mask)}
<1>1. T \subseteq 1..4
  OBVIOUS
<1>2. IsFiniteSet(T)
  <2>1. IsFiniteSet(1..4)
    <3>1. 1 \in Int /\ 4 \in Int
      OBVIOUS
    <3> QED BY <3>1, FS_Interval, Zenon
  <2> HIDE DEF T
  <2> QED BY <1>1, <2>1, FS_Subset
<1>3. /\ 1 \in T <=> Has(presence, 1)
      /\ 2 \in T <=> Has(presence, 2)
      /\ 4 \in T <=> Has(presence, 4)
  OBVIOUS
<1>4. T \subseteq {1, 2, 4} /\ InterfaceBytes(presence) = Cardinality(T)
  BY DEF InterfaceBytes
<1> HIDE DEF T
<1>5. Cardinality(T) = Cardinality(T \ {1}) + (IF 1 \in T THEN 1 ELSE 0)
  BY <1>2, CountOne
<1>6. IsFiniteSet(T \ {1}) /\ IsFiniteSet((T \ {1}) \ {2})
  BY <1>2, FS_RemoveElement
<1>7. Cardinality(T \ {1}) = Cardinality((T \ {1}) \ {2}) + (IF 2 \in T \ {1} THEN 1 ELSE 0)
  BY <1>6, CountOne
<1>8. Cardinality((T \ {1}) \ {2}) = Cardinality(((T \ {1}) \ {2}) \ {4}) + (IF 4 \in (T \ {1}) \ {2} THEN 1 ELSE 0)
  BY <1>6, CountOne
<1>9. ((T \ {1}) \ {2}) \ {4} = {}
  BY <1>4
<1>10. Cardinality({}) = 0
  BY FS_EmptySet
<1>11. Cardinality(T) = (IF 1 \in T THEN 1 ELSE 0) + (IF 2 \in T THEN 1 ELSE 0) + (IF 4 \in T THEN 1 ELSE 0)
  BY <1>5, <1>7, <1>8, <1>9, <1>10
<1> QED BY <1>3, <1>4, <1>11

-----------------------------------------------------------------------------
\* The loop over the groups.

\* What one round makes of the rounds behind it.
GroupStep(bytes_, walk, state) ==
    LET presence == High(bytes_[state.at])
        offset   == state.at + InterfaceBytes(presence)
    IN  IF offset > Len(bytes_) \/ (offset = Len(bytes_) /\ Has(presence, 8))
        THEN Rejected
        ELSE IF ~Has(presence, 8)
             THEN [offset |-> offset, hasTCK |-> state.hasTCK]
             ELSE walk[[at     |-> offset + 1,
                        hasTCK |-> state.hasTCK \/ Low(bytes_[offset + 1]) # 0]]

Places(bytes_) == [at : 2..Len(bytes_), hasTCK : BOOLEAN]

Walks(walk, bytes_) ==
    walk = [state \in Places(bytes_) |-> GroupStep(bytes_, walk, state)]

LEMMA WalkExists ==
    ASSUME NEW b, Len(b) \in Nat
    PROVE  \E walk : Walks(walk, b)
<1> DEFINE D == Places(b)
           n == Len(b)
           V == {Rejected} \cup [offset : Nat, hasTCK : BOOLEAN]
           body == [p \in [D -> V] \X D |-> GroupStep(b, p[1], p[2])]
           rank == [x \in D |-> n - x.at]
<1>1. rank \in [D -> 0..n]
  BY DEF Places
<1>2. ASSUME NEW f \in [D -> V], NEW x \in D
      PROVE  GroupStep(b, f, x) \in V
  <2> DEFINE presence == High(b[x.at])
             offset   == x.at + InterfaceBytes(presence)
  <2>1. offset \in Nat /\ x.at \in 2..n /\ x.hasTCK \in BOOLEAN /\ offset >= 2
    <3>1. x.at \in 2..n /\ x.hasTCK \in BOOLEAN
      BY DEF Places
    <3>2. InterfaceBytes(presence) \in Nat
      BY InterfaceByteCount
    <3> HIDE DEF presence, D
    <3> QED BY <3>1, <3>2
  <2>2. GroupStep(b, f, x) =
          IF offset > n \/ (offset = n /\ Has(presence, 8)) THEN Rejected
          ELSE IF ~Has(presence, 8) THEN [offset |-> offset, hasTCK |-> x.hasTCK]
          ELSE f[[at |-> offset + 1, hasTCK |-> x.hasTCK \/ Low(b[offset + 1]) # 0]]
    BY DEF GroupStep
  <2>3. offset < n => [at |-> offset + 1, hasTCK |-> x.hasTCK \/ Low(b[offset + 1]) # 0] \in D
    <3> HIDE DEF offset
    <3> QED BY <2>1 DEF Places
  <2> HIDE DEF presence, offset, D
  <2> QED BY <2>1, <2>2, <2>3
<1>3. body \in [[D -> V] \X D -> V]
  <2> HIDE DEF D, V
  <2> QED BY <1>2
<1>4. ASSUME NEW f \in [D -> V], NEW g \in [D -> V], NEW x \in D,
             \A y \in D : rank[y] < rank[x] => f[y] = g[y]
      PROVE  GroupStep(b, f, x) = GroupStep(b, g, x)
  <2> DEFINE presence == High(b[x.at])
             offset   == x.at + InterfaceBytes(presence)
             next     == [at |-> offset + 1, hasTCK |-> x.hasTCK \/ Low(b[offset + 1]) # 0]
  <2>1. offset \in Nat /\ x.at \in 2..n /\ x.hasTCK \in BOOLEAN /\ offset >= x.at
    <3>1. x.at \in 2..n /\ x.hasTCK \in BOOLEAN
      BY DEF Places
    <3>2. InterfaceBytes(presence) \in Nat
      BY InterfaceByteCount
    <3> HIDE DEF presence, D
    <3> QED BY <3>1, <3>2
  <2>2. ASSUME offset < n PROVE f[next] = g[next]
    <3>1. next \in D /\ next.at = offset + 1
      <4> HIDE DEF offset
      <4> QED BY <2>1, <2>2 DEF Places
    <3>2. rank[next] = n - (offset + 1) /\ rank[x] = n - x.at
      <4> HIDE DEF next, D
      <4> QED BY <3>1
    <3>3. rank[next] < rank[x]
      <4> HIDE DEF next, rank, offset
      <4> QED BY <2>1, <2>2, <3>2
    <3> QED BY <1>4, <3>1, <3>3
  <2>3. \A h \in {f, g} : GroupStep(b, h, x) =
          IF offset > n \/ (offset = n /\ Has(presence, 8)) THEN Rejected
          ELSE IF ~Has(presence, 8) THEN [offset |-> offset, hasTCK |-> x.hasTCK]
          ELSE h[next]
    BY DEF GroupStep
  <2>4. n \in Nat
    OBVIOUS
  <2> HIDE DEF presence, offset, D, next, n
  <2> QED BY <2>1, <2>2, <2>3, <2>4
<1>5. \A f \in [D -> V], x \in D : body[<<f, x>>] = GroupStep(b, f, x)
  <2> HIDE DEF D, V
  <2> QED OBVIOUS
<1>6. V # {}
  OBVIOUS
<1>7. WellRanked(D, V, n, rank, body)
  <2> HIDE DEF D, V, body, rank
  <2>1. \A f, g \in [D -> V], x \in D :
          (\A y \in D : rank[y] < rank[x] => f[y] = g[y]) => body[<<f, x>>] = body[<<g, x>>]
    BY <1>4, <1>5
  <2>2. n \in Nat
    OBVIOUS
  <2> HIDE DEF n
  <2> QED BY <1>1, <1>3, <1>6, <2>1, <2>2 DEF WellRanked
<1>8. PICK f \in [D -> V] : \A x \in D : f[x] = GroupStep(b, f, x)
  <2> HIDE DEF D, V, n, rank, body
  <2>1. PICK f \in [D -> V] : Solves(f, D, body)
    BY <1>7, RecursionExists
  <2> QED BY <1>5, <2>1 DEF Solves
<1>9. f = [x \in D |-> GroupStep(b, f, x)]
  <2> HIDE DEF D, V
  <2> QED BY <1>8
<1> QED BY <1>9 DEF Walks

\* The result of the loop, as the value of a function that satisfies its rounds.
LEMMA GroupsIs ==
    ASSUME NEW b, Len(b) \in Nat
    PROVE  \E walk : /\ Groups(b) = walk[[at |-> 2, hasTCK |-> FALSE]]
                     /\ \A state \in Places(b) : walk[state] = GroupStep(b, walk, state)
<1> DEFINE walk == CHOOSE walk : Walks(walk, b)
<1>1. Groups(b) = walk[[at |-> 2, hasTCK |-> FALSE]]
  BY DEF Groups, Walks, GroupStep, Places
<1>2. Walks(walk, b)
  BY WalkExists
<1> HIDE DEF walk
<1>3. \A state \in Places(b) : walk[state] = GroupStep(b, walk, state)
  BY <1>2 DEF Walks
<1> QED BY <1>1, <1>3

-----------------------------------------------------------------------------
\* The presence bytes of the grammar.

\* A presence byte leads past the interface bytes it announces.
LEMMA LinkCount ==
    ASSUME NEW byte
    PROVE  /\ Links(byte) \in 0..4
           /\ Links(byte) = (IF Has(byte, 16) THEN 1 ELSE 0) + (IF Has(byte, 32) THEN 1 ELSE 0)
                              + (IF Has(byte, 64) THEN 1 ELSE 0) + (IF Has(byte, 128) THEN 1 ELSE 0)
<1> DEFINE T == {mask \in {16, 32, 64, 128} : Has(byte, mask)}
           T1 == T \ {16}
           T2 == T1 \ {32}
           T3 == T2 \ {64}
<1>1. T \subseteq 16..128
  OBVIOUS
<1>2. IsFiniteSet(T)
  <2>1. IsFiniteSet(16..128)
    <3>1. 16 \in Int /\ 128 \in Int
      OBVIOUS
    <3> QED BY <3>1, FS_Interval, Zenon
  <2> HIDE DEF T
  <2> QED BY <1>1, <2>1, FS_Subset
<1>3. /\ 16 \in T <=> Has(byte, 16)
      /\ 32 \in T1 <=> Has(byte, 32)
      /\ 64 \in T2 <=> Has(byte, 64)
      /\ 128 \in T3 <=> Has(byte, 128)
  OBVIOUS
<1>4. T3 \ {128} = {} /\ Links(byte) = Cardinality(T)
  BY DEF Links
<1> HIDE DEF T
<1>5. IsFiniteSet(T1) /\ Cardinality(T) = Cardinality(T1) + (IF 16 \in T THEN 1 ELSE 0)
  BY <1>2, CountOne, FS_RemoveElement
<1> HIDE DEF T1
<1>6. IsFiniteSet(T2) /\ Cardinality(T1) = Cardinality(T2) + (IF 32 \in T1 THEN 1 ELSE 0)
  BY <1>5, CountOne, FS_RemoveElement
<1> HIDE DEF T2
<1>7. IsFiniteSet(T3) /\ Cardinality(T2) = Cardinality(T3) + (IF 64 \in T2 THEN 1 ELSE 0)
  BY <1>6, CountOne, FS_RemoveElement
<1> HIDE DEF T3
<1>8. Cardinality(T3) = Cardinality(T3 \ {128}) + (IF 128 \in T3 THEN 1 ELSE 0)
  BY <1>7, CountOne
<1>9. Cardinality({}) = 0
  BY FS_EmptySet
<1> QED BY <1>3, <1>4, <1>5, <1>6, <1>7, <1>8, <1>9

\* A link is a round of the loop: the interface bytes, and the TD if there is one.
LEMMA LinkIsRound ==
    ASSUME NEW byte \in Byte
    PROVE  /\ Has(High(byte), 8) <=> byte >= 128
           /\ Links(byte) = InterfaceBytes(High(byte)) + (IF byte >= 128 THEN 1 ELSE 0)
<1>1. /\ Has(High(byte), 1) <=> Has(byte, 16)
      /\ Has(High(byte), 2) <=> Has(byte, 32)
      /\ Has(High(byte), 4) <=> Has(byte, 64)
      /\ Has(High(byte), 8) <=> Has(byte, 128)
      /\ Has(byte, 128) <=> byte >= 128
  BY DEF Has, High, Byte
<1> QED BY <1>1, LinkCount, InterfaceByteCount

\* One presence byte announces another.
Announces(b, q, p) ==
    /\ q <= Len(b)
    /\ b[q] >= 128
    /\ q + Links(b[q]) = p

\* The presence bytes are T0 and what they announce.
LEMMA PresenceBytesAre ==
    ASSUME NEW b \in Seq(Byte)
    PROVE  /\ PresenceBytes(b) \subseteq 2..(Len(b) + 4)
           /\ \A p \in 2..(Len(b) + 4) :
                 p \in PresenceBytes(b) <=> p = 2 \/ \E q \in PresenceBytes(b) : Announces(b, q, p)
           /\ \A q \in PresenceBytes(b) : q <= Len(b) /\ b[q] >= 128 =>
                 q + Links(b[q]) \in PresenceBytes(b) /\ Links(b[q]) \in 1..4
<1> DEFINE n == Len(b) + 4
           D == 2..n
           before(p) == {i \in (p - 4)..(p - 1) : i \in 2..Len(b)}
           Body(f, p) == \/ p = 2
                         \/ \E q \in before(p) : b[q] >= 128 /\ q + Links(b[q]) = p /\ f[q]
           Rec(f) == f = [p \in D |-> Body(f, p)]
           isOne == CHOOSE f : Rec(f)
           body == [x \in [D -> BOOLEAN] \X D |-> Body(x[1], x[2])]
           rank == [p \in D |-> p]
<1>1. PresenceBytes(b) = {p \in D : isOne[p]}
  BY DEF PresenceBytes
<1>2. Len(b) \in Nat /\ n \in Nat /\ \A i \in 1..Len(b) : b[i] \in Byte
  BY LenProperties, ElementOfSeq
<1>3. \A f \in [D -> BOOLEAN], p \in D : body[<<f, p>>] = Body(f, p)
  <2> HIDE DEF D, Body
  <2> QED OBVIOUS
<1>4. \A f, p : Body(f, p) \in BOOLEAN
  OBVIOUS
<1>5. body \in [[D -> BOOLEAN] \X D -> BOOLEAN]
  <2> HIDE DEF D, Body
  <2> QED BY <1>4
<1>6. \A p \in D : \A q \in before(p) : q \in D /\ q < p
  BY <1>2
<1>7. rank \in [D -> 0..n]
  BY <1>2
<1>8. ASSUME NEW f \in [D -> BOOLEAN], NEW g \in [D -> BOOLEAN], NEW p \in D,
             \A q \in D : rank[q] < rank[p] => f[q] = g[q]
      PROVE  Body(f, p) = Body(g, p)
  <2>1. \A q \in before(p) : f[q] = g[q]
    <3> HIDE DEF before, D
    <3>1. \A q \in D : rank[q] = q
      OBVIOUS
    <3> HIDE DEF rank
    <3> QED BY <1>6, <1>8, <3>1
  <2> HIDE DEF before
  <2> QED BY <2>1
<1>9. WellRanked(D, BOOLEAN, n, rank, body)
  <2> HIDE DEF D, Body, body, rank
  <2>1. \A f, g \in [D -> BOOLEAN], x \in D :
          (\A y \in D : rank[y] < rank[x] => f[y] = g[y]) => body[<<f, x>>] = body[<<g, x>>]
    BY <1>3, <1>8
  <2> HIDE DEF n
  <2> QED BY <1>2, <1>5, <1>7, <2>1 DEF WellRanked
<1>10. PICK g \in [D -> BOOLEAN] : Solves(g, D, body)
  <2> HIDE DEF D, rank, body, n
  <2> QED BY <1>9, RecursionExists
<1>11. Rec(g)
  <2> HIDE DEF D, Body, body
  <2> QED BY <1>3, <1>10 DEF Solves
<1>12. Rec(isOne)
  <2> HIDE DEF Rec
  <2> QED BY <1>11
<1> HIDE DEF isOne
<1>13. \A p \in D : isOne[p] = Body(isOne, p)
  <2> HIDE DEF D, Body
  <2> QED BY <1>12
<1>14. \A p \in D : p \in PresenceBytes(b) <=> Body(isOne, p)
  <2> HIDE DEF Body
  <2> QED BY <1>1, <1>13
<1>15. ASSUME NEW q \in PresenceBytes(b), q <= Len(b), b[q] >= 128
       PROVE  Links(b[q]) \in 1..4 /\ q \in 2..Len(b) /\ q + Links(b[q]) \in D
  <2>1. q \in 2..Len(b) /\ b[q] \in Byte
    BY <1>1, <1>2, <1>15
  <2>2. InterfaceBytes(High(b[q])) \in 0..3
    BY InterfaceByteCount
  <2>3. Links(b[q]) \in 1..4
    BY <1>15, <2>1, <2>2, LinkIsRound
  <2> QED BY <1>2, <2>1, <2>3
<1>16. \A p \in D : Body(isOne, p) <=> p = 2 \/ \E q \in PresenceBytes(b) : Announces(b, q, p)
  <2> SUFFICES ASSUME NEW p \in D
               PROVE  Body(isOne, p) <=> p = 2 \/ \E q \in PresenceBytes(b) : Announces(b, q, p)
    OBVIOUS
  <2>1. ASSUME NEW q \in before(p), b[q] >= 128, q + Links(b[q]) = p, isOne[q]
        PROVE  q \in PresenceBytes(b) /\ Announces(b, q, p)
    BY <1>1, <1>2, <1>6, <2>1 DEF Announces
  <2>2. ASSUME NEW q \in PresenceBytes(b), Announces(b, q, p)
        PROVE  q \in before(p) /\ b[q] >= 128 /\ q + Links(b[q]) = p /\ isOne[q]
    <3>1. q <= Len(b) /\ b[q] >= 128 /\ q + Links(b[q]) = p
      BY <2>2 DEF Announces
    <3>2. Links(b[q]) \in 1..4 /\ q \in 2..Len(b)
      BY <1>15, <3>1
    <3>3. q \in before(p)
      BY <1>2, <3>1, <3>2
    <3> QED BY <1>1, <3>1, <3>3
  <2> HIDE DEF before
  <2> QED BY <2>1, <2>2
<1>17. \A q \in PresenceBytes(b) : q <= Len(b) /\ b[q] >= 128 =>
          q + Links(b[q]) \in PresenceBytes(b) /\ Links(b[q]) \in 1..4
  <2> HIDE DEF Body, D
  <2> SUFFICES ASSUME NEW q \in PresenceBytes(b), q <= Len(b), b[q] >= 128
               PROVE  q + Links(b[q]) \in PresenceBytes(b) /\ Links(b[q]) \in 1..4
    OBVIOUS
  <2>1. q + Links(b[q]) \in D /\ Links(b[q]) \in 1..4
    BY <1>15
  <2>2. Announces(b, q, q + Links(b[q]))
    BY DEF Announces
  <2> QED BY <1>14, <1>16, <2>1, <2>2
<1> HIDE DEF Body
<1> QED BY <1>1, <1>14, <1>16, <1>17

\* Presence bytes are in a chain: each announces the next one.
LEMMA PresenceChain ==
    ASSUME NEW b \in Seq(Byte), NEW i \in PresenceBytes(b), NEW p \in PresenceBytes(b), i < p
    PROVE  i <= Len(b) /\ b[i] >= 128 /\ i + Links(b[i]) <= p
<1> DEFINE n == Len(b) + 4
           P == PresenceBytes(b)
           S == {r \in 2..n : r \in P =>
                   \A j \in P : j < r => j <= Len(b) /\ b[j] >= 128 /\ j + Links(b[j]) <= r}
<1>1. Len(b) \in Nat /\ n \in Nat /\ P \subseteq 2..n /\ 2 \in Nat
  BY LenProperties, PresenceBytesAre
<1>2. \A r \in 2..n : r \in P <=> r = 2 \/ \E q \in P : Announces(b, q, r)
  BY PresenceBytesAre
<1>3. \A q \in P : q <= Len(b) /\ b[q] >= 128 => Links(b[q]) \in 1..4
  BY PresenceBytesAre
<1>4. ASSUME NEW r \in 2..n, \A s \in 2..n : s < r => s \in S
      PROVE  r \in S
  <2> SUFFICES ASSUME r \in P, NEW j \in P, j < r
               PROVE  j <= Len(b) /\ b[j] >= 128 /\ j + Links(b[j]) <= r
    OBVIOUS
  <2>1. j \in 2..n /\ r # 2
    BY <1>1
  <2>2. PICK q \in P : Announces(b, q, r)
    BY <1>2, <2>1
  <2>3. q <= Len(b) /\ b[q] >= 128 /\ q + Links(b[q]) = r
    BY <2>2 DEF Announces
  <2>4. Links(b[q]) \in 1..4 /\ q \in 2..n /\ q < r
    BY <1>1, <1>3, <2>3
  <2>5. CASE q = j
    BY <1>1, <2>3, <2>4, <2>5
  <2>6. CASE j < q
    <3>1. j <= Len(b) /\ b[j] >= 128 /\ j + Links(b[j]) <= q
      BY <1>4, <2>4, <2>6
    <3>2. Links(b[j]) \in 1..4
      BY <1>3, <3>1
    <3> HIDE DEF n, P, S
    <3> QED BY <2>1, <2>4, <3>1, <3>2
  <2>7. CASE q < j
    <3>1. q + Links(b[q]) <= j
      BY <1>4, <2>1, <2>7
    <3> HIDE DEF n, P, S
    <3> QED BY <2>1, <2>3, <2>4, <3>1
  <2> HIDE DEF n, P, S
  <2> QED BY <2>1, <2>4, <2>5, <2>6, <2>7
<1>5. 2..n \subseteq S
  <2> HIDE DEF S, n, P
  <2> QED BY <1>1, <1>4, StrongInduction
<1> QED BY <1>1, <1>5

\* A presence byte that announces none is the last one, and its group the last.
LEMMA LastPresence ==
    ASSUME NEW b \in Seq(Byte), NEW i \in PresenceBytes(b), i <= Len(b), b[i] < 128
    PROVE  /\ \A p \in PresenceBytes(b) : p <= i
           /\ GroupsEnd(b) = i + Links(b[i])
<1> DEFINE P == PresenceBytes(b)
           ends == {p + Links(b[p]) : p \in P}
<1>1. Len(b) \in Nat /\ P \subseteq 2..(Len(b) + 4)
  BY LenProperties, PresenceBytesAre
<1>2. P \subseteq Nat /\ \A p \in P : Links(b[p]) \in 0..4
  BY <1>1, LinkCount
<1>3. b[i] \in Byte
  BY <1>1, ElementOfSeq
<1>4. ASSUME NEW p \in P PROVE p <= i
  <2>1. ~(i < p)
    <3> SUFFICES ASSUME i < p PROVE FALSE
      OBVIOUS
    <3>1. b[i] >= 128
      BY PresenceChain
    <3> QED BY <1>3, <3>1, HighOrLow
  <2>2. p \in Nat /\ i \in Nat
    BY <1>2
  <2> QED BY <2>1, <2>2
<1>5. ASSUME NEW p \in P PROVE p + Links(b[p]) <= i + Links(b[i])
  <2>1. CASE p < i
    <3>1. p + Links(b[p]) <= i
      BY <2>1, PresenceChain
    <3> QED BY <1>2, <3>1
  <2>2. CASE p = i
    BY <1>2, <2>2
  <2>3. p \in Nat /\ i \in Nat
    BY <1>2
  <2> QED BY <1>4, <2>1, <2>2, <2>3
<1>6. ends \in SUBSET Int /\ i + Links(b[i]) \in ends
  BY <1>2
<1>7. \A e \in ends : e <= i + Links(b[i])
  BY <1>5
<1>8. Max(ends) = i + Links(b[i])
  <2> HIDE DEF ends
  <2> QED BY <1>6, <1>7, MaxIs
<1> QED BY <1>4, <1>8 DEF GroupsEnd

-----------------------------------------------------------------------------
\* The loop finds what the grammar says.

\* The groups fit into the bytes.
GroupsFit(b) == (\A p \in PresenceBytes(b) : p <= Len(b)) /\ GroupsEnd(b) <= Len(b)

Protocols(b, i) == \E p \in PresenceBytes(b) : i < p /\ Low(b[p]) # 0

FromHere(b, i, h) ==
    IF GroupsFit(b) THEN [offset |-> GroupsEnd(b), hasTCK |-> h \/ Protocols(b, i)] ELSE Rejected

LEMMA GroupsFollow ==
    ASSUME NEW b \in Seq(Byte), NEW walk,
           \A state \in Places(b) : walk[state] = GroupStep(b, walk, state)
    PROVE  \A i \in 2..Len(b) : i \in PresenceBytes(b) =>
              \A h \in BOOLEAN : walk[[at |-> i, hasTCK |-> h]] = FromHere(b, i, h)
<1> DEFINE P == PresenceBytes(b)
           n == Len(b)
           S == {i \in 2..n : i \in P =>
                   \A h \in BOOLEAN : walk[[at |-> i, hasTCK |-> h]] = FromHere(b, i, h)}
<1>1. n \in Nat /\ 2 \in Nat /\ P \subseteq 2..(n + 4) /\ \A i \in 1..n : b[i] \in Byte
  BY LenProperties, ElementOfSeq, PresenceBytesAre
<1>2. ASSUME NEW i \in 2..n, \A j \in 2..n : j > i => j \in S
      PROVE  i \in S
  <2> SUFFICES ASSUME i \in P, NEW h \in BOOLEAN
               PROVE  walk[[at |-> i, hasTCK |-> h]] = FromHere(b, i, h)
    OBVIOUS
  <2> DEFINE presence == High(b[i])
             offset   == i + InterfaceBytes(presence)
             next     == [at |-> offset + 1, hasTCK |-> h \/ Low(b[offset + 1]) # 0]
             here     == [at |-> i, hasTCK |-> h]
  <2>1. here \in Places(b) /\ here.at = i /\ here.hasTCK = h
    BY DEF Places
  <2>2. walk[here] =
          IF offset > n \/ (offset = n /\ Has(presence, 8)) THEN Rejected
          ELSE IF ~Has(presence, 8) THEN [offset |-> offset, hasTCK |-> h]
          ELSE walk[next]
    <3> HIDE DEF here
    <3>1. walk[here] = GroupStep(b, walk, here)
      BY <2>1
    <3> QED BY <2>1, <3>1 DEF GroupStep
  <2>3. b[i] \in Byte /\ i <= n /\ InterfaceBytes(presence) \in 0..3 /\ offset \in Nat /\ i \in Nat
    BY <1>1, InterfaceByteCount
  <2>4. /\ Has(presence, 8) <=> b[i] >= 128
        /\ i + Links(b[i]) = offset + (IF b[i] >= 128 THEN 1 ELSE 0)
    <3>1. /\ Has(presence, 8) <=> b[i] >= 128
          /\ Links(b[i]) = InterfaceBytes(presence) + (IF b[i] >= 128 THEN 1 ELSE 0)
      BY <2>3, LinkIsRound
    <3> QED BY <2>3, <3>1
  <2> HIDE DEF here, next, offset, presence
  <2>5. CASE b[i] < 128
    <3>1. (\A p \in P : p <= i) /\ GroupsEnd(b) = i + Links(b[i])
      BY <2>3, <2>5, LastPresence
    <3>2. ~(b[i] >= 128)
      BY <2>3, <2>5, HighOrLow
    <3>3. GroupsEnd(b) = offset
      BY <2>3, <2>4, <3>1, <3>2
    <3>4. \A p \in P : p <= n /\ ~(i < p)
      BY <1>1, <2>3, <3>1
    <3>5. ~Protocols(b, i)
      BY <3>4 DEF Protocols
    <3>6. GroupsFit(b) <=> offset <= n
      BY <3>3, <3>4 DEF GroupsFit
    <3>7. offset > n <=> ~(offset <= n)
      BY <1>1, <2>3
    <3>8. walk[here] = IF offset > n THEN Rejected ELSE [offset |-> offset, hasTCK |-> h]
      BY <2>2, <2>4, <3>2
    <3>9. FromHere(b, i, h) = IF offset <= n THEN [offset |-> offset, hasTCK |-> h \/ FALSE] ELSE Rejected
      BY <3>3, <3>5, <3>6 DEF FromHere
    <3>10. (h \/ FALSE) = h
      OBVIOUS
    <3> QED BY <3>7, <3>8, <3>9, <3>10 DEF here
  <2>6. CASE b[i] >= 128
    <3>1. offset + 1 \in P /\ i < offset + 1
      <4>1. i + Links(b[i]) \in P
        BY <2>3, <2>6, PresenceBytesAre
      <4>2. i + Links(b[i]) = offset + 1
        BY <2>4, <2>6
      <4>3. i < offset + 1
        BY <2>3 DEF offset
      <4> QED BY <4>1, <4>2, <4>3
    <3>2. CASE offset >= n
      <4>1. ~(offset + 1 <= n)
        BY <1>1, <2>3, <3>2
      <4>2. ~GroupsFit(b)
        BY <3>1, <4>1 DEF GroupsFit
      <4>3. walk[here] = Rejected
        BY <1>1, <2>2, <2>3, <2>4, <2>6, <3>2
      <4> QED BY <4>2, <4>3 DEF FromHere, here
    <3>3. CASE offset < n
      <4> DEFINE k == h \/ Low(b[offset + 1]) # 0
      <4>1. offset + 1 \in 2..n /\ offset + 1 > i
        BY <1>1, <2>3, <3>1, <3>3
      <4>2. k \in BOOLEAN /\ next = [at |-> offset + 1, hasTCK |-> k]
        BY DEF next
      <4>3. walk[next] = FromHere(b, offset + 1, k)
        <5> HIDE DEF k
        <5>1. offset + 1 \in S
          BY <1>2, <4>1
        <5> QED BY <3>1, <4>2, <5>1
      <4>4. walk[here] = walk[next]
        BY <1>1, <2>2, <2>3, <2>4, <2>6, <3>3
      <4>5. Protocols(b, i) <=> Low(b[offset + 1]) # 0 \/ Protocols(b, offset + 1)
        <5>1. ASSUME NEW p \in P, i < p PROVE p = offset + 1 \/ offset + 1 < p
          <6>1. i + Links(b[i]) <= p
            BY <5>1, PresenceChain
          <6>2. i + Links(b[i]) = offset + 1 /\ p \in Nat
            BY <1>1, <2>4, <2>6
          <6> QED BY <2>3, <6>1, <6>2
        <5>2. \A p \in P : offset + 1 < p => i < p
          BY <1>1, <2>3, <3>1
        <5> QED BY <3>1, <5>1, <5>2 DEF Protocols
      <4>6. (k \/ Protocols(b, offset + 1)) = (h \/ Protocols(b, i))
        BY <4>5
      <4>7. FromHere(b, offset + 1, k) = FromHere(b, i, h)
        <5> HIDE DEF k
        <5> QED BY <4>6 DEF FromHere
      <4> QED BY <4>3, <4>4, <4>7 DEF here
    <3>4. offset >= n \/ offset < n
      BY <1>1, <2>3
    <3> QED BY <3>2, <3>3, <3>4
  <2>7. b[i] < 128 \/ b[i] >= 128
    BY <2>3, HighOrLow
  <2> QED BY <2>5, <2>6, <2>7
<1>3. 2..n \subseteq S
  <2> HIDE DEF S, n, P
  <2> QED BY <1>1, <1>2, DownwardInduction
<1> QED BY <1>3

LEMMA GroupsFound ==
    ASSUME NEW b \in Seq(Byte), Len(b) >= 2
    PROVE  Groups(b) = FromHere(b, 2, FALSE)
<1>1. Len(b) \in Nat
  BY LenProperties
<1>2. PICK walk : /\ Groups(b) = walk[[at |-> 2, hasTCK |-> FALSE]]
                  /\ \A state \in Places(b) : walk[state] = GroupStep(b, walk, state)
  BY <1>1, GroupsIs
<1>3. 2 \in PresenceBytes(b) /\ 2 \in 2..Len(b)
  <2>1. 2 \in 2..(Len(b) + 4) /\ 2 \in 2..Len(b)
    BY <1>1
  <2> QED BY <2>1, PresenceBytesAre
<1> QED BY <1>2, <1>3, GroupsFollow

\* The check byte is right when every bit of the bytes after TS is even.
LEMMA ChecksumParity ==
    ASSUME NEW b \in Seq(Byte), Len(b) >= 2
    PROVE  Checksum(b) = 0 <=>
              \A m \in BitMasks : Cardinality({i \in 2..Len(b) : Has(b[i], m)}) % 2 = 0
<1> DEFINE s == Tail(b)
           n == Len(s)
           ones(k, m) == {j \in 2..(k + 1) : Has(b[j], m)}
           count(k, m) == Cardinality(ones(k, m))
<1>1. /\ s \in Seq(Byte) /\ n \in Nat /\ Len(b) = n + 1 /\ Len(b) \in Nat
      /\ \A i \in 1..n : s[i] = b[i + 1] /\ s[i] \in Byte
  <2>1. b # <<>> /\ Len(b) \in Nat
    BY LenProperties, EmptySeq
  <2>2. s \in Seq(Byte) /\ Len(s) = Len(b) - 1 /\ \A i \in 1..Len(s) : s[i] = b[i + 1]
    BY <2>1, HeadTailProperties
  <2>3. Len(s) \in Nat /\ \A i \in 1..Len(s) : s[i] \in Byte
    BY <2>2, LenProperties, ElementOfSeq
  <2> QED BY <2>1, <2>2, <2>3
<1>2. Checksum(b) = Sum8(s)
  BY DEF Checksum, Sum8
<1> HIDE DEF s, n
<1>3. PICK acc \in [0..n -> Byte] :
         /\ acc[0] = 0
         /\ \A i \in 1..n : acc[i] = Xor(acc[i - 1], s[i])
         /\ Sum8(s) = acc[n]
  BY <1>1, Sum8Is DEF n
<1>4. ASSUME NEW k \in 0..n, NEW m
      PROVE  IsFiniteSet(ones(k, m)) /\ count(k, m) \in Nat
  <2>1. IsFiniteSet(2..(k + 1))
    <3>1. 2 \in Int /\ k + 1 \in Int
      OBVIOUS
    <3> QED BY <3>1, FS_Interval, Zenon
  <2> DEFINE all == 2..(k + 1)
  <2>2. ones(k, m) \subseteq all
    OBVIOUS
  <2>3. IsFiniteSet(ones(k, m))
    <3>1. IsFiniteSet(all)
      BY <2>1
    <3> HIDE DEF ones, all
    <3> QED BY <2>2, <3>1, FS_Subset
  <2> HIDE DEF ones
  <2> QED BY <2>3, FS_CardinalityType
<1>5. ASSUME NEW k \in 1..n, NEW m
      PROVE  count(k, m) = count(k - 1, m) + (IF Has(s[k], m) THEN 1 ELSE 0)
  <2>1. ones(k, m) \ {k + 1} = ones(k - 1, m)
    OBVIOUS
  <2>2. k + 1 \in ones(k, m) <=> Has(s[k], m)
    BY <1>1
  <2> HIDE DEF ones
  <2>3. IsFiniteSet(ones(k, m))
    <3>1. k \in 0..n
      OBVIOUS
    <3> QED BY <1>4, <3>1
  <2> QED BY <2>1, <2>2, <2>3, CountOne
<1> DEFINE S == {k \in 0..n : \A m \in BitMasks : Has(acc[k], m) <=> count(k, m) % 2 = 1}
<1>6. ASSUME NEW k \in 0..n, \A j \in 0..n : j < k => j \in S
      PROVE  k \in S
  <2> HIDE DEF count
  <2>1. CASE k = 0
    <3>1. ASSUME NEW m PROVE count(0, m) = 0
      <4>1. ones(0, m) = {}
        OBVIOUS
      <4> HIDE DEF ones
      <4> QED BY <4>1, FS_EmptySet DEF count
    <3>2. \A m \in BitMasks : ~Has(0, m)
      BY DEF Has, BitMasks
    <3>3. 0 % 2 = 0
      OBVIOUS
    <3> QED BY <1>3, <2>1, <3>1, <3>2, <3>3
  <2>2. CASE k # 0
    <3>1. k \in 1..n /\ k - 1 \in 0..n /\ k - 1 < k
      BY <1>1, <2>2
    <3>2. k - 1 \in S /\ acc[k] = Xor(acc[k - 1], s[k]) /\ acc[k - 1] \in Byte /\ s[k] \in Byte
      BY <1>1, <1>3, <1>6, <3>1
    <3>3. ASSUME NEW m \in BitMasks
          PROVE  Has(acc[k], m) <=> count(k, m) % 2 = 1
      <4>1. Has(acc[k], m) <=> ~(Has(acc[k - 1], m) <=> Has(s[k], m))
        BY <3>2, XorBits
      <4>2. Has(acc[k - 1], m) <=> count(k - 1, m) % 2 = 1
        BY <3>2
      <4>3. count(k, m) = count(k - 1, m) + (IF Has(s[k], m) THEN 1 ELSE 0)
        BY <1>5, <3>1
      <4>4. count(k - 1, m) \in Nat
        BY <1>4, <3>1 DEF count
      <4>5. \A c \in Nat : (c + 1) % 2 = 1 <=> ~(c % 2 = 1)
        OBVIOUS
      <4>6. CASE Has(s[k], m)
        <5>1. count(k, m) = count(k - 1, m) + 1
          BY <4>3, <4>6
        <5> QED BY <4>1, <4>2, <4>4, <4>5, <4>6, <5>1
      <4>7. CASE ~Has(s[k], m)
        <5>1. count(k, m) = count(k - 1, m)
          BY <4>3, <4>4, <4>7
        <5> QED BY <4>1, <4>2, <4>7, <5>1
      <4> QED BY <4>6, <4>7
    <3> QED BY <3>3
  <2> QED BY <2>1, <2>2
<1>7. 0..n \subseteq S
  <2>1. 0 \in Nat
    OBVIOUS
  <2> HIDE DEF S
  <2> QED BY <1>1, <1>6, <2>1, StrongInduction
<1>8. n \in S /\ n \in 0..n
  BY <1>1, <1>7
<1>9. acc[n] = 0 <=> \A m \in BitMasks : ~Has(acc[n], m)
  BY <1>3, <1>8, ZeroHasNoBit
<1>10. \A m \in BitMasks : ~Has(acc[n], m) <=> count(n, m) % 2 = 0
  <2>1. \A c \in Nat : ~(c % 2 = 1) <=> c % 2 = 0
    OBVIOUS
  <2>2. \A m \in BitMasks : count(n, m) \in Nat
    BY <1>4, <1>8
  <2>3. \A m \in BitMasks : Has(acc[n], m) <=> count(n, m) % 2 = 1
    BY <1>8
  <2> HIDE DEF count
  <2> QED BY <2>1, <2>2, <2>3
<1>11. \A m : count(n, m) = Cardinality({i \in 2..Len(b) : Has(b[i], m)})
  BY <1>1
<1> HIDE DEF count
<1> QED BY <1>2, <1>3, <1>9, <1>10, <1>11

\* What the grammar makes of an ATR: rejected, of another vendor, or a Token2
\* identity.
Meaning(b) ==
    LET h == HistoricalOf(b)
    IN  IF ~WellFormed(b) \/ (Vendor(h) /\ Len(h) # 15) THEN Rejected
        ELSE [Raw |-> b,
              Identity |-> IF Vendor(h)
                           THEN [ProductID    |-> h[3] * 256 + h[4],
                                 SerialSuffix |-> SubSeq(h, 8, 15)]
                           ELSE NoIdentity]

\* Groups whose presence bytes are all there end somewhere.
LEMMA GroupsEndSomewhere ==
    ASSUME NEW b \in Seq(Byte), \A p \in PresenceBytes(b) : p <= Len(b)
    PROVE  GroupsEnd(b) \in Nat
<1>1. Len(b) \in Nat /\ \A i \in 1..Len(b) : b[i] \in Byte
  BY LenProperties, ElementOfSeq
<1>2. PICK i \in PresenceBytes(b) : \A p \in PresenceBytes(b) : p <= i
  <2>1. PresenceBytes(b) \subseteq 1..(Len(b) + 4) /\ 2 \in PresenceBytes(b) /\ Len(b) + 4 \in Nat
    <3>1. 2 \in 2..(Len(b) + 4)
      BY <1>1
    <3>2. PresenceBytes(b) \subseteq 2..(Len(b) + 4) /\ 2 \in PresenceBytes(b)
      BY <3>1, PresenceBytesAre
    <3> QED BY <1>1, <3>2
  <2>2. PresenceBytes(b) \in SUBSET (1..(Len(b) + 4)) /\ PresenceBytes(b) # {}
    BY <2>1
  <2> QED BY <2>1, <2>2, MaxExists
<1>3. i <= Len(b) /\ i \in 2..Len(b) /\ b[i] \in Byte
  <2>1. PresenceBytes(b) \subseteq 2..(Len(b) + 4)
    BY PresenceBytesAre
  <2> QED BY <1>1, <2>1
<1>4. ~(b[i] >= 128)
  <2> SUFFICES ASSUME b[i] >= 128 PROVE FALSE
    OBVIOUS
  <2>1. i + Links(b[i]) \in PresenceBytes(b) /\ Links(b[i]) \in 1..4
    BY <1>3, PresenceBytesAre
  <2>2. i + Links(b[i]) <= i
    BY <1>2, <2>1
  <2> QED BY <1>3, <2>1, <2>2
<1>5. GroupsEnd(b) = i + Links(b[i])
  BY <1>3, <1>4, HighOrLow, LastPresence
<1>6. Links(b[i]) \in Nat /\ i \in Nat
  BY <1>3, LinkCount
<1> QED BY <1>5, <1>6

LEMMA HistoricalBytesFound ==
    ASSUME NEW b \in Seq(Byte)
    PROVE  historicalBytes(b) =
              IF WellFormed(b) THEN [bytes |-> HistoricalOf(b)] ELSE Rejected
<1>1. Len(b) \in Nat /\ \A i \in 1..Len(b) : b[i] \in Byte
  BY LenProperties, ElementOfSeq
<1>2. CASE Len(b) < 2 \/ b[1] \notin {59, 63}
  <2>1. ~WellFormed(b)
    BY <1>1, <1>2 DEF WellFormed
  <2> QED BY <1>2, <2>1 DEF historicalBytes
<1>3. CASE Len(b) >= 2 /\ b[1] \in {59, 63}
  <2> DEFINE groups == Groups(b)
             end == GroupsEnd(b) + Low(b[2])
             tck == Protocols(b, 2)
  <2>1. groups = FromHere(b, 2, FALSE)
    BY <1>3, GroupsFound
  <2>2. historicalBytes(b) =
          IF groups # Rejected /\ LengthFits(b, groups, groups.offset + Low(b[2])) /\ ChecksumFits(b, groups)
          THEN [bytes |-> SubSeq(b, groups.offset + 1, groups.offset + Low(b[2]))] ELSE Rejected
    BY <1>1, <1>3 DEF historicalBytes
  <2>3. Low(b[2]) \in Nat
    <3>1. \A x \in Byte : x % 16 \in Nat
      BY DEF Byte
    <3>2. 2 \in 1..Len(b)
      BY <1>1, <1>3
    <3> QED BY <1>1, <3>1, <3>2 DEF Low
  <2>4. tck <=> \E p \in PresenceBytes(b) \ {2} : b[p] % 16 # 0
    <3>1. \A p \in PresenceBytes(b) : p \in Nat /\ (p # 2 <=> 2 < p)
      <4>1. PresenceBytes(b) \subseteq 2..(Len(b) + 4)
        BY PresenceBytesAre
      <4> QED BY <1>1, <4>1
    <3> QED BY <3>1 DEF Protocols, Low
  <2>5. CASE ~GroupsFit(b)
    <3>1. groups = Rejected
      BY <2>1, <2>5 DEF FromHere
    <3>2. ASSUME WellFormed(b) PROVE FALSE
      <4>1. \A p \in PresenceBytes(b) : p <= Len(b)
        BY <3>2 DEF WellFormed
      <4>2. Len(b) = end \/ Len(b) = end + 1
        BY <3>2 DEF WellFormed, Low
      <4>3. GroupsEnd(b) \in Nat
        BY <4>1, GroupsEndSomewhere
      <4>4. GroupsEnd(b) <= Len(b)
        BY <1>1, <2>3, <4>2, <4>3
      <4> QED BY <2>5, <4>1, <4>4 DEF GroupsFit
    <3> QED BY <2>2, <3>1, <3>2
  <2>6. CASE GroupsFit(b)
    <3>1. groups = [offset |-> GroupsEnd(b), hasTCK |-> FALSE \/ tck]
      BY <2>1, <2>6 DEF FromHere
    <3> HIDE DEF groups
    <3>2. groups # Rejected /\ groups.offset = GroupsEnd(b) /\ (groups.hasTCK <=> tck)
      <4> HIDE DEF tck
      <4>1. DOMAIN groups = {"offset", "hasTCK"} /\ DOMAIN Rejected = {"error"}
        BY <3>1 DEF Rejected
      <4>2. groups # Rejected
        BY <4>1
      <4>3. groups.offset = GroupsEnd(b) /\ groups.hasTCK = (FALSE \/ tck)
        BY <3>1
      <4> QED BY <4>2, <4>3
    <3>3. ChecksumFits(b, groups) <=>
             (tck => \A m \in BitMasks : Cardinality({i \in 2..Len(b) : Has(b[i], m)}) % 2 = 0)
      BY <1>3, <3>2, ChecksumParity DEF ChecksumFits
    <3>4. LengthFits(b, groups, end) <=> Len(b) = (IF tck THEN end + 1 ELSE end)
      <4>1. CASE tck
        BY <3>2, <4>1 DEF LengthFits
      <4>2. CASE ~tck
        <5>1. LengthFits(b, groups, end) <=> Len(b) = end + 0
          BY <3>2, <4>2 DEF LengthFits
        <5>2. end + 0 = end
          <6>1. GroupsEnd(b) \in Nat
            BY <2>6, GroupsEndSomewhere DEF GroupsFit
          <6> QED BY <2>3, <6>1
        <5> QED BY <4>2, <5>1, <5>2
      <4> QED BY <4>1, <4>2
    <3>5. WellFormed(b) <=>
             /\ Len(b) = (IF tck THEN end + 1 ELSE end)
             /\ tck => \A m \in BitMasks : Cardinality({i \in 2..Len(b) : Has(b[i], m)}) % 2 = 0
      <4>1. \A p \in PresenceBytes(b) : p <= Len(b)
        BY <2>6 DEF GroupsFit
      <4> HIDE DEF tck
      <4> QED BY <1>3, <2>4, <4>1 DEF WellFormed, Low
    <3>6. SubSeq(b, groups.offset + 1, groups.offset + Low(b[2])) = HistoricalOf(b)
      BY <3>2 DEF HistoricalOf, Low
    <3> QED BY <2>2, <3>2, <3>3, <3>4, <3>5, <3>6
  <2> QED BY <2>5, <2>6
<1> QED BY <1>1, <1>2, <1>3

\* For every sequence of bytes, ParseATR reports what the grammar makes of it.
THEOREM ATRMeaning ==
    ASSUME NEW b \in Seq(Byte)
    PROVE  ParseATR(b) = Meaning(b)
<1> DEFINE h == HistoricalOf(b)
           found == historicalBytes(b)
           T == Vendor(h)
           identity == [ProductID |-> h[3] * 256 + h[4], SerialSuffix |-> SubSeq(h, 8, 15)]
           reject == Rejected
<1>1. found = IF WellFormed(b) THEN [bytes |-> h] ELSE Rejected
  BY HistoricalBytesFound
<1>2. ParseATR(b) =
        LET historical == found.bytes
            token2     == Len(historical) >= 2 /\ SubSeq(historical, 1, 2) = <<134, 142>>
        IN  IF found = Rejected THEN Rejected
            ELSE CASE ~token2 -> [Raw |-> b, Identity |-> NoIdentity]
                   [] token2 /\ Len(historical) # 15 -> Rejected
                   [] token2 /\ Len(historical) = 15 ->
                         [Raw |-> b,
                          Identity |-> [ProductID    |-> historical[3] * 256 + historical[4],
                                        SerialSuffix |-> SubSeq(historical, 8, 15)]]
  BY DEF ParseATR
<1> HIDE DEF found, h
<1>3. CASE ~WellFormed(b)
  BY <1>1, <1>2, <1>3 DEF Meaning
<1>4. CASE WellFormed(b)
  <2>1. found # Rejected /\ found.bytes = h
    <3>1. DOMAIN [bytes |-> h] = {"bytes"} /\ DOMAIN Rejected = {"error"}
      BY DEF Rejected
    <3> QED BY <1>1, <1>4, <3>1
  <2>2. ParseATR(b) =
          CASE ~T -> [Raw |-> b, Identity |-> NoIdentity]
            [] T /\ Len(h) # 15 -> Rejected
            [] T /\ Len(h) = 15 -> [Raw |-> b, Identity |-> identity]
    BY <1>2, <2>1 DEF Vendor
  <2>3. Meaning(b) = IF T /\ Len(h) # 15 THEN Rejected
                     ELSE [Raw |-> b, Identity |-> IF T THEN identity ELSE NoIdentity]
    BY <1>4 DEF Meaning, h
  <2> HIDE DEF T, identity
  <2>4. CASE ~T
    BY <2>2, <2>3, <2>4
  <2>5. CASE T /\ Len(h) # 15
    BY <2>2, <2>3, <2>5
  <2>6. CASE T /\ Len(h) = 15
    BY <2>2, <2>3, <2>6
  <2> QED BY <2>4, <2>5, <2>6
<1> QED BY <1>3, <1>4

\* It accepts the grammar and nothing else, but for vendor's bytes of a wrong length.
LEMMA ATRAccepted ==
    ASSUME NEW b \in Seq(Byte)
    PROVE  ParseATR(b) # Rejected <=>
              WellFormed(b) /\ (Vendor(HistoricalOf(b)) => Len(HistoricalOf(b)) = 15)
<1>1. \A x, y : [Raw |-> x, Identity |-> y] # Rejected
  <2> SUFFICES ASSUME NEW x, NEW y PROVE [Raw |-> x, Identity |-> y] # Rejected
    OBVIOUS
  <2>1. DOMAIN [Raw |-> x, Identity |-> y] = {"Raw", "Identity"} /\ DOMAIN Rejected = {"error"}
    BY DEF Rejected
  <2> QED BY <2>1
<1>2. ParseATR(b) = Meaning(b)
  BY ATRMeaning
<1> QED BY <1>1, <1>2 DEF Meaning

-----------------------------------------------------------------------------
\* The ATR that a card makes of its structure.

LEMMA Sum8OfMore ==
    ASSUME NEW s \in Seq(Byte), NEW x \in Byte
    PROVE  Sum8(s) \in Byte /\ Sum8(s \o <<x>>) = Xor(Sum8(s), x)
<1> DEFINE t == s \o <<x>>
           n == Len(s)
<1>1. <<x>> \in Seq(Byte) /\ Len(<<x>>) = 1 /\ <<x>>[1] = x
  OBVIOUS
<1>2. n \in Nat /\ t \in Seq(Byte) /\ Len(t) = n + 1 /\ \A i \in 1..n : t[i] = s[i]
  <2>1. n \in Nat
    BY LenProperties
  <2>2. /\ t \in Seq(Byte) /\ Len(t) = n + 1
        /\ \A i \in 1..(n + 1) : t[i] = IF i <= n THEN s[i] ELSE <<x>>[i - n]
    BY <1>1, ConcatProperties
  <2> QED BY <2>1, <2>2
<1>3. t[n + 1] = x
  <2>1. \A i \in 1..(n + 1) : t[i] = IF i <= n THEN s[i] ELSE <<x>>[i - n]
    BY <1>1, ConcatProperties
  <2>2. n + 1 \in 1..(n + 1) /\ ~(n + 1 <= n) /\ (n + 1) - n = 1
    BY <1>2
  <2> QED BY <1>1, <2>1, <2>2
<1> HIDE DEF t, n
<1>4. PICK a \in [0..n -> Byte] :
         /\ a[0] = 0
         /\ \A i \in 1..n : a[i] = Xor(a[i - 1], s[i])
         /\ Sum8(s) = a[n]
  BY Sum8Is DEF n
<1>5. PICK c \in [0..(n + 1) -> Byte] :
         /\ c[0] = 0
         /\ \A i \in 1..(n + 1) : c[i] = Xor(c[i - 1], t[i])
         /\ Sum8(t) = c[n + 1]
  BY <1>2, Sum8Is
<1> DEFINE S == {k \in 0..n : a[k] = c[k]}
<1>6. ASSUME NEW k \in 0..n, \A j \in 0..n : j < k => j \in S PROVE k \in S
  <2>1. CASE k = 0
    BY <1>4, <1>5, <2>1
  <2>2. CASE k # 0
    <3>1. k \in 1..n /\ k - 1 \in 0..n /\ k - 1 < k /\ k \in 1..(n + 1)
      BY <1>2, <2>2
    <3>2. a[k - 1] = c[k - 1]
      BY <1>6, <3>1
    <3> QED BY <1>2, <1>4, <1>5, <3>1, <3>2
  <2> QED BY <2>1, <2>2
<1>7. 0..n \subseteq S
  <2>1. 0 \in Nat
    OBVIOUS
  <2> HIDE DEF S
  <2> QED BY <1>2, <1>6, <2>1, StrongInduction
<1>8. n \in 0..n /\ n + 1 \in 1..(n + 1) /\ (n + 1) - 1 = n
  BY <1>2
<1>9. a[n] = c[n] /\ a[n] \in Byte
  BY <1>4, <1>7, <1>8
<1>10. c[n + 1] = Xor(c[n], x)
  BY <1>3, <1>5, <1>8
<1> QED BY <1>4, <1>5, <1>9, <1>10 DEF t

LEMMA OneBefore ==
    ASSUME NEW S, NEW x \in S, NEW r \in Seq(S)
    PROVE  /\ <<x>> \o r \in Seq(S)
           /\ Len(<<x>> \o r) = Len(r) + 1
           /\ (<<x>> \o r)[1] = x
           /\ \A i \in 1..Len(r) : (<<x>> \o r)[i + 1] = r[i]
           /\ Tail(<<x>> \o r) = r
<1> DEFINE b == <<x>> \o r
<1>1. <<x>> \in Seq(S) /\ Len(<<x>>) = 1 /\ <<x>>[1] = x /\ Len(r) \in Nat
  BY LenProperties
<1>2. /\ b \in Seq(S) /\ Len(b) = 1 + Len(r)
      /\ \A i \in 1..(1 + Len(r)) : b[i] = IF i <= 1 THEN <<x>>[i] ELSE r[i - 1]
  BY <1>1, ConcatProperties
<1> HIDE DEF b
<1>3. b[1] = x /\ \A i \in 1..Len(r) : b[i + 1] = r[i]
  BY <1>1, <1>2
<1>4. Tail(b) = r
  <2>1. b # <<>>
    BY <1>1, <1>2
  <2>2. Tail(b) \in Seq(S) /\ Len(Tail(b)) = Len(b) - 1 /\ \A i \in 1..Len(Tail(b)) : Tail(b)[i] = b[i + 1]
    BY <1>2, <2>1, HeadTailProperties
  <2>3. Len(Tail(b)) = Len(r)
    BY <1>1, <1>2, <2>2
  <2>4. \A i \in 1..Len(Tail(b)) : Tail(b)[i] = r[i]
    BY <1>3, <2>2, <2>3
  <2> QED BY <2>2, <2>3, <2>4, SeqEqual
<1> QED BY <1>1, <1>2, <1>3, <1>4 DEF b

\* The parts of an ATR: TS, T0, the groups, the historical bytes and the TCK.
BodyOf(t0, groups, h) == <<t0>> \o groups \o h
Laid(ts, t0, groups, h, tck) == <<ts>> \o BodyOf(t0, groups, h) \o tck

HasParts(b, body, ts, t0, F, h, tck) ==
    /\ b \in Seq(Byte)
    /\ Len(b) = 2 + Len(F) + Len(h) + Len(tck)
    /\ b[1] = ts
    /\ b[2] = t0
    /\ \A j \in 1..Len(F) : b[2 + j] = F[j]
    /\ SubSeq(b, (2 + Len(F)) + 1, (2 + Len(F)) + Len(h)) = h
    /\ Tail(b) = body \o tck

LEMMA LaidParts ==
    ASSUME NEW ts \in Byte, NEW t0 \in Byte, NEW F \in Seq(Byte), NEW h \in Seq(Byte), NEW tck \in Seq(Byte)
    PROVE  /\ BodyOf(t0, F, h) \in Seq(Byte)
           /\ HasParts(Laid(ts, t0, F, h, tck), BodyOf(t0, F, h), ts, t0, F, h, tck)
<1> DEFINE b == Laid(ts, t0, F, h, tck)
           body == BodyOf(t0, F, h)
           inner == h \o tck
           rest == F \o inner
           after == <<t0>> \o rest
           nF == Len(F)
           nh == Len(h)
           nt == Len(tck)
<1>1. <<ts>> \in Seq(Byte) /\ <<t0>> \in Seq(Byte) /\ nF \in Nat /\ nh \in Nat /\ nt \in Nat
  BY LenProperties
<1>2. F \o h \in Seq(Byte) /\ inner \in Seq(Byte)
  BY ConcatProperties
<1>3. body = <<t0>> \o (F \o h) /\ body \in Seq(Byte)
  <2>1. body = <<t0>> \o (F \o h)
    BY <1>1, ConcatAssociative DEF BodyOf
  <2> QED BY <1>1, <1>2, <2>1, ConcatProperties
<1>4. body \o tck = after
  <2>1. (<<t0>> \o (F \o h)) \o tck = <<t0>> \o ((F \o h) \o tck)
    BY <1>1, <1>2, ConcatAssociative
  <2>2. (F \o h) \o tck = F \o (h \o tck)
    BY ConcatAssociative
  <2> QED BY <1>3, <2>1, <2>2
<1>5. b = <<ts>> \o after
  <2>1. (<<ts>> \o body) \o tck = <<ts>> \o (body \o tck)
    BY <1>1, <1>3, ConcatAssociative
  <2> QED BY <1>4, <2>1 DEF Laid
<1> HIDE DEF b, body
<1>6. /\ inner \in Seq(Byte) /\ Len(inner) = nh + nt
      /\ \A i \in 1..(nh + nt) : inner[i] = IF i <= nh THEN h[i] ELSE tck[i - nh]
  BY ConcatProperties
<1> HIDE DEF inner
<1>7. /\ rest \in Seq(Byte) /\ Len(rest) = nF + Len(inner)
      /\ \A i \in 1..(nF + Len(inner)) : rest[i] = IF i <= nF THEN F[i] ELSE inner[i - nF]
  <2>1. inner \in Seq(Byte)
    BY <1>6
  <2> QED BY <2>1, ConcatProperties
<1> HIDE DEF rest
<1>8. /\ after \in Seq(Byte) /\ Len(after) = Len(rest) + 1 /\ after[1] = t0
      /\ \A i \in 1..Len(rest) : after[i + 1] = rest[i]
  BY <1>7, OneBefore
<1> HIDE DEF after
<1>9. /\ b \in Seq(Byte) /\ Len(b) = Len(after) + 1 /\ b[1] = ts
      /\ \A i \in 1..Len(after) : b[i + 1] = after[i]
      /\ Tail(b) = after
  BY <1>5, <1>8, OneBefore
<1> HIDE DEF nF, nh, nt
<1>10. Len(b) = 2 + nF + nh + nt /\ Len(after) = nF + (nh + nt) + 1 /\ Len(rest) = nF + (nh + nt)
  BY <1>1, <1>6, <1>7, <1>8, <1>9
<1>11. b[2] = t0
  <2>1. 1 \in 1..Len(after) /\ 1 + 1 = 2
    BY <1>1, <1>10
  <2> QED BY <1>8, <1>9, <2>1
<1>12. \A i \in 1..(nF + (nh + nt)) : b[2 + i] = rest[i]
  <2>1. ASSUME NEW i \in 1..(nF + (nh + nt)) PROVE b[2 + i] = rest[i]
    <3>1. i + 1 \in 1..Len(after) /\ (i + 1) + 1 = 2 + i /\ i \in 1..Len(rest)
      BY <1>1, <1>10
    <3> QED BY <1>8, <1>9, <3>1
  <2> QED BY <2>1
<1>13. \A j \in 1..nF : b[2 + j] = F[j]
  <2>1. ASSUME NEW j \in 1..nF PROVE b[2 + j] = F[j]
    <3>1. j \in 1..(nF + (nh + nt)) /\ j <= nF
      BY <1>1
    <3> QED BY <1>6, <1>7, <1>12, <3>1
  <2> QED BY <2>1
<1>14. \A i \in 1..nh : b[2 + nF + i] = h[i]
  <2>1. ASSUME NEW i \in 1..nh PROVE b[2 + nF + i] = h[i]
    <3>1. /\ nF + i \in 1..(nF + (nh + nt)) /\ 2 + (nF + i) = 2 + nF + i /\ ~(nF + i <= nF)
          /\ (nF + i) - nF = i /\ i \in 1..(nh + nt) /\ i <= nh
      BY <1>1
    <3> QED BY <1>6, <1>7, <1>12, <3>1
  <2> QED BY <2>1
<1>15. SubSeq(b, (2 + nF) + 1, (2 + nF) + nh) = h
  <2> DEFINE m == (2 + nF) + 1
             e == (2 + nF) + nh
             sub == SubSeq(b, m, e)
  <2>1. m \in Int /\ e \in Int /\ e - m + 1 = nh /\ (m <= e <=> nh >= 1)
    BY <1>1
  <2>2. \A i \in 1..nh : m + i - 1 = 2 + nF + i
    BY <1>1
  <2>3. \A k \in m..e : b[k] \in Byte
    <3>1. \A k \in m..e : k \in 1..Len(b)
      BY <1>1, <1>10
    <3> HIDE DEF m, e
    <3> QED BY <1>9, <3>1, ElementOfSeq
  <2> HIDE DEF m, e
  <2>4. sub \in Seq(Byte) /\ Len(sub) = (IF m <= e THEN e - m + 1 ELSE 0)
        /\ \A i \in 1..(e - m + 1) : sub[i] = b[m + i - 1]
    BY <2>1, <2>3, SubSeqProperties
  <2>5. Len(sub) = nh
    BY <1>1, <2>1, <2>4
  <2>6. \A i \in 1..nh : sub[i] = h[i]
    BY <1>14, <2>1, <2>2, <2>4
  <2> HIDE DEF sub
  <2>7. sub = h
    BY <2>4, <2>5, <2>6, SeqEqual DEF nh
  <2> QED BY <2>7 DEF sub, m, e
<1>16. HasParts(b, body, ts, t0, F, h, tck)
  BY <1>4, <1>9, <1>10, <1>11, <1>13, <1>15 DEF HasParts, nF, nh, nt
<1> QED BY <1>3, <1>16 DEF b, body

\* A function on 1..n is a sequence of n elements.
LEMMA FunctionIsSeq ==
    ASSUME NEW S, NEW n \in Nat, NEW f \in [1..n -> S]
    PROVE  f \in Seq(S) /\ Len(f) = n
<1>1. f \in Seq(S)
  BY SeqDef
<1>2. Len(f) \in Nat /\ DOMAIN f = 1..Len(f) /\ DOMAIN f = 1..n
  BY <1>1, LenProperties
<1>3. \A a, c \in Nat : 1..a = 1..c => a = c
  <2>1. ASSUME NEW a \in Nat, NEW c \in Nat, 1..a = 1..c, a < c PROVE FALSE
    <3>1. c \in 1..c /\ c \notin 1..a
      BY <2>1
    <3> QED BY <2>1, <3>1
  <2>2. \A a, c \in Nat : a < c \/ c < a \/ a = c
    OBVIOUS
  <2> QED BY <2>1, <2>2
<1> QED BY <1>1, <1>2, <1>3

Many(s) == Len(s.presences)
NibbleOf(s, i) == s.presences[i] + (IF i < Many(s) THEN 8 ELSE 0)
TDOf(s, i) == NibbleOf(s, i) * 16 + s.protocols[i - 1]
GroupOf(s, i) ==
    [k \in 1..InterfaceBytes(s.presences[i]) |-> 17]
        \o (IF i < Many(s) THEN <<NibbleOf(s, i + 1) * 16 + s.protocols[i]>> ELSE <<>>)
GroupsOf(s) == FlattenSeq([i \in 1..Many(s) |-> GroupOf(s, i)])
T0Of(s) == NibbleOf(s, 1) * 16 + Len(s.historical)
HasTCK(s, i) == \E j \in i..(Many(s) - 1) : s.protocols[j] # 0
TCKOf(s) ==
    IF HasTCK(s, 1) THEN <<Sum8(BodyOf(T0Of(s), GroupsOf(s), s.historical))>> ELSE <<>>

LEMMA AssembleIs ==
    ASSUME NEW s
    PROVE  Assemble(s) = Laid(s.TS, T0Of(s), GroupsOf(s), s.historical, TCKOf(s))
<1>1. \A i : GroupOf(s, i) =
        [k \in 1..Cardinality({b \in {1, 2, 4} : Has(s.presences[i], b)}) |-> 17]
            \o (IF i < Len(s.presences)
                THEN <<(s.presences[i + 1] + (IF i + 1 < Len(s.presences) THEN 8 ELSE 0)) * 16
                         + s.protocols[i]>>
                ELSE <<>>)
  BY DEF GroupOf, NibbleOf, Many, InterfaceBytes
<1> QED BY <1>1, Zenon DEF Assemble, Laid, BodyOf, GroupsOf, T0Of, TCKOf, HasTCK, NibbleOf, Many

LEMMA StructureIs ==
    ASSUME NEW s \in Structures
    PROVE  /\ Many(s) \in Nat \ {0}
           /\ s.TS \in {59, 63}
           /\ \A i \in 1..Many(s) : s.presences[i] \in 0..7
           /\ \A i \in 1..(Many(s) - 1) : s.protocols[i] \in {0, 1}
           /\ s.historical \in Seq(Byte) /\ Len(s.historical) \in 0..15
<1>1. PICK n \in 1..MaxGroups :
        s \in [TS : {59, 63}, presences : [1..n -> Presences], protocols : [1..(n - 1) -> {0, 1}],
               historical : Historicals]
  BY DEF Structures
<1>2. n \in Nat \ {0}
  BY <1>1, StructuresAssumption
<1>3. s.presences \in [1..n -> Presences]
  BY <1>1
<1>4. Many(s) = n
  BY <1>2, <1>3, FunctionIsSeq DEF Many
<1>5. s.TS \in {59, 63} /\ s.protocols \in [1..(n - 1) -> {0, 1}] /\ s.historical \in Historicals
  BY <1>1
<1>6. \A i \in 1..n : s.presences[i] \in 0..7
  BY <1>3, StructuresAssumption
<1>7. \A i \in 1..(n - 1) : s.protocols[i] \in {0, 1}
  BY <1>5
<1>8. s.historical \in Seq(Byte) /\ Len(s.historical) \in 0..15
  BY <1>5, StructuresAssumption
<1> QED BY <1>2, <1>4, <1>5, <1>6, <1>7, <1>8

\* The presence nibble of a group, from the presence bits and the bit of a TD.
LEMMA NibbleIs ==
    ASSUME NEW s \in Structures, NEW i \in 1..Many(s)
    PROVE  /\ NibbleOf(s, i) \in 0..15
           /\ Has(NibbleOf(s, i), 8) <=> i < Many(s)
           /\ InterfaceBytes(NibbleOf(s, i)) = InterfaceBytes(s.presences[i])
<1>1. s.presences[i] \in 0..7
  BY StructureIs
<1>2. \A p \in 0..7 : /\ p + 8 \in 0..15 /\ p + 0 = p /\ p \in 0..15 /\ Has(p + 8, 8) /\ ~Has(p, 8)
                      /\ Has(p + 8, 1) <=> Has(p, 1)
                      /\ Has(p + 8, 2) <=> Has(p, 2)
                      /\ Has(p + 8, 4) <=> Has(p, 4)
  BY DEF Has
<1>3. \/ NibbleOf(s, i) = s.presences[i] + 8 /\ i < Many(s)
      \/ NibbleOf(s, i) = s.presences[i] /\ ~(i < Many(s))
  BY <1>1, <1>2 DEF NibbleOf
<1> QED BY <1>1, <1>2, <1>3, InterfaceByteCount

LEMMA HighAndLow ==
    ASSUME NEW nibble \in 0..15, NEW low \in 0..15
    PROVE  /\ nibble * 16 + low \in Byte
           /\ High(nibble * 16 + low) = nibble
           /\ Low(nibble * 16 + low) = low
BY DEF Byte, High, Low

LEMMA GroupIs ==
    ASSUME NEW s \in Structures, NEW i \in 1..Many(s)
    PROVE  LET c == InterfaceBytes(s.presences[i])
           IN  /\ c \in 0..3
               /\ GroupOf(s, i) \in Seq(Byte)
               /\ Len(GroupOf(s, i)) = c + (IF i < Many(s) THEN 1 ELSE 0)
               /\ i < Many(s) => GroupOf(s, i)[c + 1] = TDOf(s, i + 1)
<1> DEFINE c == InterfaceBytes(s.presences[i])
           interface == [k \in 1..c |-> 17]
           TD == IF i < Many(s) THEN <<NibbleOf(s, i + 1) * 16 + s.protocols[i]>> ELSE <<>>
           td == NibbleOf(s, i + 1) * 16 + s.protocols[i]
<1>1. c \in 0..3
  BY InterfaceByteCount
<1>2. interface \in Seq(Byte) /\ Len(interface) = c
  <2>1. c \in Nat /\ 17 \in Byte
    BY <1>1 DEF Byte
  <2> HIDE DEF c
  <2>2. interface \in [1..c -> Byte]
    BY <2>1
  <2> HIDE DEF interface
  <2> QED BY <2>1, <2>2, FunctionIsSeq
<1>3. GroupOf(s, i) = interface \o TD
  BY DEF GroupOf
<1>4. CASE i < Many(s)
  <2>1. i + 1 \in 1..Many(s) /\ i \in 1..(Many(s) - 1)
    BY <1>4, StructureIs
  <2>2. NibbleOf(s, i + 1) \in 0..15 /\ s.protocols[i] \in 0..15
    <3>1. s.protocols[i] \in {0, 1}
      BY <2>1, StructureIs
    <3> QED BY <2>1, <3>1, NibbleIs
  <2>3. td \in Byte /\ TDOf(s, i + 1) = td
    <3>1. (i + 1) - 1 = i
      OBVIOUS
    <3> QED BY <2>2, <3>1, HighAndLow DEF TDOf
  <2>4. TD = <<td>>
    BY <1>4
  <2> HIDE DEF td, TD, interface, c
  <2>5. TD \in Seq(Byte) /\ Len(TD) = 1 /\ TD[1] = td
    BY <2>3, <2>4
  <2>6. /\ GroupOf(s, i) \in Seq(Byte) /\ Len(GroupOf(s, i)) = c + 1
        /\ \A k \in 1..(c + 1) : GroupOf(s, i)[k] = IF k <= c THEN interface[k] ELSE TD[k - c]
    <3>1. interface \in Seq(Byte) /\ TD \in Seq(Byte)
      BY <1>2, <2>5
    <3>2. /\ interface \o TD \in Seq(Byte) /\ Len(interface \o TD) = Len(interface) + Len(TD)
          /\ \A k \in 1..(Len(interface) + Len(TD)) :
                (interface \o TD)[k] = IF k <= Len(interface) THEN interface[k] ELSE TD[k - Len(interface)]
      BY <3>1, ConcatProperties
    <3> QED BY <1>2, <1>3, <2>5, <3>2
  <2>7. c + 1 \in 1..(c + 1) /\ ~(c + 1 <= c) /\ (c + 1) - c = 1
    BY <1>1
  <2>8. GroupOf(s, i)[c + 1] = td
    BY <2>5, <2>6, <2>7
  <2> QED BY <1>1, <1>4, <2>3, <2>6, <2>8 DEF c
<1>5. CASE ~(i < Many(s))
  <2>1. TD = <<>>
    BY <1>5
  <2>2. GroupOf(s, i) = interface
    <3> HIDE DEF TD, interface
    <3> QED BY <1>2, <1>3, <2>1, ConcatEmptySeq
  <2>3. c + 0 = c
    BY <1>1
  <2> HIDE DEF interface, c
  <2> QED BY <1>1, <1>2, <1>5, <2>2, <2>3 DEF c
<1> QED BY <1>4, <1>5

\* The groups, one behind the other: that of a presence byte begins behind it.
LEMMA GroupsLaid ==
    ASSUME NEW s \in Structures
    PROVE  \E at \in [0..Many(s) -> Nat] :
              /\ at[0] = 0
              /\ GroupsOf(s) \in Seq(Byte)
              /\ Len(GroupsOf(s)) = at[Many(s)]
              /\ \A i \in 1..Many(s) :
                    /\ at[i] = at[i - 1] + InterfaceBytes(s.presences[i]) + (IF i < Many(s) THEN 1 ELSE 0)
                    /\ at[i] <= at[Many(s)]
                    /\ i < Many(s) => GroupsOf(s)[at[i]] = TDOf(s, i + 1)
<1> DEFINE n == Many(s)
           seqs == [i \in 1..n |-> GroupOf(s, i)]
           c(i) == InterfaceBytes(s.presences[i])
<1>1. n \in Nat \ {0}
  BY StructureIs
<1>2. seqs \in Seq(Seq(Byte)) /\ Len(seqs) = n
  <2>1. \A i \in 1..n : GroupOf(s, i) \in Seq(Byte)
    BY GroupIs
  <2> HIDE DEF n
  <2>2. seqs \in [1..n -> Seq(Byte)]
    BY <2>1
  <2> HIDE DEF seqs
  <2> QED BY <1>1, <2>2, FunctionIsSeq
<1>3. GroupsOf(s) = FlattenSeq(seqs)
  BY DEF GroupsOf
<1>4. \A i \in 1..n : seqs[i] = GroupOf(s, i)
  OBVIOUS
<1> HIDE DEF seqs, n
<1>5. FlattenSeq(seqs) \in Seq(Byte) /\ \E at : PartsAt(at, FlattenSeq(seqs), seqs)
  <2>1. Len(seqs) # 0
    BY <1>1, <1>2
  <2> QED BY <1>2, <2>1, FlattenParts
<1>6. PICK at : PartsAt(at, GroupsOf(s), seqs)
  BY <1>3, <1>5
<1>7. at \in [0..n -> Nat] /\ at[0] = 0 /\ GroupsOf(s) \in Seq(Byte) /\ Len(GroupsOf(s)) = at[n]
  BY <1>2, <1>3, <1>5, <1>6 DEF PartsAt
<1>8. ASSUME NEW i \in 1..n
      PROVE  /\ at[i] = at[i - 1] + c(i) + (IF i < n THEN 1 ELSE 0)
             /\ at[i] <= at[n]
             /\ i < n => GroupsOf(s)[at[i]] = TDOf(s, i + 1)
  <2>1. /\ at[i] = at[i - 1] + Len(GroupOf(s, i)) /\ at[i] <= at[n]
        /\ \A j \in 1..Len(GroupOf(s, i)) : GroupsOf(s)[at[i - 1] + j] = GroupOf(s, i)[j]
    <3>1. i \in 1..Len(seqs) /\ seqs[i] = GroupOf(s, i) /\ n = Len(seqs)
      BY <1>2, <1>4
    <3>2. /\ at[i] = at[i - 1] + Len(seqs[i]) /\ at[i] <= at[Len(seqs)]
          /\ \A j \in 1..Len(seqs[i]) : GroupsOf(s)[at[i - 1] + j] = seqs[i][j]
      BY <1>6, <3>1, SMTT(30) DEF PartsAt
    <3> QED BY <3>1, <3>2
  <2>2. c(i) \in 0..3 /\ Len(GroupOf(s, i)) = c(i) + (IF i < n THEN 1 ELSE 0)
        /\ (i < n => GroupOf(s, i)[c(i) + 1] = TDOf(s, i + 1))
    BY GroupIs DEF n
  <2>3. i - 1 \in 0..n /\ at[i - 1] \in Nat
    BY <1>1, <1>7
  <2> HIDE DEF c
  <2>4. at[i] = at[i - 1] + c(i) + (IF i < n THEN 1 ELSE 0)
    BY <2>1, <2>2, <2>3
  <2>5. ASSUME i < n PROVE GroupsOf(s)[at[i]] = TDOf(s, i + 1)
    <3>1. at[i] = at[i - 1] + (c(i) + 1) /\ Len(GroupOf(s, i)) = c(i) + 1 /\ c(i) + 1 \in 1..(c(i) + 1)
      BY <2>1, <2>2, <2>5
    <3> QED BY <2>1, <2>2, <2>5, <3>1
  <2> QED BY <2>1, <2>4, <2>5
<1> QED BY <1>7, <1>8 DEF n

\* The bytes of a structure, and a check byte that checks.
LEMMA Assembled ==
    ASSUME NEW s \in Structures
    PROVE  LET b == Assemble(s)
               m == 2 + Len(GroupsOf(s))
           IN  /\ b \in Seq(Byte)
               /\ Len(b) = m + Len(s.historical) + (IF HasTCK(s, 1) THEN 1 ELSE 0)
               /\ b[1] = s.TS
               /\ b[2] = T0Of(s)
               /\ \A j \in 1..Len(GroupsOf(s)) : b[2 + j] = GroupsOf(s)[j]
               /\ SubSeq(b, m + 1, m + Len(s.historical)) = s.historical
               /\ HasTCK(s, 1) => Checksum(b) = 0
<1> DEFINE F == GroupsOf(s)
           h == s.historical
           body == BodyOf(T0Of(s), F, h)
           tck == TCKOf(s)
           b == Laid(s.TS, T0Of(s), F, h, tck)
<1>1. Assemble(s) = b
  BY AssembleIs
<1>2. s.TS \in Byte /\ T0Of(s) \in Byte /\ h \in Seq(Byte) /\ F \in Seq(Byte) /\ <<>> \in Seq(Byte)
  <2>1. s.TS \in {59, 63} /\ Len(h) \in 0..15 /\ h \in Seq(Byte) /\ 1 \in 1..Many(s)
    BY StructureIs
  <2>2. NibbleOf(s, 1) \in 0..15
    BY <2>1, NibbleIs
  <2>3. T0Of(s) \in Byte
    BY <2>1, <2>2, HighAndLow DEF T0Of
  <2>4. F \in Seq(Byte)
    BY GroupsLaid
  <2>5. s.TS \in Byte
    BY <2>1 DEF Byte
  <2> QED BY <2>1, <2>3, <2>4, <2>5
<1>3. body \in Seq(Byte)
  <2> HIDE DEF F, h, body
  <2> QED BY <1>2, LaidParts DEF body
<1>4. Sum8(body) \in Byte
  <2> HIDE DEF body
  <2>1. 0 \in Byte
    BY DEF Byte
  <2> QED BY <1>3, <2>1, Sum8OfMore
<1>5. tck = IF HasTCK(s, 1) THEN <<Sum8(body)>> ELSE <<>>
  BY DEF TCKOf
<1>6. tck \in Seq(Byte) /\ Len(tck) = IF HasTCK(s, 1) THEN 1 ELSE 0
  <2> HIDE DEF body, tck
  <2>1. CASE HasTCK(s, 1)
    <3>1. tck = <<Sum8(body)>>
      BY <1>5, <2>1
    <3> QED BY <1>4, <2>1, <3>1
  <2>2. CASE ~HasTCK(s, 1)
    <3>1. tck = <<>>
      BY <1>5, <2>2
    <3> QED BY <1>2, <2>2, <3>1
  <2> QED BY <2>1, <2>2
<1>7. HasParts(b, body, s.TS, T0Of(s), F, h, tck)
  <2> HIDE DEF F, h, tck
  <2> QED BY <1>2, <1>6, LaidParts
<1> HIDE DEF b, F, h, tck, body
<1>8. ASSUME HasTCK(s, 1) PROVE Checksum(b) = 0
  <2>1. Tail(b) = body \o <<Sum8(body)>>
    BY <1>5, <1>7, <1>8 DEF HasParts
  <2>2. Checksum(b) = Sum8(body \o <<Sum8(body)>>)
    BY <2>1 DEF Checksum, Sum8
  <2> QED BY <1>3, <1>4, <2>2, Sum8OfMore, XorItself
<1>9. Len(b) = (2 + Len(F)) + Len(h) + (IF HasTCK(s, 1) THEN 1 ELSE 0)
  BY <1>6, <1>7 DEF HasParts
<1> QED BY <1>1, <1>7, <1>8, <1>9 DEF F, h, HasParts

\* The loop goes through the groups of the structure, and no further.
LEMMA AssembledGroups ==
    ASSUME NEW s \in Structures
    PROVE  Groups(Assemble(s)) = [offset |-> 2 + Len(GroupsOf(s)), hasTCK |-> HasTCK(s, 1)]
<1> DEFINE b == Assemble(s)
           n == Many(s)
           F == GroupsOf(s)
           c(i) == InterfaceBytes(s.presences[i])
<1>1. PICK at \in [0..n -> Nat] :
         /\ at[0] = 0
         /\ F \in Seq(Byte)
         /\ Len(F) = at[n]
         /\ \A i \in 1..n :
               /\ at[i] = at[i - 1] + c(i) + (IF i < n THEN 1 ELSE 0)
               /\ at[i] <= at[n]
               /\ i < n => F[at[i]] = TDOf(s, i + 1)
  BY GroupsLaid
<1>2. /\ b \in Seq(Byte)
      /\ Len(b) = (2 + Len(F)) + Len(s.historical) + (IF HasTCK(s, 1) THEN 1 ELSE 0)
      /\ b[2] = T0Of(s)
      /\ \A j \in 1..Len(F) : b[2 + j] = F[j]
  BY Assembled
<1>3. n \in Nat \ {0} /\ Len(b) \in Nat /\ Len(F) \in Nat /\ Len(s.historical) \in 0..15
  BY <1>1, <1>2, StructureIs, LenProperties
<1> HIDE DEF b, n, F
<1>4. Len(b) >= 2 + at[n] /\ at[n] \in Nat
  <2>1. \A x, y, z \in Nat : (2 + x) + y + z >= 2 + x
    OBVIOUS
  <2>2. PICK y \in Nat : Len(b) = (2 + Len(F)) + Len(s.historical) + y
    BY <1>2
  <2>3. Len(s.historical) \in Nat
    BY <1>3
  <2>4. Len(b) >= 2 + Len(F)
    BY <1>3, <2>1, <2>2, <2>3
  <2> QED BY <1>1, <1>3, <2>4
<1>5. PICK walk : /\ Groups(b) = walk[[at |-> 2, hasTCK |-> FALSE]]
                  /\ \A state \in Places(b) : walk[state] = GroupStep(b, walk, state)
  BY <1>3, GroupsIs
<1>6. ASSUME NEW i \in 1..n
      PROVE  /\ High(b[2 + at[i - 1]]) = NibbleOf(s, i)
             /\ i # 1 => Low(b[2 + at[i - 1]]) = s.protocols[i - 1]
  <2>0. NibbleOf(s, i) \in 0..15
    BY NibbleIs DEF n
  <2>1. CASE i = 1
    <3>1. b[2 + at[i - 1]] = NibbleOf(s, i) * 16 + Len(s.historical)
      BY <1>1, <1>2, <2>1 DEF T0Of
    <3> QED BY <1>3, <2>0, <2>1, <3>1, HighAndLow
  <2>2. CASE i # 1
    <3>1. i - 1 \in 1..n /\ i - 1 < n /\ (i - 1) + 1 = i /\ (i - 1) - 1 \in 0..n /\ i - 1 \in 0..n
          /\ i - 1 \in 1..(n - 1)
      BY <1>3, <2>2
    <3>2. at[i - 1] = at[(i - 1) - 1] + c(i - 1) + 1 /\ at[i - 1] <= at[n] /\ F[at[i - 1]] = TDOf(s, i)
      BY <1>1, <3>1
    <3>3. at[i - 1] \in 1..Len(F)
      <4>1. at[(i - 1) - 1] \in Nat /\ c(i - 1) \in Nat /\ at[i - 1] \in Nat
        <5>1. c(i - 1) \in 0..3
          BY InterfaceByteCount
        <5>2. at[(i - 1) - 1] \in Nat /\ at[i - 1] \in Nat
          BY <1>1, <3>1
        <5> QED BY <5>1, <5>2
      <4> HIDE DEF c
      <4> QED BY <1>1, <3>2, <4>1
    <3>4. b[2 + at[i - 1]] = NibbleOf(s, i) * 16 + s.protocols[i - 1]
      BY <1>2, <3>2, <3>3 DEF TDOf
    <3>5. s.protocols[i - 1] \in 0..15
      <4>1. s.protocols[i - 1] \in {0, 1}
        BY <3>1, StructureIs DEF n
      <4> QED BY <4>1
    <3> QED BY <2>0, <3>4, <3>5, HighAndLow
  <2> QED BY <2>1, <2>2
<1> DEFINE S == {i \in 1..n : \A h \in BOOLEAN :
                    walk[[at |-> 2 + at[i - 1], hasTCK |-> h]]
                      = [offset |-> 2 + at[n], hasTCK |-> h \/ HasTCK(s, i)]}
<1>7. ASSUME NEW i \in 1..n, \A j \in 1..n : j > i => j \in S
      PROVE  i \in S
  <2> SUFFICES ASSUME NEW h \in BOOLEAN
               PROVE  walk[[at |-> 2 + at[i - 1], hasTCK |-> h]]
                        = [offset |-> 2 + at[n], hasTCK |-> h \/ HasTCK(s, i)]
    OBVIOUS
  <2> DEFINE here == [at |-> 2 + at[i - 1], hasTCK |-> h]
             offset == 2 + at[i - 1] + c(i)
             k == h \/ Low(b[offset + 1]) # 0
             next == [at |-> offset + 1, hasTCK |-> k]
             presence == High(b[2 + at[i - 1]])
  <2>1. /\ at[i] = at[i - 1] + c(i) + (IF i < n THEN 1 ELSE 0) /\ at[i] <= at[n]
        /\ c(i) \in 0..3 /\ at[i - 1] \in Nat /\ at[i] \in Nat
    <3>1. i - 1 \in 0..n /\ i \in 0..n
      BY <1>3
    <3> QED BY <1>1, <3>1, InterfaceByteCount
  <2> HIDE DEF c
  <2>2. offset \in Nat /\ 2 + at[i - 1] \in 2..Len(b) /\ offset <= 2 + at[i]
        /\ (i < n => offset + 1 = 2 + at[i]) /\ at[i] + 2 <= Len(b)
    <3>1. \A x, y, z, t, l \in Nat : y = x + t /\ y <= z /\ l >= 2 + z =>
             2 + x \in 2..l /\ 2 + x <= 2 + y /\ y + 2 <= l
      OBVIOUS
    <3>2. PICK t \in Nat : at[i] = at[i - 1] + t /\ t >= c(i) /\ (i < n => t = c(i) + 1)
      <4>1. CASE i < n
        <5>1. c(i) + 1 \in Nat /\ c(i) + 1 >= c(i) /\ at[i] = at[i - 1] + (c(i) + 1)
          BY <2>1, <4>1
        <5> QED BY <5>1
      <4>2. CASE ~(i < n)
        <5>1. c(i) \in Nat /\ c(i) >= c(i) /\ at[i] = at[i - 1] + c(i)
          BY <2>1, <4>2
        <5> QED BY <4>2, <5>1
      <4> QED BY <4>1, <4>2
    <3>3. 2 + at[i - 1] \in 2..Len(b) /\ at[i] + 2 <= Len(b)
      BY <1>3, <1>4, <2>1, <3>1, <3>2
    <3>4. \A x, t_, k_ \in Nat : t_ >= k_ =>
             /\ 2 + x + k_ \in Nat /\ 2 + x + k_ <= 2 + (x + t_)
             /\ t_ = k_ + 1 => (2 + x + k_) + 1 = 2 + (x + t_)
      OBVIOUS
    <3>5. offset \in Nat /\ offset <= 2 + at[i] /\ (i < n => offset + 1 = 2 + at[i])
      <4>1. c(i) \in Nat /\ t \in Nat /\ at[i - 1] \in Nat /\ t >= c(i) /\ at[i] = at[i - 1] + t
        BY <2>1, <3>2
      <4>2. /\ offset \in Nat /\ offset <= 2 + (at[i - 1] + t)
            /\ t = c(i) + 1 => offset + 1 = 2 + (at[i - 1] + t)
        BY <3>4, <4>1
      <4> HIDE DEF offset
      <4> QED BY <3>2, <4>1, <4>2
    <3> QED BY <3>3, <3>5
  <2>3. here \in Places(b) /\ here.at = 2 + at[i - 1] /\ here.hasTCK = h
    BY <2>2 DEF Places
  <2>4. /\ presence = NibbleOf(s, i)
        /\ InterfaceBytes(presence) = c(i)
        /\ Has(presence, 8) <=> i < n
    <3>1. presence = NibbleOf(s, i)
      BY <1>6
    <3> QED BY <3>1, NibbleIs DEF n, c
  <2>5. walk[here] =
          IF offset > Len(b) \/ (offset = Len(b) /\ i < n) THEN Rejected
          ELSE IF ~(i < n) THEN [offset |-> offset, hasTCK |-> h]
          ELSE walk[next]
    <3>1. walk[here] = GroupStep(b, walk, here)
      BY <1>5, <2>3
    <3> HIDE DEF here
    <3>2. walk[here] =
          IF offset > Len(b) \/ (offset = Len(b) /\ Has(presence, 8)) THEN Rejected
          ELSE IF ~Has(presence, 8) THEN [offset |-> offset, hasTCK |-> h]
          ELSE walk[next]
      BY <2>3, <2>4, <3>1 DEF GroupStep
    <3> HIDE DEF presence, offset, next
    <3> QED BY <2>4, <3>2
  <2>6. CASE i < n
    <3>1. offset + 1 = 2 + at[i] /\ ~(offset > Len(b)) /\ offset # Len(b)
      <4>1. \A o, a, l \in Nat : o + 1 = 2 + a /\ a + 2 <= l => ~(o > l) /\ o # l
        OBVIOUS
      <4>2. offset \in Nat /\ at[i] \in Nat /\ Len(b) \in Nat
        BY <1>3, <2>1, <2>2
      <4>3. offset + 1 = 2 + at[i] /\ at[i] + 2 <= Len(b)
        BY <2>2, <2>6
      <4> HIDE DEF offset
      <4> QED BY <4>1, <4>2, <4>3
    <3>2. i + 1 \in 1..n /\ i + 1 > i /\ (i + 1) - 1 = i /\ i + 1 # 1
      BY <1>3, <2>6
    <3>3. Low(b[offset + 1]) = s.protocols[i]
      BY <1>6, <3>1, <3>2
    <3>4. walk[here] = walk[next]
      <4> HIDE DEF here, next, offset
      <4> QED BY <2>5, <2>6, <3>1
    <3>5. next = [at |-> 2 + at[i], hasTCK |-> k] /\ k \in BOOLEAN
      <4>1. next.at = 2 + at[i]
        BY <3>1
      <4> HIDE DEF offset
      <4> QED BY <3>1
    <3>6. walk[next] = [offset |-> 2 + at[n], hasTCK |-> k \/ HasTCK(s, i + 1)]
      <4> HIDE DEF next, k
      <4>1. i + 1 \in S
        BY <1>7, <3>2
      <4>2. walk[[at |-> 2 + at[(i + 1) - 1], hasTCK |-> k]]
              = [offset |-> 2 + at[n], hasTCK |-> k \/ HasTCK(s, i + 1)]
        BY <3>5, <4>1
      <4> QED BY <3>2, <3>5, <4>2
    <3>7. HasTCK(s, i) <=> s.protocols[i] # 0 \/ HasTCK(s, i + 1)
      <4>1. \A j : j \in i..(n - 1) <=> j = i \/ j \in (i + 1)..(n - 1)
        BY <1>3, <2>6
      <4> QED BY <4>1 DEF HasTCK, n
    <3>8. (k \/ HasTCK(s, i + 1)) = (h \/ HasTCK(s, i))
      BY <3>3, <3>7
    <3> HIDE DEF here, next, k
    <3> QED BY <3>4, <3>6, <3>8 DEF here
  <2>7. CASE ~(i < n)
    <3>1. i = n
      BY <1>3, <2>7
    <3>2. offset = 2 + at[n] /\ ~(offset > Len(b))
      <4>1. at[n] = at[i - 1] + c(i)
        <5>1. at[i] = at[i - 1] + c(i) + 0
          BY <2>1, <2>7
        <5> QED BY <2>1, <3>1, <5>1
      <4>2. \A x, y \in Nat : (2 + x) + y = 2 + (x + y)
        OBVIOUS
      <4>3. c(i) \in Nat
        BY <2>1
      <4>4. offset = 2 + at[n]
        BY <2>1, <4>1, <4>2, <4>3
      <4> HIDE DEF offset
      <4> QED BY <1>3, <1>4, <4>4
    <3>3. ~HasTCK(s, i)
      <4>1. i..(n - 1) = {}
        BY <1>3, <3>1
      <4> QED BY <4>1 DEF HasTCK, n
    <3>4. walk[here] = [offset |-> 2 + at[n], hasTCK |-> h]
      <4> HIDE DEF here, next, offset
      <4> QED BY <2>5, <2>7, <3>2
    <3>5. (h \/ HasTCK(s, i)) = h
      BY <3>3
    <3> HIDE DEF here
    <3> QED BY <3>4, <3>5 DEF here
  <2> QED BY <2>6, <2>7
<1>8. 1 \in S
  <2>1. 1 \in Nat /\ n \in Nat /\ 1 \in 1..n
    BY <1>3
  <2>3. 1..n \subseteq S
    <3> HIDE DEF S
    <3> QED BY <1>7, <2>1, DownwardInduction
  <2> QED BY <2>1, <2>3
<1>9. walk[[at |-> 2 + at[1 - 1], hasTCK |-> FALSE]] = [offset |-> 2 + at[n], hasTCK |-> FALSE \/ HasTCK(s, 1)]
  BY <1>8
<1>10. 2 + at[1 - 1] = 2 /\ (FALSE \/ HasTCK(s, 1)) = HasTCK(s, 1)
  <2>1. HasTCK(s, 1) \in BOOLEAN
    BY DEF HasTCK
  <2> QED BY <1>1, <2>1
<1>11. Groups(b) = [offset |-> 2 + at[n], hasTCK |-> HasTCK(s, 1)]
  BY <1>5, <1>9, <1>10
<1> QED BY <1>1, <1>11 DEF b, F

\* The historical bytes found are the ones the card put there.
LEMMA AssembledHistorical ==
    ASSUME NEW s \in Structures
    PROVE  historicalBytes(Assemble(s)) = [bytes |-> s.historical]
<1> DEFINE b == Assemble(s)
           m == 2 + Len(GroupsOf(s))
           h == s.historical
           groups == Groups(b)
<1>1. /\ b \in Seq(Byte)
      /\ Len(b) = m + Len(h) + (IF HasTCK(s, 1) THEN 1 ELSE 0)
      /\ b[1] = s.TS
      /\ b[2] = T0Of(s)
      /\ SubSeq(b, m + 1, m + Len(h)) = h
      /\ HasTCK(s, 1) => Checksum(b) = 0
  BY Assembled
<1>2. groups = [offset |-> m, hasTCK |-> HasTCK(s, 1)]
  BY AssembledGroups
<1>3. s.TS \in {59, 63} /\ Len(h) \in 0..15 /\ Len(GroupsOf(s)) \in Nat /\ m \in Nat /\ m >= 2
  <2>1. GroupsOf(s) \in Seq(Byte)
    BY GroupsLaid
  <2>2. Len(GroupsOf(s)) \in Nat
    BY <2>1, LenProperties
  <2> QED BY <2>2, StructureIs
<1> HIDE DEF b, m, h, groups
<1>4. Low(b[2]) = Len(h)
  <2>1. 1 \in 1..Many(s)
    BY StructureIs
  <2>2. NibbleOf(s, 1) \in 0..15
    BY <2>1, NibbleIs
  <2>3. b[2] = NibbleOf(s, 1) * 16 + Len(h)
    BY <1>1 DEF T0Of, h
  <2>4. Low(NibbleOf(s, 1) * 16 + Len(h)) = Len(h)
    BY <1>3, <2>2, HighAndLow
  <2> QED BY <2>3, <2>4
<1>5. groups # Rejected /\ groups.offset = m /\ groups.hasTCK = HasTCK(s, 1)
  <2>1. DOMAIN groups = {"offset", "hasTCK"} /\ DOMAIN Rejected = {"error"}
    BY <1>2 DEF Rejected
  <2>2. groups # Rejected
    BY <2>1
  <2>3. groups.offset = m /\ groups.hasTCK = HasTCK(s, 1)
    BY <1>2
  <2> QED BY <2>2, <2>3
<1>6. Len(b) >= 2
  <2>1. PICK y \in Nat : Len(b) = m + Len(h) + y
    BY <1>1
  <2> QED BY <1>3, <2>1
<1>7. LengthFits(b, groups, groups.offset + Low(b[2])) /\ ChecksumFits(b, groups)
  <2>1. LengthFits(b, groups, groups.offset + Low(b[2]))
    BY <1>1, <1>4, <1>5 DEF LengthFits
  <2>2. ChecksumFits(b, groups)
    BY <1>1, <1>5 DEF ChecksumFits
  <2> QED BY <2>1, <2>2
<1>8. historicalBytes(b) = [bytes |-> SubSeq(b, groups.offset + 1, groups.offset + Low(b[2]))]
  <2>1. ~(Len(b) < 2 \/ b[1] \notin {59, 63})
    <3>1. Len(b) \in Nat
      BY <1>1, LenProperties
    <3> QED BY <1>1, <1>3, <1>6, <3>1
  <2> QED BY <1>5, <1>7, <2>1 DEF historicalBytes, groups
<1> QED BY <1>1, <1>4, <1>5, <1>8 DEF b, h

\* For every structure a card may have, ParseATR reports its identity.
THEOREM IdentityOf ==
    ASSUME NEW s \in Structures
    PROVE  LET h      == s.historical
               result == ParseATR(Assemble(s))
           IN  CASE ~Vendor(h) -> result # Rejected /\ result.Identity = NoIdentity
                 [] Vendor(h) /\ Len(h) # 15 -> result = Rejected
                 [] OTHER ->
                       /\ result # Rejected
                       /\ result.Identity =
                             [ProductID |-> h[3] * 256 + h[4], SerialSuffix |-> SubSeq(h, 8, 15)]
<1> DEFINE b == Assemble(s)
           h == s.historical
           T == Vendor(h)
           identity == [ProductID |-> h[3] * 256 + h[4], SerialSuffix |-> SubSeq(h, 8, 15)]
           Report(x) == [Raw |-> b, Identity |-> x]
<1>1. b \in Seq(Byte) /\ historicalBytes(b) = [bytes |-> h]
  BY Assembled, AssembledHistorical
<1> HIDE DEF b, h
<1>2. WellFormed(b) /\ HistoricalOf(b) = h
  <2>1. historicalBytes(b) = IF WellFormed(b) THEN [bytes |-> HistoricalOf(b)] ELSE Rejected
    BY <1>1, HistoricalBytesFound
  <2>2. DOMAIN [bytes |-> h] = {"bytes"} /\ DOMAIN Rejected = {"error"}
    BY DEF Rejected
  <2>3. WellFormed(b)
    BY <1>1, <2>1, <2>2
  <2>4. [bytes |-> HistoricalOf(b)] = [bytes |-> h]
    BY <1>1, <2>1, <2>3
  <2>5. \A x, y : [bytes |-> x] = [bytes |-> y] => x = y
    <3>1. ASSUME NEW x, NEW y, [bytes |-> x] = [bytes |-> y] PROVE x = y
      <4>1. [bytes |-> x].bytes = [bytes |-> y].bytes
        BY <3>1
      <4> QED BY <4>1
    <3> QED BY <3>1
  <2> QED BY <2>3, <2>4, <2>5
<1>3. ParseATR(b) = IF T /\ Len(h) # 15 THEN Rejected ELSE Report(IF T THEN identity ELSE NoIdentity)
  BY <1>1, <1>2, ATRMeaning DEF Meaning
<1>4. \A x : Report(x) # Rejected /\ Report(x).Identity = x
  <2> SUFFICES ASSUME NEW x PROVE Report(x) # Rejected /\ Report(x).Identity = x
    OBVIOUS
  <2>1. DOMAIN Report(x) = {"Raw", "Identity"} /\ DOMAIN Rejected = {"error"}
    BY DEF Rejected
  <2> QED BY <2>1
<1> HIDE DEF T, identity, Report
<1>5. CASE ~T
  <2>1. ParseATR(b) = Report(NoIdentity)
    BY <1>3, <1>5
  <2> QED BY <1>4, <1>5, <2>1 DEF b, h, T
<1>6. CASE T /\ Len(h) # 15
  BY <1>3, <1>6 DEF b, h, T
<1>7. CASE T /\ Len(h) = 15
  <2>1. ParseATR(b) = Report(identity)
    BY <1>3, <1>7
  <2> QED BY <1>4, <1>7, <2>1 DEF b, h, T, identity
<1> QED BY <1>5, <1>6, <1>7

-----------------------------------------------------------------------------
\* The data of a token, whole and damaged.

Kinds ==
    \/ kind = "atr" /\ sent \in Structures
    \/ kind = "configuration" /\ sent \in Masks
    \/ kind = "serial" /\ sent \in Serials

\* The ten bytes of a configuration.
LEMMA ConfigurationIs ==
    ASSUME NEW x \in Masks
    PROVE  LET e == Encoding("configuration", x)
           IN  /\ x[1] \in Byte /\ x[2] \in Byte /\ x[3] \in Byte
               /\ e \in Seq(Byte) /\ Len(e) = 10
               /\ e[1] = x[1] /\ e[2] = x[2] /\ e[10] = x[3]
<1> DEFINE e == Encoding("configuration", x)
<1>1. x[1] \in Byte /\ x[2] \in Byte /\ x[3] \in Byte /\ 0 \in Byte
  <2>1. x \in Byte \X Byte \X Byte
    BY DataAssumption
  <2> QED BY <2>1 DEF Byte
<1>2. e = <<x[1], x[2], 0, 0, 0, 0, 0, 0, 0, x[3]>>
  BY DEF Encoding
<1> HIDE DEF e
<1>3. Len(e) = 10 /\ e[1] = x[1] /\ e[2] = x[2] /\ e[10] = x[3]
  BY <1>2
<1>4. e \in Seq(Byte)
  BY <1>1, <1>2
<1> QED BY <1>1, <1>3, <1>4 DEF e

LEMMA SerialIs ==
    ASSUME NEW x \in Serials
    PROVE  LET e == Encoding("serial", x)
           IN  /\ x \in Seq(Byte) /\ Len(x) \in Byte
               /\ e \in Seq(Byte) /\ Len(e) = Len(x) + 2
               /\ e[1] = 209 /\ e[2] = Len(x)
               /\ \A i \in 1..Len(x) : e[i + 2] = x[i]
<1> DEFINE e == Encoding("serial", x)
           head == <<209, Len(x)>>
<1>1. x \in Seq(Byte) /\ Len(x) \in Byte /\ Len(x) \in Nat
  <2>1. x \in Seq(Byte) /\ Len(x) \in Byte
    BY DataAssumption
  <2>2. \A n \in Byte : n \in Nat
    BY DEF Byte
  <2> QED BY <2>1, <2>2
<1>2. e = head \o x
  BY DEF Encoding
<1>3. head \in Seq(Byte) /\ Len(head) = 2 /\ head[1] = 209 /\ head[2] = Len(x)
  <2>1. 209 \in Byte
    BY DEF Byte
  <2> QED BY <1>1, <2>1
<1> HIDE DEF e, head
<1>4. /\ e \in Seq(Byte) /\ Len(e) = 2 + Len(x)
      /\ \A i \in 1..(2 + Len(x)) : e[i] = IF i <= 2 THEN head[i] ELSE x[i - 2]
  <2>1. /\ head \o x \in Seq(Byte) /\ Len(head \o x) = Len(head) + Len(x)
        /\ \A i \in 1..(Len(head) + Len(x)) : (head \o x)[i] = IF i <= Len(head) THEN head[i] ELSE x[i - Len(head)]
    <3>1. head \in Seq(Byte) /\ x \in Seq(Byte)
      BY <1>1, <1>3
    <3> QED BY <3>1, ConcatProperties
  <2> QED BY <1>2, <1>3, <2>1
<1>5. e[1] = 209 /\ e[2] = Len(x)
  BY <1>1, <1>3, <1>4
<1>6. ASSUME NEW i \in 1..Len(x) PROVE e[i + 2] = x[i]
  <2>1. i + 2 \in 1..(2 + Len(x)) /\ ~(i + 2 <= 2) /\ (i + 2) - 2 = i
    BY <1>1
  <2> QED BY <1>4, <2>1
<1> QED BY <1>1, <1>4, <1>5, <1>6 DEF e

LEMMA EncodingIs ==
    ASSUME Kinds
    PROVE  Encoding(kind, sent) \in Seq(Byte)
<1>1. CASE kind = "atr" /\ sent \in Structures
  <2>1. Encoding(kind, sent) = Assemble(sent)
    BY <1>1 DEF Encoding
  <2> QED BY <1>1, <2>1, Assembled
<1>2. CASE kind = "configuration" /\ sent \in Masks
  BY <1>2, ConfigurationIs
<1>3. CASE kind = "serial" /\ sent \in Serials
  BY <1>3, SerialIs
<1> QED BY <1>1, <1>2, <1>3 DEF Kinds

LEMMA InvAtInit == Init => Inv
<1> SUFFICES ASSUME Init PROVE Inv
  OBVIOUS
<1>1. Kinds /\ bytes = Encoding(kind, sent) /\ damage = "none"
  BY DEF Init, Kinds
<1>2. bytes \in Seq(Byte)
  BY <1>1, EncodingIs
<1> QED BY <1>1, <1>2 DEF Inv, Kinds

\* What is left of whole data.
LEMMA InvOfDamage ==
    ASSUME Inv, damage = "none", UNCHANGED <<kind, sent>>,
           bytes' \in Seq(Byte), damage' \in {"cut", "padded", "changed", "flipped"},
           damage' = "cut" => Len(bytes') < Len(bytes) /\ IsPrefix(bytes', bytes),
           damage' = "padded" => IsPrefix(bytes, bytes'),
           damage' = "flipped" => kind = "configuration"
    PROVE  Inv'
<1>1. Kinds /\ bytes = Encoding(kind, sent)
  BY DEF Inv, Kinds
<1>2. Kinds'
  BY <1>1 DEF Kinds
<1>3. Encoding(kind, sent)' = bytes
  BY <1>1 DEF Encoding
<1>4. damage' \in {"none", "cut", "padded", "changed", "flipped"} /\ damage' # "none"
  OBVIOUS
<1>5. Len(Encoding(kind, sent)') = Len(bytes)
  BY <1>3
<1> QED BY <1>2, <1>3, <1>4 DEF Inv, Kinds

LEMMA InvKept == Inv /\ [Next]_vars => Inv'
<1> SUFFICES ASSUME Inv, [Next]_vars PROVE Inv'
  OBVIOUS
<1>1. bytes \in Seq(Byte) /\ Len(bytes) \in Nat /\ \A i \in 1..Len(bytes) : bytes[i] \in Byte
  <2>1. bytes \in Seq(Byte)
    BY DEF Inv
  <2> QED BY <2>1, LenProperties, ElementOfSeq
<1>2. DOMAIN bytes = 1..Len(bytes)
  BY <1>1, LenProperties
<1>3. CASE Cut
  <2>1. damage = "none" /\ damage' = "cut" /\ UNCHANGED <<kind, sent>>
    BY <1>3 DEF Cut, Damaged
  <2>2. PICK n \in 0..(Len(bytes) - 1) : bytes' = SubSeq(bytes, 1, n)
    BY <1>3 DEF Cut
  <2>3. n \in Int /\ 1 \in Int /\ (n - 1) + 1 = n /\ n < Len(bytes) /\ n \in Nat
        /\ \A i \in 1..n : i \in 1..Len(bytes) /\ (1 + i) - 1 = i
    BY <1>1
  <2>4. \A i \in 1..n : bytes[i] \in Byte
    BY <1>1, <2>3
  <2>5. /\ bytes' \in Seq(Byte) /\ Len(bytes') = (IF 1 <= n THEN (n - 1) + 1 ELSE 0)
        /\ \A i \in 1..((n - 1) + 1) : bytes'[i] = bytes[(1 + i) - 1]
    BY <2>2, <2>3, <2>4, SubSeqProperties
  <2>6. Len(bytes') = n
    BY <2>3, <2>5
  <2>7. \A i \in 1..n : bytes'[i] = bytes[i]
    BY <2>3, <2>5
  <2>8. IsPrefix(bytes', bytes)
    <3>1. Len(bytes') <= Len(bytes) /\ \A i \in 1..Len(bytes') : bytes'[i] = bytes[i]
      BY <1>1, <2>3, <2>6, <2>7
    <3> QED BY <1>1, <2>5, <3>1, PrefixElements
  <2> QED BY <2>1, <2>3, <2>5, <2>6, <2>8, InvOfDamage, SMTT(30)
<1>4. CASE Pad
  <2>1. damage = "none" /\ damage' = "padded" /\ UNCHANGED <<kind, sent>>
    BY <1>4 DEF Pad, Damaged
  <2>2. PICK n \in 1..MaxPadding, byte \in StrayBytes : bytes' = bytes \o [i \in 1..n |-> byte]
    BY <1>4 DEF Pad
  <2> DEFINE more == [i \in 1..n |-> byte]
  <2>3. more \in Seq(Byte) /\ Len(more) \in Nat
    <3>1. n \in Nat /\ byte \in Byte
      BY DataAssumption
    <3>2. more \in [1..n -> Byte]
      BY <3>1
    <3> HIDE DEF more
    <3> QED BY <3>1, <3>2, FunctionIsSeq
  <2>4. bytes' = bytes \o more
    BY <2>2
  <2> HIDE DEF more
  <2>5. /\ bytes' \in Seq(Byte) /\ Len(bytes') = Len(bytes) + Len(more)
        /\ \A i \in 1..(Len(bytes) + Len(more)) : bytes'[i] = IF i <= Len(bytes) THEN bytes[i] ELSE more[i - Len(bytes)]
    BY <1>1, <2>3, <2>4, ConcatProperties
  <2>6. IsPrefix(bytes, bytes')
    <3>1. Len(bytes) <= Len(bytes') /\ \A i \in 1..Len(bytes) : bytes[i] = bytes'[i]
      BY <1>1, <2>3, <2>5
    <3> QED BY <1>1, <2>5, <3>1, PrefixElements
  <2> QED BY <2>1, <2>5, <2>6, InvOfDamage, SMTT(30)
<1>5. CASE Change
  <2>1. damage = "none" /\ damage' = "changed" /\ UNCHANGED <<kind, sent>>
    BY <1>5 DEF Change, Damaged
  <2>2. PICK i \in DOMAIN bytes : \E byte \in StrayBytes \ {bytes[i]} : bytes' = [bytes EXCEPT ![i] = byte]
    BY <1>5 DEF Change
  <2>3. PICK byte \in StrayBytes : bytes' = [bytes EXCEPT ![i] = byte]
    BY <2>2
  <2>4. i \in 1..Len(bytes) /\ byte \in Byte
    BY <1>2, DataAssumption
  <2>5. bytes' \in Seq(Byte)
    BY <1>1, <2>3, <2>4, ExceptSeq
  <2>6. /\ damage' \in {"cut", "padded", "changed", "flipped"}
        /\ damage' # "cut" /\ damage' # "padded"
        /\ damage' = "flipped" => kind = "configuration"
    BY <2>1
  <2> QED BY <2>1, <2>5, <2>6, InvOfDamage, SMTT(30)
<1>6. ASSUME NEW i \in {1, 2, 10}, NEW mask \in BitMasks, FlipBit(i, mask) PROVE Inv'
  <2>1. damage = "none" /\ damage' = "flipped" /\ UNCHANGED <<kind, sent>> /\ kind = "configuration"
    BY <1>6 DEF FlipBit, Damaged
  <2>2. bytes' = [bytes EXCEPT ![i] = Flipped(bytes[i], mask)]
    BY <1>6 DEF FlipBit, Flipped
  <2>3. i \in 1..Len(bytes)
    <3>1. bytes = Encoding("configuration", sent) /\ sent \in Masks
      BY <2>1 DEF Inv
    <3>2. Len(bytes) = 10
      BY <3>1, ConfigurationIs
    <3> QED BY <3>2
  <2>4. Flipped(bytes[i], mask) \in Byte
    BY <1>1, <2>3, FlipOne
  <2>5. bytes' \in Seq(Byte)
    BY <1>1, <2>2, <2>3, <2>4, ExceptSeq
  <2>6. /\ damage' \in {"cut", "padded", "changed", "flipped"}
        /\ damage' # "cut" /\ damage' # "padded"
        /\ damage' = "flipped" => kind = "configuration"
    BY <2>1
  <2> QED BY <2>1, <2>5, <2>6, InvOfDamage, SMTT(30)
<1>7. CASE UNCHANGED vars
  BY <1>7 DEF Inv, vars, Encoding
<1> QED BY <1>3, <1>4, <1>5, <1>6, <1>7 DEF Next, BitMasks

\* What is left of the data on its way is bytes, and how they differ from what the
\* token sent is known from the damage.
THEOREM DataKnown == Spec => []Inv
<1>1. Init => Inv
  BY InvAtInit
<1>2. Inv /\ [Next]_vars => Inv'
  BY InvKept
<1> QED BY <1>1, <1>2, PTL DEF Spec

\* AcceptsTheGrammar: ParseATR accepts exactly the grammar, on any bytes a damaged
\* ATR may be left with.
THEOREM GrammarAlwaysDecides == Spec => []AcceptsTheGrammar
<1>1. Inv => AcceptsTheGrammar
  BY ATRAccepted DEF Inv, AcceptsTheGrammar
<1> QED BY <1>1, DataKnown, PTL

\* IdentityRead: whatever the interface bytes of a card, the identity read is the
\* one in its historical bytes.
THEOREM IdentityAlwaysRead == Spec => []IdentityRead
<1>1. Inv => IdentityRead
  <2> SUFFICES ASSUME Inv, kind = "atr", damage = "none" PROVE IdentityRead
    BY DEF IdentityRead
  <2>1. bytes = Assemble(sent) /\ sent \in Structures
    BY DEF Inv, Encoding
  <2> QED BY <2>1, IdentityOf DEF IdentityRead
<1> QED BY <1>1, DataKnown, PTL

\* CutClaimsNothing: fewer bytes than a configuration has are refused, or are the
\* legacy form, whose capabilities are unknown.
THEOREM CutNeverClaims == Spec => []CutClaimsNothing
<1>1. Inv => CutClaimsNothing
  <2> SUFFICES ASSUME Inv, kind = "configuration", damage = "cut"
               PROVE  Reported = Invalid \/ (Len(bytes) = 1 /\ Capabilities(Reported) = Unknown)
    BY DEF CutClaimsNothing
  <2>1. sent \in Masks /\ bytes \in Seq(Byte) /\ Len(bytes) < Len(Encoding("configuration", sent))
    BY DEF Inv
  <2>2. Len(bytes) \in Nat /\ Len(bytes) < 10
    BY <2>1, ConfigurationIs, LenProperties
  <2>3. CASE Len(bytes) = 1
    <3>1. Reported.Raw = bytes
      BY <2>3 DEF Reported, ParseConfiguration
    <3> QED BY <2>3, <3>1 DEF Capabilities
  <2>4. CASE Len(bytes) # 1
    <3>1. Len(bytes) = 0 \/ Len(bytes) \in 2..9
      <4>1. \A n \in Nat : n < 10 /\ n # 1 => n = 0 \/ n \in 2..9
        OBVIOUS
      <4> QED BY <2>2, <2>4, <4>1
    <3> QED BY <3>1 DEF Reported, ParseConfiguration
  <2> QED BY <2>3, <2>4
<1> QED BY <1>1, DataKnown, PTL

\* A whole serial number is read, whatever follows it.
LEMMA SerialRead ==
    ASSUME NEW x \in Serials, NEW b \in Seq(Byte), IsPrefix(Encoding("serial", x), b)
    PROVE  ParseSerialNumber(b) = [value |-> x]
<1> DEFINE e == Encoding("serial", x)
           n == Len(x)
           m == 2 + n
           value == SubSeq(b, 3, m)
<1>1. /\ x \in Seq(Byte) /\ n \in Nat
      /\ e \in Seq(Byte) /\ Len(e) = n + 2
      /\ e[1] = 209 /\ e[2] = n
      /\ \A i \in 1..n : e[i + 2] = x[i]
  BY SerialIs, LenProperties
<1> HIDE DEF e
<1>2. Len(e) <= Len(b) /\ \A i \in 1..Len(e) : e[i] = b[i]
  BY <1>1, PrefixElements DEF e
<1>3. Len(b) \in Nat
  BY LenProperties
<1> HIDE DEF n
<1>4. Len(b) >= 2 /\ n <= Len(b) - 2 /\ b[1] = 209 /\ b[2] = n
  BY <1>1, <1>2, <1>3
<1>5. ParseSerialNumber(b) = [value |-> value]
  BY <1>1, <1>3, <1>4 DEF ParseSerialNumber
<1>6. \A i \in 1..n : b[i + 2] = x[i]
  <2>1. \A i \in 1..n : i + 2 \in 1..Len(e)
    BY <1>1
  <2> QED BY <1>1, <1>2, <2>1
<1>7. value = x
  <2>1. 3 \in Int /\ m \in Int /\ (m - 3) + 1 = n /\ (3 <= m <=> n >= 1)
        /\ \A i \in 3..m : i \in 1..Len(b)
    BY <1>1, <1>3, <1>4
  <2>2. \A i \in 3..m : b[i] \in Byte
    BY <2>1, ElementOfSeq
  <2>3. \A i \in 1..n : (3 + i) - 1 = i + 2
    BY <1>1
  <2> HIDE DEF m
  <2>4. /\ value \in Seq(Byte) /\ Len(value) = (IF 3 <= m THEN (m - 3) + 1 ELSE 0)
        /\ \A i \in 1..((m - 3) + 1) : value[i] = b[(3 + i) - 1]
    BY <2>1, <2>2, SubSeqProperties
  <2>5. Len(value) = n
    BY <1>1, <2>1, <2>4
  <2>6. \A i \in 1..n : value[i] = x[i]
    BY <1>6, <2>1, <2>3, <2>4
  <2> HIDE DEF value
  <2> QED BY <1>1, <2>4, <2>5, <2>6, SeqEqual DEF n
<1> QED BY <1>5, <1>7

\* What is left of a serial number that is cut is refused.
LEMMA CutSerialRefused ==
    ASSUME NEW x \in Serials, NEW b \in Seq(Byte), IsPrefix(b, Encoding("serial", x)),
           Len(b) < Len(Encoding("serial", x))
    PROVE  ParseSerialNumber(b) = Invalid
<1> DEFINE e == Encoding("serial", x)
           n == Len(x)
<1>1. n \in Nat /\ e \in Seq(Byte) /\ Len(e) = n + 2 /\ e[2] = n
  BY SerialIs, LenProperties
<1> HIDE DEF e
<1>2. Len(b) \in Nat /\ \A i \in 1..Len(b) : b[i] = e[i]
  BY <1>1, PrefixElements, LenProperties DEF e
<1>3. Len(b) < n + 2
  BY <1>1 DEF e
<1> HIDE DEF n
<1>4. Len(b) >= 2 => b[2] > Len(b) - 2
  BY <1>1, <1>2, <1>3
<1> QED BY <1>2, <1>4 DEF ParseSerialNumber

\* SerialWhole: a serial number is read whole or not at all.
THEOREM SerialAlwaysWhole == Spec => []SerialWhole
<1>1. Inv => SerialWhole
  <2> SUFFICES ASSUME Inv, kind = "serial", damage # "changed"
               PROVE  ParseSerialNumber(bytes) = IF damage = "cut" THEN Invalid ELSE [value |-> sent]
    BY DEF SerialWhole
  <2>1. sent \in Serials /\ bytes \in Seq(Byte) /\ damage \in {"none", "cut", "padded"}
    BY DEF Inv
  <2>2. CASE damage = "none"
    <3>1. Encoding("serial", sent) \in Seq(Byte) /\ bytes = Encoding("serial", sent)
      BY <2>1, <2>2, SerialIs DEF Inv
    <3>2. IsPrefix(Encoding("serial", sent), bytes)
      <4>1. Len(bytes) \in Nat
        BY <2>1, LenProperties
      <4> QED BY <2>1, <3>1, <4>1, PrefixElements
    <3> QED BY <2>1, <2>2, <3>2, SerialRead
  <2>3. CASE damage = "cut"
    <3>1. IsPrefix(bytes, Encoding("serial", sent)) /\ Len(bytes) < Len(Encoding("serial", sent))
      BY <2>3 DEF Inv
    <3> QED BY <2>1, <2>3, <3>1, CutSerialRefused
  <2>4. CASE damage = "padded"
    <3>1. IsPrefix(Encoding("serial", sent), bytes)
      BY <2>4 DEF Inv
    <3> QED BY <2>1, <2>4, <3>1, SerialRead
  <2> QED BY <2>1, <2>2, <2>3, <2>4
<1> QED BY <1>1, DataKnown, PTL

-----------------------------------------------------------------------------
\* Settings and flags.

\* The bit of each flag.
InterfaceBits ==
    [FIDOEnabled |-> 1, HOTPKeystrokeEnabled |-> 2, CCIDEnabled |-> 4]

ConfigurationBits ==
    [ButtonHOTPSendsEnter |-> 1, FIDOPINSet |-> 2, SupportsHOTP |-> 4, HasFingerprintSensor |-> 8,
     SupportsNFC |-> 16, ButtonHOTPRequiresLongPress |-> 32, FIDOPINLocked |-> 64,
     ButtonHOTPConfigured |-> 128]

ExtensionBits ==
    [SupportsTOTP |-> 1, SupportsFIDO21 |-> 2, SupportsFingerprintRegistration |-> 4,
     ButtonHOTPUsesNumericKeypad |-> 8, SupportsCCID |-> 16, SupportsButtonHOTP |-> 32,
     OTPRequiresFingerprint |-> 64, SupportsMandatoryFingerprint |-> 128]

\* A flag moves with its bit.
Moved(byte, other, mask) == ~(Has(byte, mask) <=> Has(other, mask))

LEMMA InterfaceMoves ==
    ASSUME NEW c, NEW d
    PROVE  Changed(InterfaceState(c), InterfaceState(d)) =
              {x \in DOMAIN InterfaceBits : Moved(c.TransferType, d.TransferType, InterfaceBits[x])}
BY DEF Changed, InterfaceState, InterfaceBits, Moved

LEMMA FlagsMove ==
    ASSUME NEW c, NEW d
    PROVE  Changed(Flags(c), Flags(d)) =
              {x \in DOMAIN ConfigurationBits :
                  Moved(c.DeviceConfiguration, d.DeviceConfiguration, ConfigurationBits[x])}
              \cup
              {x \in DOMAIN ExtensionBits :
                  Moved(c.DeviceExtension, d.DeviceExtension, ExtensionBits[x])}
<1> DEFINE A == DOMAIN ConfigurationBits
           B == DOMAIN ExtensionBits
           P(x) == Moved(c.DeviceConfiguration, d.DeviceConfiguration, ConfigurationBits[x])
           Q(x) == Moved(c.DeviceExtension, d.DeviceExtension, ExtensionBits[x])
<1>1. DOMAIN Flags(c) = A \cup B
  BY DEF Flags, ConfigurationBits, ExtensionBits
<1>2. ASSUME NEW x \in A PROVE Flags(c)[x] # Flags(d)[x] <=> P(x)
  <2>1. CASE x = "ButtonHOTPSendsEnter"
    BY <2>1 DEF Flags, ConfigurationBits, Moved, Has
  <2>2. CASE x = "FIDOPINSet"
    BY <2>2 DEF Flags, ConfigurationBits, Moved, Has
  <2>3. CASE x = "SupportsHOTP"
    BY <2>3 DEF Flags, ConfigurationBits, Moved, Has
  <2>4. CASE x = "HasFingerprintSensor"
    BY <2>4 DEF Flags, ConfigurationBits, Moved, Has
  <2>5. CASE x = "SupportsNFC"
    BY <2>5 DEF Flags, ConfigurationBits, Moved, Has
  <2>6. CASE x = "ButtonHOTPRequiresLongPress"
    BY <2>6 DEF Flags, ConfigurationBits, Moved, Has
  <2>7. CASE x = "FIDOPINLocked"
    BY <2>7 DEF Flags, ConfigurationBits, Moved, Has
  <2>8. CASE x = "ButtonHOTPConfigured"
    BY <2>8 DEF Flags, ConfigurationBits, Moved, Has
  <2> QED BY <2>1, <2>2, <2>3, <2>4, <2>5, <2>6, <2>7, <2>8 DEF ConfigurationBits
<1>3. ASSUME NEW x \in B PROVE Flags(c)[x] # Flags(d)[x] <=> Q(x)
  <2>1. CASE x = "SupportsTOTP"
    BY <2>1 DEF Flags, ExtensionBits, Moved, Has
  <2>2. CASE x = "SupportsFIDO21"
    BY <2>2 DEF Flags, ExtensionBits, Moved, Has
  <2>3. CASE x = "SupportsFingerprintRegistration"
    BY <2>3 DEF Flags, ExtensionBits, Moved, Has
  <2>4. CASE x = "ButtonHOTPUsesNumericKeypad"
    BY <2>4 DEF Flags, ExtensionBits, Moved, Has
  <2>5. CASE x = "SupportsCCID"
    BY <2>5 DEF Flags, ExtensionBits, Moved, Has
  <2>6. CASE x = "SupportsButtonHOTP"
    BY <2>6 DEF Flags, ExtensionBits, Moved, Has
  <2>7. CASE x = "OTPRequiresFingerprint"
    BY <2>7 DEF Flags, ExtensionBits, Moved, Has
  <2>8. CASE x = "SupportsMandatoryFingerprint"
    BY <2>8 DEF Flags, ExtensionBits, Moved, Has
  <2> QED BY <2>1, <2>2, <2>3, <2>4, <2>5, <2>6, <2>7, <2>8 DEF ExtensionBits
<1> HIDE DEF A, B, P, Q
<1>4. Changed(Flags(c), Flags(d)) = {x \in A : P(x)} \cup {x \in B : Q(x)}
  BY <1>1, <1>2, <1>3 DEF Changed
<1> QED BY <1>4 DEF A, B, P, Q

\* Every bit of a byte has one flag.
LEMMA OneFlag ==
    ASSUME NEW mask \in BitMasks
    PROVE  /\ mask \in {1, 2, 4} => \E x : {y \in DOMAIN InterfaceBits : InterfaceBits[y] = mask} = {x}
           /\ \E x : {y \in DOMAIN ConfigurationBits : ConfigurationBits[y] = mask} = {x}
           /\ \E x : {y \in DOMAIN ExtensionBits : ExtensionBits[y] = mask} = {x}
<1>1. ASSUME mask \in {1, 2, 4}
      PROVE  \E x : {y \in DOMAIN InterfaceBits : InterfaceBits[y] = mask} = {x}
  <2>1. CASE mask = 1
    <3>1. {y \in DOMAIN InterfaceBits : InterfaceBits[y] = mask} = {"FIDOEnabled"}
      BY <2>1 DEF InterfaceBits
    <3> QED BY <3>1
  <2>2. CASE mask = 2
    <3>1. {y \in DOMAIN InterfaceBits : InterfaceBits[y] = mask} = {"HOTPKeystrokeEnabled"}
      BY <2>2 DEF InterfaceBits
    <3> QED BY <3>1
  <2>3. CASE mask = 4
    <3>1. {y \in DOMAIN InterfaceBits : InterfaceBits[y] = mask} = {"CCIDEnabled"}
      BY <2>3 DEF InterfaceBits
    <3> QED BY <3>1
  <2> QED BY <1>1, <2>1, <2>2, <2>3
<1>2. \E x : {y \in DOMAIN ConfigurationBits : ConfigurationBits[y] = mask} = {x}
  <2>1. CASE mask = 1
    <3>1. {y \in DOMAIN ConfigurationBits : ConfigurationBits[y] = mask} = {"ButtonHOTPSendsEnter"}
      BY <2>1 DEF ConfigurationBits
    <3> QED BY <3>1
  <2>2. CASE mask = 2
    <3>1. {y \in DOMAIN ConfigurationBits : ConfigurationBits[y] = mask} = {"FIDOPINSet"}
      BY <2>2 DEF ConfigurationBits
    <3> QED BY <3>1
  <2>3. CASE mask = 4
    <3>1. {y \in DOMAIN ConfigurationBits : ConfigurationBits[y] = mask} = {"SupportsHOTP"}
      BY <2>3 DEF ConfigurationBits
    <3> QED BY <3>1
  <2>4. CASE mask = 8
    <3>1. {y \in DOMAIN ConfigurationBits : ConfigurationBits[y] = mask} = {"HasFingerprintSensor"}
      BY <2>4 DEF ConfigurationBits
    <3> QED BY <3>1
  <2>5. CASE mask = 16
    <3>1. {y \in DOMAIN ConfigurationBits : ConfigurationBits[y] = mask} = {"SupportsNFC"}
      BY <2>5 DEF ConfigurationBits
    <3> QED BY <3>1
  <2>6. CASE mask = 32
    <3>1. {y \in DOMAIN ConfigurationBits : ConfigurationBits[y] = mask} = {"ButtonHOTPRequiresLongPress"}
      BY <2>6 DEF ConfigurationBits
    <3> QED BY <3>1
  <2>7. CASE mask = 64
    <3>1. {y \in DOMAIN ConfigurationBits : ConfigurationBits[y] = mask} = {"FIDOPINLocked"}
      BY <2>7 DEF ConfigurationBits
    <3> QED BY <3>1
  <2>8. CASE mask = 128
    <3>1. {y \in DOMAIN ConfigurationBits : ConfigurationBits[y] = mask} = {"ButtonHOTPConfigured"}
      BY <2>8 DEF ConfigurationBits
    <3> QED BY <3>1
  <2> QED BY <2>1, <2>2, <2>3, <2>4, <2>5, <2>6, <2>7, <2>8 DEF BitMasks
<1>3. \E x : {y \in DOMAIN ExtensionBits : ExtensionBits[y] = mask} = {x}
  <2>1. CASE mask = 1
    <3>1. {y \in DOMAIN ExtensionBits : ExtensionBits[y] = mask} = {"SupportsTOTP"}
      BY <2>1 DEF ExtensionBits
    <3> QED BY <3>1
  <2>2. CASE mask = 2
    <3>1. {y \in DOMAIN ExtensionBits : ExtensionBits[y] = mask} = {"SupportsFIDO21"}
      BY <2>2 DEF ExtensionBits
    <3> QED BY <3>1
  <2>3. CASE mask = 4
    <3>1. {y \in DOMAIN ExtensionBits : ExtensionBits[y] = mask} = {"SupportsFingerprintRegistration"}
      BY <2>3 DEF ExtensionBits
    <3> QED BY <3>1
  <2>4. CASE mask = 8
    <3>1. {y \in DOMAIN ExtensionBits : ExtensionBits[y] = mask} = {"ButtonHOTPUsesNumericKeypad"}
      BY <2>4 DEF ExtensionBits
    <3> QED BY <3>1
  <2>5. CASE mask = 16
    <3>1. {y \in DOMAIN ExtensionBits : ExtensionBits[y] = mask} = {"SupportsCCID"}
      BY <2>5 DEF ExtensionBits
    <3> QED BY <3>1
  <2>6. CASE mask = 32
    <3>1. {y \in DOMAIN ExtensionBits : ExtensionBits[y] = mask} = {"SupportsButtonHOTP"}
      BY <2>6 DEF ExtensionBits
    <3> QED BY <3>1
  <2>7. CASE mask = 64
    <3>1. {y \in DOMAIN ExtensionBits : ExtensionBits[y] = mask} = {"OTPRequiresFingerprint"}
      BY <2>7 DEF ExtensionBits
    <3> QED BY <3>1
  <2>8. CASE mask = 128
    <3>1. {y \in DOMAIN ExtensionBits : ExtensionBits[y] = mask} = {"SupportsMandatoryFingerprint"}
      BY <2>8 DEF ExtensionBits
    <3> QED BY <3>1
  <2> QED BY <2>1, <2>2, <2>3, <2>4, <2>5, <2>6, <2>7, <2>8 DEF BitMasks
<1> QED BY <1>1, <1>2, <1>3

LEMMA MovedByFlip ==
    ASSUME NEW byte \in Byte, NEW mask \in BitMasks, NEW m \in BitMasks
    PROVE  /\ Moved(byte, Flipped(byte, mask), m) <=> m = mask
           /\ ~Moved(byte, byte, m)
BY FlipOne DEF Moved

\* One flipped bit of a configuration, in terms of the two reports.
LEMMA FlipMovesOneFlag ==
    ASSUME NEW c, NEW d, NEW i \in {1, 2, 10}, NEW mask \in BitMasks, i = 1 => mask \in {1, 2, 4},
           c.TransferType \in Byte, c.DeviceConfiguration \in Byte, c.DeviceExtension \in Byte,
           d.TransferType = IF i = 1 THEN Flipped(c.TransferType, mask) ELSE c.TransferType,
           d.DeviceConfiguration =
              IF i = 2 THEN Flipped(c.DeviceConfiguration, mask) ELSE c.DeviceConfiguration,
           d.DeviceExtension = IF i = 10 THEN Flipped(c.DeviceExtension, mask) ELSE c.DeviceExtension
    PROVE  Cardinality(Changed(InterfaceState(c), InterfaceState(d)))
              + Cardinality(Changed(Flags(c), Flags(d))) = 1
<1> DEFINE I == {x \in DOMAIN InterfaceBits : Moved(c.TransferType, d.TransferType, InterfaceBits[x])}
           C == {x \in DOMAIN ConfigurationBits :
                   Moved(c.DeviceConfiguration, d.DeviceConfiguration, ConfigurationBits[x])}
           E == {x \in DOMAIN ExtensionBits :
                   Moved(c.DeviceExtension, d.DeviceExtension, ExtensionBits[x])}
<1>1. /\ Changed(InterfaceState(c), InterfaceState(d)) = I
      /\ Changed(Flags(c), Flags(d)) = C \cup E
  BY InterfaceMoves, FlagsMove
<1>2. /\ \A x \in DOMAIN InterfaceBits : InterfaceBits[x] \in BitMasks
      /\ \A x \in DOMAIN ConfigurationBits : ConfigurationBits[x] \in BitMasks
      /\ \A x \in DOMAIN ExtensionBits : ExtensionBits[x] \in BitMasks
  BY DEF InterfaceBits, ConfigurationBits, ExtensionBits, BitMasks
<1>3. Cardinality({}) = 0 /\ \A x : Cardinality({x}) = 1
  BY FS_EmptySet, FS_Singleton
<1>4. CASE i = 1
  <2>1. I = {x \in DOMAIN InterfaceBits : InterfaceBits[x] = mask}
    BY <1>2, <1>4, MovedByFlip
  <2>2. C = {} /\ E = {}
    BY <1>2, <1>4, MovedByFlip
  <2> HIDE DEF I, C, E
  <2>3. PICK x : I = {x}
    BY <1>4, <2>1, OneFlag
  <2>4. C \cup E = {}
    BY <2>2
  <2>5. Cardinality(I) = 1 /\ Cardinality(C \cup E) = 0
    BY <1>3, <2>3, <2>4, Zenon
  <2> QED BY <1>1, <2>5
<1>5. CASE i = 2
  <2>1. C = {x \in DOMAIN ConfigurationBits : ConfigurationBits[x] = mask}
    BY <1>2, <1>5, MovedByFlip
  <2>2. I = {} /\ E = {}
    BY <1>2, <1>5, MovedByFlip
  <2> HIDE DEF I, C, E
  <2>3. PICK x : C = {x}
    BY <2>1, OneFlag
  <2>4. C \cup E = {x}
    BY <2>2, <2>3
  <2>5. Cardinality(I) = 0 /\ Cardinality(C \cup E) = 1
    BY <1>3, <2>2, <2>4, Zenon
  <2> QED BY <1>1, <2>5
<1>6. CASE i = 10
  <2>1. E = {x \in DOMAIN ExtensionBits : ExtensionBits[x] = mask}
    BY <1>2, <1>6, MovedByFlip
  <2>2. I = {} /\ C = {}
    BY <1>2, <1>6, MovedByFlip
  <2> HIDE DEF I, C, E
  <2>3. PICK x : E = {x}
    BY <2>1, OneFlag
  <2>4. C \cup E = {x}
    BY <2>2, <2>3
  <2>5. Cardinality(I) = 0 /\ Cardinality(C \cup E) = 1
    BY <1>3, <2>2, <2>4, Zenon
  <2> QED BY <1>1, <2>5
<1> QED BY <1>4, <1>5, <1>6

LEMMA ReportOfTen ==
    ASSUME NEW b, Len(b) = 10
    PROVE  LET c == ParseConfiguration(b)
           IN  /\ c.TransferType = b[1] /\ c.DeviceConfiguration = b[2] /\ c.DeviceExtension = b[10]
               /\ Capabilities(c).flags = Flags(c)
<1> DEFINE c == ParseConfiguration(b)
<1>1. c = [Raw |-> b, TransferType |-> b[1], DeviceConfiguration |-> b[2], DeviceExtension |-> b[10]]
  BY DEF ParseConfiguration
<1> HIDE DEF c
<1>2. c.Raw = b /\ c.TransferType = b[1] /\ c.DeviceConfiguration = b[2] /\ c.DeviceExtension = b[10]
  BY <1>1
<1>3. Capabilities(c) = [known |-> TRUE, flags |-> Flags(c)]
  <2>1. ~(Len(c.Raw) < 10)
    <3>1. Len(c.Raw) = Len(b) /\ Len(b) = 10
      BY <1>2
    <3>2. ~(10 < 10)
      OBVIOUS
    <3> HIDE DEF c
    <3> QED BY <3>1, <3>2
  <2> QED BY <2>1 DEF Capabilities
<1>4. Capabilities(c).flags = Flags(c)
  BY <1>3
<1> QED BY <1>2, <1>4 DEF c

\* OneBitOneFlag: a changed setting moves exactly one of the reported flags.
THEOREM OneFlagPerBit == Spec => OneBitOneFlag
<1> DEFINE Step == damage' = "flipped" =>
                      Cardinality(Changed(InterfaceState(Reported), InterfaceState(Reported)'))
                        + Cardinality(Changed(Capabilities(Reported).flags,
                                              Capabilities(Reported)'.flags)) = 1
<1>1. ASSUME Inv, NEW i \in {1, 2, 10}, NEW mask \in BitMasks, i = 1 => mask \in {1, 2, 4}, FlipBit(i, mask)
      PROVE  Step
  <2> DEFINE c == ParseConfiguration(bytes)
             d == ParseConfiguration(bytes')
  <2>1. bytes = Encoding("configuration", sent) /\ sent \in Masks
    BY <1>1 DEF FlipBit, Damaged, Inv
  <2>2. bytes \in Seq(Byte) /\ Len(bytes) = 10 /\ DOMAIN bytes = 1..10
    BY <2>1, ConfigurationIs, LenProperties
  <2>3. bytes[1] \in Byte /\ bytes[2] \in Byte /\ bytes[10] \in Byte
    BY <2>1, ConfigurationIs
  <2>4. bytes' = [bytes EXCEPT ![i] = Flipped(bytes[i], mask)]
    BY <1>1 DEF FlipBit, Flipped
  <2>5. \A j \in {1, 2, 10} : bytes'[j] = IF j = i THEN Flipped(bytes[j], mask) ELSE bytes[j]
    BY <2>2, <2>4
  <2>6. Len(bytes') = 10
    <3>1. Flipped(bytes[i], mask) \in Byte /\ i \in 1..Len(bytes)
      BY <2>2, <2>3, FlipOne
    <3> QED BY <2>2, <2>4, <3>1, ExceptSeq
  <2>7. /\ c.TransferType = bytes[1] /\ c.DeviceConfiguration = bytes[2] /\ c.DeviceExtension = bytes[10]
        /\ d.TransferType = bytes'[1] /\ d.DeviceConfiguration = bytes'[2] /\ d.DeviceExtension = bytes'[10]
        /\ Capabilities(c).flags = Flags(c) /\ Capabilities(d).flags = Flags(d)
    BY <2>2, <2>6, ReportOfTen
  <2>8. Cardinality(Changed(InterfaceState(c), InterfaceState(d))) + Cardinality(Changed(Flags(c), Flags(d))) = 1
    <3> HIDE DEF c, d
    <3> QED BY <1>1, <2>3, <2>5, <2>7, FlipMovesOneFlag
  <2>9. /\ InterfaceState(Reported) = InterfaceState(c) /\ InterfaceState(Reported)' = InterfaceState(d)
        /\ Capabilities(Reported) = Capabilities(c) /\ Capabilities(Reported)' = Capabilities(d)
    BY DEF Reported
  <2> HIDE DEF c, d
  <2> QED BY <2>7, <2>8, <2>9
<1>2. ASSUME Inv, [Next]_vars PROVE [Step]_vars
  <2>1. CASE Cut
    BY <2>1 DEF Cut, Damaged
  <2>2. CASE Pad
    BY <2>2 DEF Pad, Damaged
  <2>3. CASE Change
    BY <2>3 DEF Change, Damaged
  <2>4. CASE \E i \in {2, 10}, mask \in BitMasks : FlipBit(i, mask)
    <3> HIDE DEF Step
    <3> QED BY <1>1, <1>2, <2>4
  <2>5. CASE \E mask \in {1, 2, 4} : FlipBit(1, mask)
    <3> HIDE DEF Step
    <3>1. \A mask \in {1, 2, 4} : mask \in BitMasks
      BY DEF BitMasks
    <3> QED BY <1>1, <1>2, <2>5, <3>1
  <2>6. CASE UNCHANGED vars
    BY <2>6
  <2> HIDE DEF Step
  <2> QED BY <1>2, <2>1, <2>2, <2>3, <2>4, <2>5, <2>6 DEF Next
<1>3. Spec => []Inv
  BY DataKnown
<1> QED BY <1>2, <1>3, PTL DEF Spec, OneBitOneFlag

-----------------------------------------------------------------------------
\* Decimal numbers.

\* Every number that is read, from digit to digit.
LEMMA NumberIs ==
    ASSUME NEW s \in Seq(Byte)
    PROVE  \E acc \in [0..Len(s) -> Int] :
              /\ acc[0] = 0
              /\ \A i \in 1..Len(s) : acc[i] = 10 * acc[i - 1] + Digit(s[i])
              /\ Number(s) = acc[Len(s)]
<1> DEFINE n == Len(s)
           step == [p \in Int \X Byte |-> 10 * p[1] + Digit(p[2])]
           Fold(f) == f = [T \in SUBSET DOMAIN s |->
                             IF T = {} THEN 0 ELSE 10 * f[T \ {Max(T)}] + Digit(s[Max(T)])]
           chosen == CHOOSE f : Fold(f)
<1>1. n \in Nat /\ s \in [1..n -> Byte] /\ DOMAIN s = 1..n
  BY LenProperties
<1>2. Number(s) = chosen[DOMAIN s]
  BY DEF Number, FoldLeft, MapThenFoldSet
<1> HIDE DEF n
<1>3. \A a \in Int, b \in Byte : step[<<a, b>>] = 10 * a + Digit(b) /\ 10 * a + Digit(b) \in Int
  <2>1. \A b \in Byte : Digit(b) \in Int
    BY DEF Digit, Byte
  <2>2. \A a \in Int, b \in Byte : 10 * a + Digit(b) \in Int
    <3>1. \A a \in Int, d \in Int : 10 * a + d \in Int
      OBVIOUS
    <3> QED BY <2>1, <3>1
  <2>3. \A a \in Int, b \in Byte : step[<<a, b>>] = 10 * a + Digit(b)
    OBVIOUS
  <2> QED BY <2>2, <2>3
<1>4. step \in [Int \X Byte -> Int]
  <2>1. \A p \in Int \X Byte : step[p] \in Int
    BY <1>3
  <2>2. step = [p \in Int \X Byte |-> step[p]]
    OBVIOUS
  <2> HIDE DEF step
  <2> QED BY <2>1, <2>2
<1>5. 0 \in Int
  OBVIOUS
<1>6. PICK g \in [SUBSET (1..n) -> Int] : Folds(g, n, s, step, 0)
  <2> HIDE DEF step
  <2> QED BY <1>1, <1>4, <1>5, FoldExists
<1>7. ASSUME NEW T \in SUBSET (1..n)
      PROVE  g[T] = IF T = {} THEN 0 ELSE 10 * g[T \ {Max(T)}] + Digit(s[Max(T)])
  <2> HIDE DEF step
  <2>1. T # {} => T \ {Max(T)} \in SUBSET (1..n) /\ Max(T) \in 1..n
    BY <1>1, MaxExists
  <2>2. T # {} => g[T \ {Max(T)}] \in Int /\ s[Max(T)] \in Byte
    BY <1>1, <2>1
  <2> QED BY <1>3, <1>6, <2>2 DEF Folds
<1>8. Fold(g)
  BY <1>1, <1>7
<1>9. Fold(chosen)
  <2> HIDE DEF Fold
  <2> QED BY <1>8
<1> HIDE DEF chosen
<1>10. \A T \in SUBSET (1..n) :
          chosen[T] = IF T = {} THEN 0 ELSE 10 * chosen[T \ {Max(T)}] + Digit(s[Max(T)])
  BY <1>1, <1>9
<1> HIDE DEF Fold
<1> DEFINE acc == [i \in 0..n |-> chosen[1..i]]
<1>11. chosen[1..0] = 0
  <2>1. 1..0 = {} /\ {} \in SUBSET (1..n)
    OBVIOUS
  <2> QED BY <1>10, <2>1
<1>12. \A i \in 1..n : chosen[1..i] = 10 * chosen[1..(i - 1)] + Digit(s[i])
  <2> SUFFICES ASSUME NEW i \in 1..n PROVE chosen[1..i] = 10 * chosen[1..(i - 1)] + Digit(s[i])
    OBVIOUS
  <2>1. 1..i \in SUBSET (1..n) /\ 1..i # {} /\ Max(1..i) = i /\ (1..i) \ {i} = 1..(i - 1)
    BY <1>1, LastOfPrefix
  <2>2. chosen[1..i] = 10 * chosen[(1..i) \ {Max(1..i)}] + Digit(s[Max(1..i)])
    BY <1>10, <2>1
  <2> QED BY <2>1, <2>2
<1>13. acc[0] = 0 /\ \A i \in 1..n : acc[i] = 10 * acc[i - 1] + Digit(s[i])
  <2>1. 0 \in 0..n /\ \A i \in 1..n : i - 1 \in 0..n /\ i \in 0..n
    BY <1>1
  <2> QED BY <1>11, <1>12, <2>1
<1>14. Number(s) = acc[n]
  BY <1>1, <1>2
<1>15. acc \in [0..n -> Int]
  <2> DEFINE S == {k \in 0..n : acc[k] \in Int}
  <2>1. ASSUME NEW k \in 0..n, \A j \in 0..n : j < k => j \in S PROVE k \in S
    <3>1. CASE k = 0
      BY <1>13, <3>1
    <3>2. CASE k # 0
      <4>1. k \in 1..n /\ k - 1 \in 0..n /\ k - 1 < k
        BY <1>1, <3>2
      <4>2. acc[k - 1] \in Int /\ s[k] \in Byte
        BY <1>1, <2>1, <4>1
      <4> HIDE DEF acc
      <4>3. acc[k] = 10 * acc[k - 1] + Digit(s[k])
        BY <1>13, <4>1
      <4> QED BY <1>3, <4>2, <4>3
    <3> QED BY <3>1, <3>2
  <2>2. 0 \in Nat
    OBVIOUS
  <2>3. 0..n \subseteq S
    <3> HIDE DEF S
    <3> QED BY <1>1, <2>1, <2>2, StrongInduction
  <2>4. \A k \in 0..n : acc[k] \in Int
    BY <2>3
  <2> QED BY <2>4
<1> HIDE DEF acc
<1> QED BY <1>13, <1>14, <1>15 DEF n

\* The digit of a number at a place, as a byte.
DigitAt(n, unit) == 48 + ((n \div unit) % 10)

LEMMA DecimalFive ==
    ASSUME NEW q \in Nat
    PROVE  /\ Decimal(q, 5) \in Seq(Byte) /\ Len(Decimal(q, 5)) = 5
           /\ Decimal(q, 5)[1] = DigitAt(q, 10000)
           /\ Decimal(q, 5)[2] = DigitAt(q, 1000)
           /\ Decimal(q, 5)[3] = DigitAt(q, 100)
           /\ Decimal(q, 5)[4] = DigitAt(q, 10)
           /\ Decimal(q, 5)[5] = DigitAt(q, 1)
<1> DEFINE D == Decimal(q, 5)
<1>1. D = [i \in 1..5 |-> 48 + ((q \div 10^(5 - i)) % 10)]
  BY DEF Decimal
<1>2. /\ 10^(5 - 1) = 10000 /\ 10^(5 - 2) = 1000 /\ 10^(5 - 3) = 100 /\ 10^(5 - 4) = 10
      /\ 10^(5 - 5) = 1 /\ q \div 1 = q
  OBVIOUS
<1> HIDE DEF D
<1>3. /\ D[1] = 48 + ((q \div 10000) % 10)
      /\ D[2] = 48 + ((q \div 1000) % 10)
      /\ D[3] = 48 + ((q \div 100) % 10)
      /\ D[4] = 48 + ((q \div 10) % 10)
      /\ D[5] = 48 + (q % 10)
  BY <1>1, <1>2
<1>4. D[1] \in 48..57 /\ D[2] \in 48..57 /\ D[3] \in 48..57 /\ D[4] \in 48..57 /\ D[5] \in 48..57
  BY <1>3
<1>5. D \in [1..5 -> 48..57]
  <2>1. \A i \in 1..5 : i = 1 \/ i = 2 \/ i = 3 \/ i = 4 \/ i = 5
    OBVIOUS
  <2>2. \A i \in 1..5 : D[i] \in 48..57
    BY <1>4, <2>1
  <2>3. D = [i \in 1..5 |-> D[i]]
    BY <1>1
  <2> QED BY <2>2, <2>3
<1>6. D \in Seq(Byte) /\ Len(D) = 5
  <2>1. 5 \in Nat
    OBVIOUS
  <2>2. 48..57 \subseteq Byte
    BY DEF Byte
  <2>3. D \in [1..5 -> Byte]
    BY <1>5, <2>2
  <2> QED BY <2>1, <2>3, FunctionIsSeq
<1> QED BY <1>2, <1>3, <1>6, SMTT(30) DEF D, DigitAt

LEMMA DecimalEight ==
    ASSUME NEW q \in Nat
    PROVE  /\ Decimal(q, 8) \in Seq(Byte) /\ Len(Decimal(q, 8)) = 8
           /\ Decimal(q, 8)[1] = DigitAt(q, 10000000)
           /\ Decimal(q, 8)[2] = DigitAt(q, 1000000)
           /\ Decimal(q, 8)[3] = DigitAt(q, 100000)
           /\ Decimal(q, 8)[4] = DigitAt(q, 10000)
           /\ Decimal(q, 8)[5] = DigitAt(q, 1000)
           /\ Decimal(q, 8)[6] = DigitAt(q, 100)
           /\ Decimal(q, 8)[7] = DigitAt(q, 10)
           /\ Decimal(q, 8)[8] = DigitAt(q, 1)
<1> DEFINE D == Decimal(q, 8)
<1>1. D = [i \in 1..8 |-> 48 + ((q \div 10^(8 - i)) % 10)]
  BY DEF Decimal
<1>2. /\ 10^(8 - 1) = 10000000 /\ 10^(8 - 2) = 1000000 /\ 10^(8 - 3) = 100000 /\ 10^(8 - 4) = 10000
      /\ 10^(8 - 5) = 1000 /\ 10^(8 - 6) = 100 /\ 10^(8 - 7) = 10 /\ 10^(8 - 8) = 1 /\ q \div 1 = q
  OBVIOUS
<1> HIDE DEF D
<1>3. /\ D[1] = 48 + ((q \div 10000000) % 10)
      /\ D[2] = 48 + ((q \div 1000000) % 10)
      /\ D[3] = 48 + ((q \div 100000) % 10)
      /\ D[4] = 48 + ((q \div 10000) % 10)
      /\ D[5] = 48 + ((q \div 1000) % 10)
      /\ D[6] = 48 + ((q \div 100) % 10)
      /\ D[7] = 48 + ((q \div 10) % 10)
      /\ D[8] = 48 + (q % 10)
  BY <1>1, <1>2
<1>4. /\ D[1] \in 48..57 /\ D[2] \in 48..57 /\ D[3] \in 48..57 /\ D[4] \in 48..57 /\ D[5] \in 48..57
      /\ D[6] \in 48..57 /\ D[7] \in 48..57 /\ D[8] \in 48..57
  BY <1>3
<1>5. D \in [1..8 -> 48..57]
  <2>1. \A i \in 1..8 : i = 1 \/ i = 2 \/ i = 3 \/ i = 4 \/ i = 5 \/ i = 6 \/ i = 7 \/ i = 8
    OBVIOUS
  <2>2. \A i \in 1..8 : D[i] \in 48..57
    BY <1>4, <2>1
  <2>3. D = [i \in 1..8 |-> D[i]]
    BY <1>1
  <2> QED BY <2>2, <2>3
<1>6. D \in Seq(Byte) /\ Len(D) = 8
  <2>1. 8 \in Nat
    OBVIOUS
  <2>2. 48..57 \subseteq Byte
    BY DEF Byte
  <2>3. D \in [1..8 -> Byte]
    BY <1>5, <2>2
  <2> QED BY <2>1, <2>3, FunctionIsSeq
<1> QED BY <1>2, <1>3, <1>6, SMTT(30) DEF D, DigitAt

\* Digits cut off one by one.
LEMMA Quotients ==
    ASSUME NEW q \in Nat
    PROVE  /\ (q \div 10) \div 10 = q \div 100
           /\ (q \div 100) \div 10 = q \div 1000
           /\ (q \div 1000) \div 10 = q \div 10000
           /\ (q \div 10000) \div 10 = q \div 100000
<1>1. (q \div 10) \div 10 = q \div 100
  BY SMTT(30)
<1>2. (q \div 100) \div 10 = q \div 1000
  BY SMTT(30)
<1>3. (q \div 1000) \div 10 = q \div 10000
  BY SMTT(30)
<1>4. (q \div 10000) \div 10 = q \div 100000
  BY SMTT(30)
<1> QED BY <1>1, <1>2, <1>3, <1>4, SMTT(30)

\* One more digit behind equal ones.
LEMMA EqualDigits ==
    ASSUME NEW x \in Nat, NEW y \in Nat, x \div 10 = y \div 10, x % 10 = y % 10
    PROVE  x = y
BY SMTT(30)

\* A number of five digits is known by them.
LEMMA FiveDigitsDiffer ==
    ASSUME NEW q \in Nat, NEW r \in Nat, q < 100000, r < 100000,
           DigitAt(q, 10000) = DigitAt(r, 10000), DigitAt(q, 1000) = DigitAt(r, 1000),
           DigitAt(q, 100) = DigitAt(r, 100), DigitAt(q, 10) = DigitAt(r, 10),
           DigitAt(q, 1) = DigitAt(r, 1)
    PROVE  q = r
<1>1. (q \div 10000) % 10 = (r \div 10000) % 10
  BY SMTT(30) DEF DigitAt
<1>2. (q \div 1000) % 10 = (r \div 1000) % 10
  BY SMTT(30) DEF DigitAt
<1>3. (q \div 100) % 10 = (r \div 100) % 10
  BY SMTT(30) DEF DigitAt
<1>4. (q \div 10) % 10 = (r \div 10) % 10
  BY SMTT(30) DEF DigitAt
<1>5. q % 10 = r % 10
  BY SMTT(30) DEF DigitAt
<1>6. \A x \in Nat : /\ x \div 10000 \in Nat /\ x \div 1000 \in Nat /\ x \div 100 \in Nat /\ x \div 10 \in Nat
                     /\ x < 100000 => x \div 10000 = (x \div 10000) % 10
  BY SMTT(30)
<1>7. q \div 10000 = r \div 10000
  BY <1>1, <1>6, SMTT(30)
<1>8. q \div 1000 = r \div 1000
  BY <1>2, <1>6, <1>7, Quotients, EqualDigits, SMTT(30)
<1>9. q \div 100 = r \div 100
  BY <1>3, <1>6, <1>8, Quotients, EqualDigits, SMTT(30)
<1>10. q \div 10 = r \div 10
  BY <1>4, <1>6, <1>9, Quotients, EqualDigits, SMTT(30)
<1> QED BY <1>5, <1>10, EqualDigits, SMTT(30)

\* The digits of a number without its last three.
LEMMA ThousandsAt ==
    ASSUME NEW x \in Nat
    PROVE  /\ DigitAt(x \div 1000, 10000) = DigitAt(x, 10000000)
           /\ DigitAt(x \div 1000, 1000) = DigitAt(x, 1000000)
           /\ DigitAt(x \div 1000, 100) = DigitAt(x, 100000)
           /\ DigitAt(x \div 1000, 10) = DigitAt(x, 10000)
           /\ DigitAt(x \div 1000, 1) = DigitAt(x, 1000)
<1>1. (x \div 1000) \div 10000 = x \div 10000000
  BY SMTT(30)
<1>2. (x \div 1000) \div 1000 = x \div 1000000
  BY SMTT(30)
<1>3. (x \div 1000) \div 100 = x \div 100000
  BY SMTT(30)
<1>4. (x \div 1000) \div 10 = x \div 10000
  BY SMTT(30)
<1>5. (x \div 1000) \div 1 = x \div 1000
  BY SMTT(30)
<1> QED BY <1>1, <1>2, <1>3, <1>4, <1>5, SMTT(30) DEF DigitAt

\* A number of eight digits is known by them.
LEMMA EightDigitsDiffer ==
    ASSUME NEW q \in Nat, NEW r \in Nat, q < 100000000, r < 100000000,
           DigitAt(q, 10000000) = DigitAt(r, 10000000), DigitAt(q, 1000000) = DigitAt(r, 1000000),
           DigitAt(q, 100000) = DigitAt(r, 100000), DigitAt(q, 10000) = DigitAt(r, 10000),
           DigitAt(q, 1000) = DigitAt(r, 1000), DigitAt(q, 100) = DigitAt(r, 100),
           DigitAt(q, 10) = DigitAt(r, 10), DigitAt(q, 1) = DigitAt(r, 1)
    PROVE  q = r
<1> DEFINE a == q \div 1000
           b == r \div 1000
<1>1. a \in Nat /\ b \in Nat /\ a < 100000 /\ b < 100000
  BY SMTT(30)
<1> HIDE DEF a, b
<1>2. a = b
  <2>1. /\ DigitAt(a, 10000) = DigitAt(b, 10000) /\ DigitAt(a, 1000) = DigitAt(b, 1000)
        /\ DigitAt(a, 100) = DigitAt(b, 100) /\ DigitAt(a, 10) = DigitAt(b, 10)
        /\ DigitAt(a, 1) = DigitAt(b, 1)
    BY ThousandsAt, SMTT(30) DEF a, b
  <2> QED BY <1>1, <2>1, FiveDigitsDiffer, SMTT(30)
<1>3. (q \div 100) % 10 = (r \div 100) % 10
  BY SMTT(30) DEF DigitAt
<1>4. (q \div 10) % 10 = (r \div 10) % 10
  BY SMTT(30) DEF DigitAt
<1>5. q % 10 = r % 10
  BY SMTT(30) DEF DigitAt
<1>6. \A x \in Nat : x \div 100 \in Nat /\ x \div 10 \in Nat
  BY SMTT(30)
<1>7. q \div 100 = r \div 100
  BY <1>2, <1>3, <1>6, Quotients, EqualDigits, SMTT(30) DEF a, b
<1>8. q \div 10 = r \div 10
  BY <1>4, <1>6, <1>7, Quotients, EqualDigits, SMTT(30)
<1> QED BY <1>5, <1>8, EqualDigits, SMTT(30)

LEMMA NumberDigits ==
    ASSUME NEW v \in Seq(Byte)
    PROVE  IsNumber(v) <=> \A i \in 1..Len(v) : v[i] \in 48..57
<1>1. DOMAIN v = 1..Len(v)
  BY LenProperties
<1> QED BY <1>1 DEF IsNumber, Range

\* A digit read behind others, and the number it makes of them.
Reads(a, c, x) == a \in Nat /\ x \in 48..57 /\ c = 10 * a + Digit(x)

LEMMA ReadBack ==
    ASSUME NEW a, NEW c, NEW x, Reads(a, c, x)
    PROVE  c \in Nat /\ a = c \div 10 /\ x = DigitAt(c, 1) /\ c < 10 * a + 10
BY SMTT(30) DEF Reads, Digit, DigitAt

\* The last digit of a number without its last ones.
LEMMA DigitOfQuotient ==
    ASSUME NEW q, NEW m, NEW a \in Nat, a = q \div m
    PROVE  DigitAt(a, 1) = DigitAt(q, m)
<1>1. \A n \in Nat : n \div 1 = n
  BY SMTT(30)
<1>2. a \div 1 = q \div m
  BY <1>1
<1> QED BY <1>2, Zenon DEF DigitAt

\* Behind a number, five digits.
LEMMA FiveRead ==
    ASSUME NEW a0, NEW a1, NEW a2, NEW a3, NEW a4, NEW q,
           NEW x1, NEW x2, NEW x3, NEW x4, NEW x5,
           Reads(a0, a1, x1), Reads(a1, a2, x2), Reads(a2, a3, x3), Reads(a3, a4, x4), Reads(a4, q, x5)
    PROVE  /\ q \in Nat /\ q < 100000 * a0 + 100000 /\ a0 = q \div 100000
           /\ x1 = DigitAt(q, 10000) /\ x2 = DigitAt(q, 1000) /\ x3 = DigitAt(q, 100)
           /\ x4 = DigitAt(q, 10) /\ x5 = DigitAt(q, 1)
<1>1. a0 \in Nat
  BY SMTT(30) DEF Reads
<1>2. a1 \in Nat /\ a0 = a1 \div 10 /\ x1 = DigitAt(a1, 1) /\ a1 < 10 * a0 + 10
  BY ReadBack, Zenon
<1>3. a2 \in Nat /\ a1 = a2 \div 10 /\ x2 = DigitAt(a2, 1) /\ a2 < 10 * a1 + 10
  BY ReadBack, Zenon
<1>4. a3 \in Nat /\ a2 = a3 \div 10 /\ x3 = DigitAt(a3, 1) /\ a3 < 10 * a2 + 10
  BY ReadBack, Zenon
<1>5. a4 \in Nat /\ a3 = a4 \div 10 /\ x4 = DigitAt(a4, 1) /\ a4 < 10 * a3 + 10
  BY ReadBack, Zenon
<1>6. q \in Nat /\ a4 = q \div 10 /\ x5 = DigitAt(q, 1) /\ q < 10 * a4 + 10
  BY ReadBack, Zenon
<1>7. a3 = q \div 100
  BY <1>5, <1>6, Quotients, SMTT(30)
<1>8. a2 = q \div 1000
  BY <1>4, <1>6, <1>7, Quotients, SMTT(30)
<1>9. a1 = q \div 10000
  BY <1>3, <1>6, <1>8, Quotients, SMTT(30)
<1>10. a0 = q \div 100000
  BY <1>2, <1>6, <1>9, Quotients, SMTT(30)
<1>11. q < 100000 * a0 + 100000
  <2>1. /\ a1 < 10 * a0 + 10 /\ a2 < 10 * a1 + 10 /\ a3 < 10 * a2 + 10
        /\ a4 < 10 * a3 + 10 /\ q < 10 * a4 + 10
    BY <1>2, <1>3, <1>4, <1>5, <1>6, Zenon
  <2>2. a1 \in Nat /\ a2 \in Nat /\ a3 \in Nat /\ a4 \in Nat /\ q \in Nat
    BY <1>2, <1>3, <1>4, <1>5, <1>6, Zenon
  <2> QED BY <1>1, <2>1, <2>2, SMTT(30)
<1>12. DigitAt(a4, 1) = DigitAt(q, 10)
  BY <1>5, <1>6, DigitOfQuotient, SMTT(30)
<1>13. DigitAt(a3, 1) = DigitAt(q, 100)
  BY <1>4, <1>7, DigitOfQuotient, SMTT(30)
<1>14. DigitAt(a2, 1) = DigitAt(q, 1000)
  BY <1>3, <1>8, DigitOfQuotient, SMTT(30)
<1>15. DigitAt(a1, 1) = DigitAt(q, 10000)
  BY <1>2, <1>9, DigitOfQuotient, SMTT(30)
<1>16. x1 = DigitAt(q, 10000) /\ x2 = DigitAt(q, 1000)
  BY <1>2, <1>3, <1>14, <1>15, SMTT(30)
<1>17. x3 = DigitAt(q, 100) /\ x4 = DigitAt(q, 10)
  BY <1>4, <1>5, <1>12, <1>13, SMTT(30)
<1> QED BY <1>6, <1>10, <1>11, <1>16, <1>17, SMTT(30)

\* Three digits and five.
LEMMA EightRead ==
    ASSUME NEW a1, NEW a2, NEW a3, NEW a4, NEW a5, NEW a6, NEW a7, NEW q,
           NEW x1, NEW x2, NEW x3, NEW x4, NEW x5, NEW x6, NEW x7, NEW x8,
           Reads(0, a1, x1), Reads(a1, a2, x2), Reads(a2, a3, x3), Reads(a3, a4, x4),
           Reads(a4, a5, x5), Reads(a5, a6, x6), Reads(a6, a7, x7), Reads(a7, q, x8)
    PROVE  /\ q \in Nat /\ q < 100000000
           /\ x1 = DigitAt(q, 10000000) /\ x2 = DigitAt(q, 1000000) /\ x3 = DigitAt(q, 100000)
           /\ x4 = DigitAt(q, 10000) /\ x5 = DigitAt(q, 1000) /\ x6 = DigitAt(q, 100)
           /\ x7 = DigitAt(q, 10) /\ x8 = DigitAt(q, 1)
<1>1. /\ a3 \in Nat /\ x3 = DigitAt(a3, 1) /\ a2 = a3 \div 10 /\ a3 < 10 * a2 + 10
      /\ a2 \in Nat /\ x2 = DigitAt(a2, 1) /\ a1 = a2 \div 10 /\ a2 < 10 * a1 + 10
      /\ a1 \in Nat /\ x1 = DigitAt(a1, 1) /\ a1 < 10 * 0 + 10
  BY ReadBack, SMTT(30)
<1>2. /\ q \in Nat /\ q < 100000 * a3 + 100000 /\ a3 = q \div 100000
      /\ x4 = DigitAt(q, 10000) /\ x5 = DigitAt(q, 1000) /\ x6 = DigitAt(q, 100)
      /\ x7 = DigitAt(q, 10) /\ x8 = DigitAt(q, 1)
  BY FiveRead, SMTT(30)
<1>3. a3 < 1000
  BY <1>1, SMTT(30)
<1>4. q < 100000000
  BY <1>1, <1>2, <1>3, SMTT(30)
<1>5. a2 = q \div 1000000 /\ a1 = q \div 10000000
  <2>1. \A n \in Nat : (n \div 100000) \div 10 = n \div 1000000
    BY SMTT(30)
  <2>2. \A n \in Nat : (n \div 1000000) \div 10 = n \div 10000000
    BY SMTT(30)
  <2> QED BY <1>1, <1>2, <2>1, <2>2, SMTT(30)
<1>6. x1 = DigitAt(q, 10000000) /\ x2 = DigitAt(q, 1000000) /\ x3 = DigitAt(q, 100000)
  <2>1. DigitAt(a3, 1) = DigitAt(q, 100000)
    BY <1>1, <1>2, DigitOfQuotient, SMTT(30)
  <2>2. DigitAt(a2, 1) = DigitAt(q, 1000000)
    BY <1>1, <1>5, DigitOfQuotient, SMTT(30)
  <2>3. DigitAt(a1, 1) = DigitAt(q, 10000000)
    BY <1>1, <1>5, DigitOfQuotient, SMTT(30)
  <2> QED BY <1>1, <2>1, <2>2, <2>3, SMTT(30)
<1> QED BY <1>2, <1>4, <1>6, SMTT(30)

\* What is read of a number, from its first byte to its last.
Spells(acc, v) ==
    /\ acc[0] = 0
    /\ \A i \in 1..Len(v) : Reads(acc[i - 1], acc[i], v[i])

LEMMA NumberRead ==
    ASSUME NEW v \in Seq(Byte), IsNumber(v)
    PROVE  \E acc : Spells(acc, v) /\ Number(v) = acc[Len(v)]
<1> DEFINE n == Len(v)
<1>1. PICK acc \in [0..n -> Int] :
         /\ acc[0] = 0
         /\ \A i \in 1..n : acc[i] = 10 * acc[i - 1] + Digit(v[i])
         /\ Number(v) = acc[n]
  BY NumberIs
<1>2. n \in Nat /\ \A i \in 1..n : v[i] \in 48..57
  BY NumberDigits, LenProperties
<1>3. \A i \in 1..n : Digit(v[i]) \in 0..9
  BY <1>2 DEF Digit
<1> DEFINE S == {k \in 0..n : acc[k] \in Nat}
<1> HIDE DEF n
<1>4. ASSUME NEW k \in 0..n, \A j \in 0..n : j < k => j \in S PROVE k \in S
  <2>1. CASE k = 0
    BY <1>1, <2>1
  <2>2. CASE k # 0
    <3>1. k \in 1..n /\ k - 1 \in 0..n /\ k - 1 < k
      BY <1>2, <2>2
    <3>2. acc[k - 1] \in Nat /\ acc[k] = 10 * acc[k - 1] + Digit(v[k])
      BY <1>1, <1>4, <3>1
    <3>3. Digit(v[k]) \in 0..9
      BY <1>3, <3>1
    <3>4. \A a \in Nat : \A digit \in 0..9 : 10 * a + digit \in Nat
      OBVIOUS
    <3>5. acc[k] \in Nat
      BY <3>2, <3>3, <3>4
    <3> QED BY <3>5
  <2> QED BY <2>1, <2>2
<1>5. 0..n \subseteq S
  <2>1. 0 \in Nat
    OBVIOUS
  <2> HIDE DEF S
  <2> QED BY <1>2, <1>4, <2>1, StrongInduction
<1>6. \A i \in 1..n : Reads(acc[i - 1], acc[i], v[i])
  <2>1. \A i \in 1..n : i - 1 \in 0..n
    BY <1>2
  <2> QED BY <1>1, <1>2, <1>5, <2>1 DEF Reads
<1> QED BY <1>1, <1>6 DEF Spells, n

\* The first five bytes are the digits of q.
Leads(q, v) ==
    /\ v[1] = DigitAt(q, 10000) /\ v[2] = DigitAt(q, 1000) /\ v[3] = DigitAt(q, 100)
    /\ v[4] = DigitAt(q, 10) /\ v[5] = DigitAt(q, 1)

LEMMA PrefixLeads ==
    ASSUME NEW v \in Seq(Byte), Len(v) >= 5, NEW q \in Nat
    PROVE  IsPrefix(Decimal(q, 5), v) <=> Leads(q, v)
<1> DEFINE D == Decimal(q, 5)
<1>1. /\ D \in Seq(Byte) /\ Len(D) = 5
      /\ D[1] = DigitAt(q, 10000) /\ D[2] = DigitAt(q, 1000) /\ D[3] = DigitAt(q, 100)
      /\ D[4] = DigitAt(q, 10) /\ D[5] = DigitAt(q, 1)
  BY DecimalFive, SMTT(30)
<1> HIDE DEF D
<1>2. Len(v) \in Nat
  BY LenProperties, SMTT(30)
<1>3. IsPrefix(D, v) <=> \A i \in 1..5 : D[i] = v[i]
  <2>1. D \in Seq(Byte) /\ Len(D) = 5
    BY <1>1, SMTT(30)
  <2>2. D \in Seq(Byte) /\ v \in Seq(Byte)
    BY <2>1, Zenon
  <2>3. IsPrefix(D, v) <=> Len(D) <= Len(v) /\ \A i \in 1..Len(D) : D[i] = v[i]
    <3>1. ASSUME IsPrefix(D, v) PROVE Len(D) <= Len(v) /\ \A i \in 1..Len(D) : D[i] = v[i]
      BY <2>2, <3>1, PrefixElements
    <3>2. ASSUME Len(D) <= Len(v), \A i \in 1..Len(D) : D[i] = v[i] PROVE IsPrefix(D, v)
      BY <2>2, <3>2, PrefixElements
    <3> QED BY <3>1, <3>2
  <2>4. 5 <= Len(v)
    BY <1>2, SMTT(30)
  <2> QED BY <2>1, <2>3, <2>4, Zenon
<1>4. /\ 1 \in 1..5 /\ 2 \in 1..5 /\ 3 \in 1..5 /\ 4 \in 1..5 /\ 5 \in 1..5
      /\ \A i \in 1..5 : i = 1 \/ i = 2 \/ i = 3 \/ i = 4 \/ i = 5
  BY SMTT(30)
<1>5. (\A i \in 1..5 : D[i] = v[i]) <=>
         /\ D[1] = v[1] /\ D[2] = v[2] /\ D[3] = v[3] /\ D[4] = v[4] /\ D[5] = v[5]
  BY <1>4, SMTT(30)
<1>6. Leads(q, v) <=> /\ D[1] = v[1] /\ D[2] = v[2] /\ D[3] = v[3]
                     /\ D[4] = v[4] /\ D[5] = v[5]
  BY <1>1, SMTT(30) DEF Leads
<1> QED BY <1>3, <1>5, <1>6, Zenon DEF D

\* The number that the first five bytes are.
LEMMA FiveDigits ==
    ASSUME NEW v \in Seq(Byte), IsNumber(v), Len(v) >= 5
    PROVE  /\ Number(SubSeq(v, 1, 5)) \in Nat
           /\ Number(SubSeq(v, 1, 5)) < 100000
           /\ Leads(Number(SubSeq(v, 1, 5)), v)
<1> DEFINE t == SubSeq(v, 1, 5)
           q == Number(t)
<1>1. Len(v) \in Nat /\ \A i \in 1..5 : i \in 1..Len(v)
  <2>1. Len(v) \in Nat
    BY LenProperties, SMTT(30)
  <2> QED BY <2>1, SMTT(30)
<1>2. \A i \in 1..5 : v[i] \in 48..57 /\ v[i] \in Byte
  BY <1>1, NumberDigits, ElementOfSeq, SMTT(30)
<1>3. t \in Seq(Byte) /\ Len(t) = 5 /\ \A i \in 1..5 : t[i] = v[i]
  <2>1. 1 \in Int /\ 5 \in Int /\ 1 <= 5 /\ (5 - 1) + 1 = 5 /\ \A i \in 1..5 : (1 + i) - 1 = i
    BY SMTT(30)
  <2>2. /\ t \in Seq(Byte) /\ Len(t) = (IF 1 <= 5 THEN (5 - 1) + 1 ELSE 0)
        /\ \A i \in 1..((5 - 1) + 1) : t[i] = v[(1 + i) - 1]
    BY <1>2, <2>1, SubSeqProperties, SMTT(30)
  <2> QED BY <2>1, <2>2, SMTT(30)
<1> HIDE DEF t
<1>4. IsNumber(t)
  <2>1. t \in Seq(Byte) /\ \A i \in 1..Len(t) : t[i] \in 48..57
    BY <1>2, <1>3, Zenon
  <2> QED BY <2>1, NumberDigits, Zenon
<1>5. PICK acc : Spells(acc, t) /\ q = acc[Len(t)]
  BY <1>3, <1>4, NumberRead, Zenon
<1>6. /\ Reads(0, acc[1], v[1]) /\ Reads(acc[1], acc[2], v[2]) /\ Reads(acc[2], acc[3], v[3])
      /\ Reads(acc[3], acc[4], v[4]) /\ Reads(acc[4], q, v[5])
  <2>1. \A i \in 1..5 : Reads(acc[i - 1], acc[i], v[i])
    BY <1>3, <1>5, SMTT(30) DEF Spells
  <2>2. acc[0] = 0 /\ q = acc[5]
    BY <1>3, <1>5, SMTT(30) DEF Spells
  <2>3. Reads(acc[1 - 1], acc[1], v[1]) /\ Reads(acc[2 - 1], acc[2], v[2])
        /\ Reads(acc[3 - 1], acc[3], v[3]) /\ Reads(acc[4 - 1], acc[4], v[4])
        /\ Reads(acc[5 - 1], acc[5], v[5])
    BY <2>1, SMTT(30)
  <2>4. 1 - 1 = 0 /\ 2 - 1 = 1 /\ 3 - 1 = 2 /\ 4 - 1 = 3 /\ 5 - 1 = 4
    BY SMTT(30)
  <2> QED BY <2>2, <2>3, <2>4, SMTT(30)
<1> HIDE DEF q
<1> DEFINE a(k) == acc[k]
           x(k) == v[k]
<1> HIDE DEF a, x
<1>7. q \in Nat /\ q < 100000 * 0 + 100000 /\ Leads(q, v)
  <2>1. /\ Reads(0, a(1), x(1)) /\ Reads(a(1), a(2), x(2)) /\ Reads(a(2), a(3), x(3))
        /\ Reads(a(3), a(4), x(4)) /\ Reads(a(4), q, x(5))
    BY <1>6, Zenon DEF a, x
  <2>2. /\ q \in Nat /\ q < 100000 * 0 + 100000
        /\ x(1) = DigitAt(q, 10000) /\ x(2) = DigitAt(q, 1000) /\ x(3) = DigitAt(q, 100)
        /\ x(4) = DigitAt(q, 10) /\ x(5) = DigitAt(q, 1)
    BY <2>1, FiveRead, SMTT(30)
  <2> QED BY <2>2, SMTT(30) DEF x, Leads
<1>8. q < 100000
  BY <1>7, SMTT(30)
<1> QED BY <1>7, <1>8, SMTT(30) DEF q, t

\* What is left without the zeros before a number: z of them are gone if and only
\* if the first z bytes are zeros.
LEMMA SignificantIs ==
    ASSUME NEW v \in Seq(Byte)
    PROVE  /\ Len(Significant(v)) \in Nat
           /\ \A z \in 0..Len(v) : Len(Significant(v)) <= Len(v) - z <=> \A i \in 1..z : v[i] = 48
           /\ Len(v) >= 1 /\ v[1] # 48 => Len(Significant(v)) = Len(v) /\ Significant(v)[1] = v[1]
<1> DEFINE n == Len(v)
           nonzero == {i \in DOMAIN v : v[i] # 48}
           First(i) == i \in nonzero /\ \A j \in nonzero : i <= j
           first == CHOOSE i \in nonzero : \A j \in nonzero : i <= j
           digits == SubSeq(v, first, n)
<1>1. n \in Nat /\ DOMAIN v = 1..n /\ nonzero \subseteq 1..n
  BY LenProperties
<1>2. Significant(v) = IF nonzero = {} THEN <<>> ELSE digits
  BY DEF Significant
<1>3. nonzero # {} => \E i : First(i)
  <2> DEFINE S == (1..n) \ nonzero
  <2>1. SUFFICES ASSUME \A i : ~First(i) PROVE nonzero = {}
    OBVIOUS
  <2>2. ASSUME NEW i \in 1..n, \A j \in 1..n : j < i => j \in S PROVE i \in S
    <3>1. ASSUME i \in nonzero PROVE FALSE
      <4>1. PICK j \in nonzero : ~(i <= j)
        BY <2>1, <3>1
      <4>2. j \in 1..n /\ j < i
        BY <1>1, <4>1
      <4> QED BY <2>2, <4>1, <4>2
    <3> QED BY <3>1
  <2>3. 1..n \subseteq S
    <3>1. 1 \in Nat
      OBVIOUS
    <3> HIDE DEF S
    <3> QED BY <1>1, <2>2, <3>1, StrongInduction
  <2> QED BY <1>1, <2>3
<1>4. nonzero # {} => First(first)
  BY <1>3
<1>5. \A i \in 1..n : i \in nonzero <=> v[i] # 48
  BY <1>1
<1> HIDE DEF nonzero, first, digits
<1>6. CASE nonzero = {}
  <2>1. Significant(v) = <<>> /\ Len(Significant(v)) = 0
    BY <1>2, <1>6
  <2>2. \A i \in 1..n : v[i] = 48
    BY <1>5, <1>6
  <2> HIDE DEF n
  <2>3. \A z \in 0..n : 0 <= n - z /\ \A i \in 1..z : i \in 1..n
    BY <1>1
  <2>4. n >= 1 => 1 \in 1..n
    BY <1>1
  <2> QED BY <2>1, <2>2, <2>3, <2>4 DEF n
<1>7. CASE nonzero # {}
  <2>1. first \in 1..n /\ v[first] # 48 /\ \A i \in 1..n : v[i] # 48 => first <= i
    BY <1>1, <1>4, <1>5, <1>7
  <2>2. /\ Len(digits) = (IF first <= n THEN (n - first) + 1 ELSE 0)
        /\ \A i \in 1..((n - first) + 1) : digits[i] = v[(first + i) - 1]
    <3>1. first \in Int /\ n \in Int /\ \A i \in first..n : i \in 1..n
      BY <1>1, <2>1
    <3>2. \A i \in first..n : v[i] \in Byte
      BY <3>1, ElementOfSeq
    <3> HIDE DEF n
    <3> QED BY <3>1, <3>2, SubSeqProperties DEF digits
  <2>3. Significant(v) = digits
    BY <1>2, <1>7
  <2> HIDE DEF n
  <2>4. Len(digits) = (n - first) + 1 /\ Len(digits) \in Nat
    BY <1>1, <2>1, <2>2
  <2>5. ASSUME NEW z \in 0..n
        PROVE  (n - first) + 1 <= n - z <=> \A i \in 1..z : v[i] = 48
    <3>1. (n - first) + 1 <= n - z <=> z < first
      BY <1>1, <2>1
    <3>2. ASSUME z < first PROVE \A i \in 1..z : v[i] = 48
      <4>1. \A i \in 1..z : i \in 1..n /\ ~(first <= i)
        BY <1>1, <2>1, <3>2
      <4> QED BY <2>1, <4>1
    <3>3. ASSUME \A i \in 1..z : v[i] = 48 PROVE z < first
      <4>1. first \notin 1..z
        BY <2>1, <3>3
      <4> QED BY <1>1, <2>1, <4>1
    <3> QED BY <3>1, <3>2, <3>3
  <2>6. ASSUME n >= 1, v[1] # 48 PROVE Len(digits) = n /\ digits[1] = v[1]
    <3>1. first = 1
      <4>1. 1 \in 1..n
        BY <1>1, <2>6
      <4>2. first <= 1
        BY <2>1, <2>6, <4>1
      <4> QED BY <1>1, <2>1, <4>2
    <3>2. Len(digits) = n /\ 1 \in 1..((n - first) + 1) /\ (first + 1) - 1 = 1
      BY <1>1, <2>4, <2>6, <3>1
    <3> QED BY <2>2, <3>2
  <2> QED BY <2>3, <2>4, <2>5, <2>6 DEF n
<1> QED BY <1>6, <1>7

\* The last eight of more bytes.
LEMMA LastEight ==
    ASSUME NEW v \in Seq(Byte), NEW z \in Nat, Len(v) = z + 8
    PROVE  /\ SubSeq(v, z + 1, Len(v)) \in Seq(Byte)
           /\ Len(SubSeq(v, z + 1, Len(v))) = 8
           /\ \A k \in 1..8 : SubSeq(v, z + 1, Len(v))[k] = v[z + k]
<1> DEFINE n == Len(v)
           m == z + 1
           t == SubSeq(v, m, n)
<1>1. n \in Nat /\ n = z + 8
  BY LenProperties
<1> HIDE DEF n
<1>2. m \in Int /\ n \in Int /\ m <= n /\ (n - m) + 1 = 8
      /\ (\A i \in m..n : i \in 1..n) /\ \A k \in 1..8 : (m + k) - 1 = z + k
  BY <1>1
<1> HIDE DEF m
<1>3. \A i \in m..n : v[i] \in Byte
  BY <1>2, ElementOfSeq DEF n
<1>4. /\ t \in Seq(Byte) /\ Len(t) = (IF m <= n THEN (n - m) + 1 ELSE 0)
      /\ \A k \in 1..((n - m) + 1) : t[k] = v[(m + k) - 1]
  BY <1>2, <1>3, SubSeqProperties
<1> HIDE DEF t
<1>5. t \in Seq(Byte) /\ Len(t) = 8 /\ \A k \in 1..8 : t[k] = v[z + k]
  BY <1>2, <1>4
<1> QED BY <1>5 DEF t, m, n

\* Of a number of eight or more digits, the last eight are its value if those
\* before them are zeros.
LEMMA EightDigits ==
    ASSUME NEW v \in Seq(Byte), IsNumber(v), Len(v) >= 8,
           \A i \in 1..(Len(v) - 8) : v[i] = 48
    PROVE  /\ Number(v) \in Nat /\ Number(v) < 100000000
           /\ SubSeq(v, (Len(v) - 8) + 1, Len(v)) = Decimal(Number(v), 8)
           /\ Len(v) = 8 => Leads(Number(v) \div 1000, v)
<1> DEFINE n == Len(v)
           z == n - 8
           q == Number(v)
           t == SubSeq(v, z + 1, n)
<1>1. n \in Nat /\ z \in Nat /\ z <= n
  <2>1. n \in Nat
    BY LenProperties, SMTT(30)
  <2> QED BY <2>1, SMTT(30)
<1>2. PICK acc : Spells(acc, v) /\ q = acc[n]
  BY NumberRead, SMTT(30)
<1> HIDE DEF q
<1>3. acc[0] = 0 /\ \A i \in 1..n : Reads(acc[i - 1], acc[i], v[i])
  BY <1>2, SMTT(30) DEF Spells
<1>4. \A i \in 1..z : v[i] = 48
  BY SMTT(30)
<1> HIDE DEF n
<1>5. acc[z] = 0
  <2> DEFINE S == {k \in 0..z : acc[k] = 0}
  <2>1. ASSUME NEW k \in 0..z, \A j \in 0..z : j < k => j \in S PROVE k \in S
    <3>1. CASE k = 0
      BY <1>3, <3>1, SMTT(30)
    <3>2. CASE k # 0
      <4>1. k \in 1..z /\ k \in 1..n /\ k - 1 \in 0..z /\ k - 1 < k
        BY <1>1, <3>2, SMTT(30)
      <4>2. acc[k - 1] = 0 /\ v[k] = 48 /\ Reads(acc[k - 1], acc[k], v[k])
        BY <1>3, <1>4, <2>1, <4>1, SMTT(30)
      <4> QED BY <4>2, SMTT(30) DEF Reads, Digit
    <3> QED BY <3>1, <3>2, SMTT(30)
  <2>2. 0 \in Nat
    BY SMTT(30)
  <2> HIDE DEF z
  <2>3. 0..z \subseteq S
    <3> HIDE DEF S
    <3> QED BY <1>1, <2>1, <2>2, StrongInduction, Zenon
  <2>4. z \in 0..z
    BY <1>1, SMTT(30)
  <2> QED BY <2>3, <2>4, SMTT(30)
<1>6. \A k \in 1..8 : Reads(acc[z + (k - 1)], acc[z + k], v[z + k])
  <2>1. \A k \in 1..8 : z + k \in 1..n /\ (z + k) - 1 = z + (k - 1)
    BY <1>1, SMTT(30)
  <2> HIDE DEF z
  <2> SUFFICES ASSUME NEW k \in 1..8 PROVE Reads(acc[z + (k - 1)], acc[z + k], v[z + k])
    BY SMTT(30)
  <2>2. z + k \in 1..n /\ (z + k) - 1 = z + (k - 1)
    BY <2>1, Zenon
  <2>3. Reads(acc[(z + k) - 1], acc[z + k], v[z + k])
    BY <1>3, <2>2, Zenon
  <2> QED BY <2>2, <2>3, Zenon
<1>7. n = z + 8
  BY <1>1, SMTT(30)
<1> DEFINE a(k) == acc[z + k]
           x(k) == v[z + k]
<1> HIDE DEF z
<1>8. /\ Reads(0, a(1), x(1)) /\ Reads(a(1), a(2), x(2)) /\ Reads(a(2), a(3), x(3))
      /\ Reads(a(3), a(4), x(4)) /\ Reads(a(4), a(5), x(5)) /\ Reads(a(5), a(6), x(6))
      /\ Reads(a(6), a(7), x(7)) /\ Reads(a(7), q, x(8))
  <2>1. /\ Reads(acc[z + (1 - 1)], acc[z + 1], v[z + 1]) /\ Reads(acc[z + (2 - 1)], acc[z + 2], v[z + 2])
        /\ Reads(acc[z + (3 - 1)], acc[z + 3], v[z + 3]) /\ Reads(acc[z + (4 - 1)], acc[z + 4], v[z + 4])
        /\ Reads(acc[z + (5 - 1)], acc[z + 5], v[z + 5]) /\ Reads(acc[z + (6 - 1)], acc[z + 6], v[z + 6])
        /\ Reads(acc[z + (7 - 1)], acc[z + 7], v[z + 7]) /\ Reads(acc[z + (8 - 1)], acc[z + 8], v[z + 8])
    BY <1>6, SMTT(30)
  <2>2. /\ 1 - 1 = 0 /\ 2 - 1 = 1 /\ 3 - 1 = 2 /\ 4 - 1 = 3 /\ 5 - 1 = 4 /\ 6 - 1 = 5 /\ 7 - 1 = 6
        /\ 8 - 1 = 7 /\ z + 0 = z
    BY <1>1, SMTT(30)
  <2>3. q = acc[z + 8]
    BY <1>2, <1>7, SMTT(30)
  <2> QED BY <1>5, <2>1, <2>2, <2>3, SMTT(30)
<1> HIDE DEF a, x
<1>9. /\ q \in Nat /\ q < 100000000
      /\ x(1) = DigitAt(q, 10000000) /\ x(2) = DigitAt(q, 1000000)
      /\ x(3) = DigitAt(q, 100000) /\ x(4) = DigitAt(q, 10000)
      /\ x(5) = DigitAt(q, 1000) /\ x(6) = DigitAt(q, 100)
      /\ x(7) = DigitAt(q, 10) /\ x(8) = DigitAt(q, 1)
  BY <1>8, EightRead, SMTT(30)
<1>10. t = Decimal(q, 8)
  <2> DEFINE D == Decimal(q, 8)
  <2>1. /\ D \in Seq(Byte) /\ Len(D) = 8
        /\ D[1] = DigitAt(q, 10000000) /\ D[2] = DigitAt(q, 1000000)
        /\ D[3] = DigitAt(q, 100000) /\ D[4] = DigitAt(q, 10000)
        /\ D[5] = DigitAt(q, 1000) /\ D[6] = DigitAt(q, 100)
        /\ D[7] = DigitAt(q, 10) /\ D[8] = DigitAt(q, 1)
    BY <1>9, DecimalEight, SMTT(30)
  <2> HIDE DEF D
  <2>2. z \in Nat /\ Len(v) = z + 8
    BY <1>1, <1>7, Zenon DEF n
  <2>3. t \in Seq(Byte) /\ Len(t) = 8 /\ \A k \in 1..8 : t[k] = v[z + k]
    BY <2>2, LastEight, Zenon DEF n
  <2> HIDE DEF t
  <2>4. t \in Seq(Byte)
    BY <2>3, Zenon
  <2>5. Len(t) = 8 /\ \A i \in 1..8 : t[i] = x(i)
    BY <2>3, Zenon DEF x
  <2>6. \A i \in 1..8 : i = 1 \/ i = 2 \/ i = 3 \/ i = 4 \/ i = 5 \/ i = 6 \/ i = 7 \/ i = 8
    BY SMTT(30)
  <2>7. \A i \in 1..8 : x(i) = D[i]
    BY <1>9, <2>1, <2>6, SMTT(30)
  <2>8. t \in Seq(Byte) /\ D \in Seq(Byte)
    BY <2>1, <2>4, SMTT(30)
  <2>9. Len(t) = Len(D) /\ \A i \in 1..Len(t) : t[i] = D[i]
    <3>1. Len(D) = 8
      BY <2>1, SMTT(30)
    <3> QED BY <2>5, <2>7, <3>1, Zenon
  <2>10. t = D
    BY <2>8, <2>9, SeqEqual, Zenon
  <2> QED BY <2>10, Zenon DEF D
<1>11. n = 8 => Leads(q \div 1000, v)
  <2> SUFFICES ASSUME n = 8 PROVE Leads(q \div 1000, v)
    BY SMTT(30)
  <2>1. z = 0
    BY <1>1, <1>7, SMTT(30)
  <2>2. 0 + 1 = 1 /\ 0 + 2 = 2 /\ 0 + 3 = 3 /\ 0 + 4 = 4 /\ 0 + 5 = 5
    BY SMTT(30)
  <2>3. x(1) = v[1] /\ x(2) = v[2] /\ x(3) = v[3] /\ x(4) = v[4] /\ x(5) = v[5]
    BY <2>1, <2>2, Zenon DEF x
  <2>4. q \in Nat
    BY <1>9, SMTT(30)
  <2> DEFINE k == q \div 1000
  <2>5. /\ DigitAt(k, 10000) = DigitAt(q, 10000000) /\ DigitAt(k, 1000) = DigitAt(q, 1000000)
        /\ DigitAt(k, 100) = DigitAt(q, 100000) /\ DigitAt(k, 10) = DigitAt(q, 10000)
        /\ DigitAt(k, 1) = DigitAt(q, 1000)
    BY <2>4, ThousandsAt, SMTT(30)
  <2> HIDE DEF k
  <2>6. Leads(k, v)
    BY <1>9, <2>3, <2>5, SMTT(30) DEF Leads
  <2> QED BY <2>6, SMTT(30) DEF k
<1> QED BY <1>9, <1>10, <1>11, SMTT(30) DEF n, z, q, t

-----------------------------------------------------------------------------
\* The rows of the catalogue.

LEMMA PrefixesAre ==
    ASSUME NEW p \in SerialPrefixes
    PROVE  /\ p \in Nat /\ p < 100000
           /\ DigitAt(p, 10000) >= 50
           /\ p \notin 70000..70002
BY SMTT(30) DEF SerialPrefixes, DigitAt

LEMMA RangeIs ==
    /\ SerialFrom \in Nat /\ SerialTo \in Nat
    /\ SerialFrom > 10000000 /\ SerialTo < 100000000
    /\ \A n \in Nat : SerialFrom <= n /\ n <= SerialTo => n \div 1000 \in 70000..70002
BY SMTT(30) DEF SerialFrom, SerialTo

\* The rows that own a serial number by their prefix: at most that of its first
\* five digits.
LEMMA PrefixOwners ==
    ASSUME NEW v \in Seq(Byte), IsNumber(v), Len(v) >= 5
    PROVE  /\ Number(SubSeq(v, 1, 5)) \in Nat
           /\ Leads(Number(SubSeq(v, 1, 5)), v)
           /\ {p \in SerialPrefixes : IsPrefix(Decimal(p, 5), v)}
                = {p \in SerialPrefixes : p = Number(SubSeq(v, 1, 5))}
<1> DEFINE q == Number(SubSeq(v, 1, 5))
<1>1. q \in Nat /\ q < 100000 /\ Leads(q, v)
  BY FiveDigits, SMTT(30)
<1> HIDE DEF q
<1>2. ASSUME NEW p \in SerialPrefixes PROVE IsPrefix(Decimal(p, 5), v) <=> p = q
  <2>1. p \in Nat /\ p < 100000
    BY PrefixesAre, SMTT(30)
  <2>2. IsPrefix(Decimal(p, 5), v) <=> Leads(p, v)
    BY <2>1, PrefixLeads, SMTT(30)
  <2>3. Leads(p, v) => p = q
    BY <1>1, <2>1, FiveDigitsDiffer, SMTT(30) DEF Leads
  <2> QED BY <1>1, <2>2, <2>3, SMTT(30)
<1> QED BY <1>1, <1>2, SMTT(30) DEF q

\* Zeros and then a number of the range.
Ranged(v) ==
    /\ Len(v) - 8 >= 0
    /\ \A i \in 1..(Len(v) - 8) : v[i] = 48
    /\ SubSeq(v, (Len(v) - 8) + 1, Len(v)) \in RangeSerials

LEMMA RangedIsNumber ==
    ASSUME NEW v \in Seq(Byte), Ranged(v)
    PROVE  IsNumber(v)
<1> DEFINE n == Len(v)
           z == n - 8
           t == SubSeq(v, z + 1, n)
<1>1. n \in Nat /\ z \in Nat /\ n = z + 8 /\ \A i \in 1..z : v[i] = 48
  <2>1. n \in Nat
    BY LenProperties, SMTT(30)
  <2> QED BY <2>1, SMTT(30) DEF Ranged
<1>2. PICK m \in Nat : t = Decimal(m, 8)
  <2>1. t \in RangeSerials
    BY SMTT(30) DEF Ranged
  <2>2. PICK m \in SerialFrom..SerialTo : t = Decimal(m, 8)
    BY <2>1, SMTT(30) DEF RangeSerials
  <2>3. m \in Nat
    BY <2>2, RangeIs, SMTT(30)
  <2> QED BY <2>2, <2>3, SMTT(30)
<1> HIDE DEF n, z
<1>3. \A k \in 1..8 : t[k] = v[z + k]
  <2>1. z \in Nat /\ Len(v) = z + 8
    BY <1>1, Zenon DEF n
  <2> QED BY <2>1, LastEight, Zenon DEF n
<1>4. \A k \in 1..8 : t[k] \in 48..57
  <2> HIDE DEF t
  <2>1. /\ DigitAt(m, 10000000) \in 48..57 /\ DigitAt(m, 1000000) \in 48..57
        /\ DigitAt(m, 100000) \in 48..57 /\ DigitAt(m, 10000) \in 48..57
        /\ DigitAt(m, 1000) \in 48..57 /\ DigitAt(m, 100) \in 48..57
        /\ DigitAt(m, 10) \in 48..57 /\ DigitAt(m, 1) \in 48..57
    BY <1>2, SMTT(30) DEF DigitAt
  <2>2. \A k \in 1..8 : k = 1 \/ k = 2 \/ k = 3 \/ k = 4 \/ k = 5 \/ k = 6 \/ k = 7 \/ k = 8
    BY SMTT(30)
  <2>3. /\ t[1] = DigitAt(m, 10000000) /\ t[2] = DigitAt(m, 1000000)
        /\ t[3] = DigitAt(m, 100000) /\ t[4] = DigitAt(m, 10000)
        /\ t[5] = DigitAt(m, 1000) /\ t[6] = DigitAt(m, 100)
        /\ t[7] = DigitAt(m, 10) /\ t[8] = DigitAt(m, 1)
    BY <1>2, DecimalEight, SMTT(30)
  <2>4. /\ t[1] \in 48..57 /\ t[2] \in 48..57 /\ t[3] \in 48..57 /\ t[4] \in 48..57
        /\ t[5] \in 48..57 /\ t[6] \in 48..57 /\ t[7] \in 48..57 /\ t[8] \in 48..57
    BY <2>1, <2>3, SMTT(30)
  <2> QED BY <2>2, <2>4, Zenon
<1> HIDE DEF t
<1>5. \A i \in 1..n : v[i] \in 48..57
  <2> SUFFICES ASSUME NEW i \in 1..n PROVE v[i] \in 48..57
    BY SMTT(30)
  <2>1. CASE i \in 1..z
    BY <1>1, <2>1, SMTT(30)
  <2>2. CASE i \notin 1..z
    <3>1. i - z \in 1..8 /\ z + (i - z) = i
      BY <1>1, <2>2, SMTT(30)
    <3>2. PICK k \in 1..8 : z + k = i
      BY <3>1, SMTT(30)
    <3> QED BY <1>3, <1>4, <3>2, Zenon
  <2> QED BY <2>1, <2>2, SMTT(30)
<1> QED BY <1>5, NumberDigits, SMTT(30) DEF n

\* The range owns a serial number if and only if its value lies in it.
LEMMA RangeOwner ==
    ASSUME NEW v \in Seq(Byte), IsNumber(v), Len(v) >= 7
    PROVE  /\ Ranged(v) <=> InRange(v)
           /\ Ranged(v) => Len(Significant(v)) <= 8 /\ Number(SubSeq(v, 1, 5)) \notin SerialPrefixes
<1> DEFINE n == Len(v)
           z == n - 8
           Zeros == \A i \in 1..z : v[i] = 48
           N == Number(v)
           digits == Len(Significant(v))
           t == SubSeq(v, z + 1, n)
<1>1. n \in Nat
  BY LenProperties, SMTT(30)
<1>2. CASE n = 7
  <2>1. ~Ranged(v)
    BY <1>2, SMTT(30) DEF Ranged
  <2>2. ~(SerialFrom <= N)
    <3>1. PICK acc : Spells(acc, v) /\ N = acc[n]
      BY NumberRead, SMTT(30)
    <3> HIDE DEF N
    <3>2. \A i \in 1..7 : Reads(acc[i - 1], acc[i], v[i])
      BY <1>2, <3>1, SMTT(30) DEF Spells
    <3>3. acc[0] = 0 /\ N = acc[7]
      BY <1>2, <3>1, SMTT(30) DEF Spells
    <3>4. /\ Reads(acc[1 - 1], acc[1], v[1]) /\ Reads(acc[2 - 1], acc[2], v[2])
          /\ Reads(acc[3 - 1], acc[3], v[3]) /\ Reads(acc[4 - 1], acc[4], v[4])
          /\ Reads(acc[5 - 1], acc[5], v[5]) /\ Reads(acc[6 - 1], acc[6], v[6])
          /\ Reads(acc[7 - 1], acc[7], v[7])
      BY <3>2, SMTT(30)
    <3>5. 1 - 1 = 0 /\ 2 - 1 = 1 /\ 3 - 1 = 2 /\ 4 - 1 = 3 /\ 5 - 1 = 4 /\ 6 - 1 = 5 /\ 7 - 1 = 6
      BY SMTT(30)
    <3>6. /\ Reads(0, acc[1], v[1]) /\ Reads(acc[1], acc[2], v[2]) /\ Reads(acc[2], acc[3], v[3])
          /\ Reads(acc[3], acc[4], v[4]) /\ Reads(acc[4], acc[5], v[5]) /\ Reads(acc[5], acc[6], v[6])
          /\ Reads(acc[6], N, v[7])
      BY <3>3, <3>4, <3>5, SMTT(30)
    <3> DEFINE a(k) == acc[k]
               x(k) == v[k]
    <3> HIDE DEF a, x
    <3>7. /\ a(1) \in Nat /\ a(1) < 10 * 0 + 10 /\ a(2) \in Nat /\ a(2) < 10 * a(1) + 10
          /\ N \in Nat /\ N < 100000 * a(2) + 100000
      <4>1. /\ Reads(0, a(1), x(1)) /\ Reads(a(1), a(2), x(2)) /\ Reads(a(2), a(3), x(3))
            /\ Reads(a(3), a(4), x(4)) /\ Reads(a(4), a(5), x(5)) /\ Reads(a(5), a(6), x(6))
            /\ Reads(a(6), N, x(7))
        BY <3>6, Zenon DEF a, x
      <4>2. N \in Nat /\ N < 100000 * a(2) + 100000
        BY <4>1, FiveRead, SMTT(30)
      <4> QED BY <4>1, <4>2, ReadBack, SMTT(30)
    <3>8. N < 10000000
      BY <3>7, SMTT(30)
    <3> QED BY <3>7, <3>8, RangeIs, SMTT(30)
  <2> QED BY <2>1, <2>2, SMTT(30) DEF InRange
<1>3. CASE n >= 8
  <2>1. z \in 0..n /\ n - z = 8 /\ n = z + 8
    BY <1>1, <1>3, SMTT(30)
  <2>2. digits <= 8 <=> Zeros
    <3>1. \A k \in 0..n : digits <= n - k <=> \A i \in 1..k : v[i] = 48
      BY SignificantIs, Zenon
    <3> HIDE DEF z, n, digits
    <3>2. digits <= n - z <=> Zeros
      BY <2>1, <3>1, Zenon
    <3> HIDE DEF Zeros
    <3> QED BY <2>1, <3>2, Zenon
  <2>3. Zeros => /\ N \in Nat /\ N < 100000000
                 /\ t = Decimal(N, 8)
                 /\ n = 8 => Leads(N \div 1000, v)
    BY <1>3, EightDigits, SMTT(30)
  <2>4. Ranged(v) <=> Zeros /\ t \in RangeSerials
    BY <2>1, SMTT(30) DEF Ranged
  <2>5. InRange(v) <=> digits <= 8 /\ SerialFrom <= N /\ N <= SerialTo
    BY SMTT(30) DEF InRange
  <2> HIDE DEF Zeros, N, digits, t
  <2>6. ASSUME Zeros PROVE t \in RangeSerials <=> SerialFrom <= N /\ N <= SerialTo
    <3>1. N \in Nat /\ N < 100000000 /\ t = Decimal(N, 8)
      BY <2>3, <2>6, SMTT(30)
    <3>2. ASSUME SerialFrom <= N, N <= SerialTo PROVE t \in RangeSerials
      <4>1. N \in SerialFrom..SerialTo
        BY <3>1, <3>2, RangeIs, SMTT(30)
      <4> QED BY <3>1, <4>1, SMTT(30) DEF RangeSerials
    <3>3. ASSUME t \in RangeSerials PROVE SerialFrom <= N /\ N <= SerialTo
      <4>1. PICK m \in SerialFrom..SerialTo : t = Decimal(m, 8)
        BY <3>3, SMTT(30) DEF RangeSerials
      <4>2. m \in Nat /\ m < 100000000 /\ SerialFrom <= m /\ m <= SerialTo
        BY <4>1, RangeIs, SMTT(30)
      <4> DEFINE dm == Decimal(m, 8)
                 dn == Decimal(N, 8)
      <4>3. /\ dm[1] = DigitAt(m, 10000000) /\ dm[2] = DigitAt(m, 1000000)
            /\ dm[3] = DigitAt(m, 100000) /\ dm[4] = DigitAt(m, 10000)
            /\ dm[5] = DigitAt(m, 1000) /\ dm[6] = DigitAt(m, 100)
            /\ dm[7] = DigitAt(m, 10) /\ dm[8] = DigitAt(m, 1)
        BY <4>2, DecimalEight, SMTT(30)
      <4>4. /\ dn[1] = DigitAt(N, 10000000) /\ dn[2] = DigitAt(N, 1000000)
            /\ dn[3] = DigitAt(N, 100000) /\ dn[4] = DigitAt(N, 10000)
            /\ dn[5] = DigitAt(N, 1000) /\ dn[6] = DigitAt(N, 100)
            /\ dn[7] = DigitAt(N, 10) /\ dn[8] = DigitAt(N, 1)
        BY <3>1, DecimalEight, SMTT(30)
      <4>5. dm = dn
        BY <3>1, <4>1, SMTT(30)
      <4> HIDE DEF dm, dn
      <4>6. /\ DigitAt(m, 10000000) = DigitAt(N, 10000000) /\ DigitAt(m, 1000000) = DigitAt(N, 1000000)
            /\ DigitAt(m, 100000) = DigitAt(N, 100000) /\ DigitAt(m, 10000) = DigitAt(N, 10000)
            /\ DigitAt(m, 1000) = DigitAt(N, 1000) /\ DigitAt(m, 100) = DigitAt(N, 100)
            /\ DigitAt(m, 10) = DigitAt(N, 10) /\ DigitAt(m, 1) = DigitAt(N, 1)
        BY <4>3, <4>4, <4>5, SMTT(30)
      <4>7. m \in Nat /\ N \in Nat /\ m < 100000000 /\ N < 100000000
        BY <3>1, <4>2, SMTT(30)
      <4>8. m = N
        BY <4>6, <4>7, EightDigitsDiffer, SMTT(30)
      <4> QED BY <4>2, <4>8, SMTT(30)
    <3> QED BY <3>2, <3>3, SMTT(30)
  <2>7. Ranged(v) <=> InRange(v)
    BY <2>2, <2>4, <2>5, <2>6, SMTT(30)
  <2>8. ASSUME Ranged(v) PROVE digits <= 8 /\ Number(SubSeq(v, 1, 5)) \notin SerialPrefixes
    <3> DEFINE q == Number(SubSeq(v, 1, 5))
    <3>1. Zeros /\ digits <= 8 /\ SerialFrom <= N /\ N <= SerialTo
      BY <2>2, <2>4, <2>6, <2>8, SMTT(30)
    <3>2. q \in Nat /\ q < 100000 /\ Leads(q, v)
      BY <1>1, <1>3, FiveDigits, SMTT(30) DEF n
    <3> HIDE DEF q
    <3>3. ASSUME q \in SerialPrefixes PROVE FALSE
      <4>1. DigitAt(q, 10000) >= 50 /\ q \notin 70000..70002
        BY <3>3, PrefixesAre, SMTT(30)
      <4>2. CASE n = 8
        <5>1. N \in Nat /\ Leads(N \div 1000, v)
          BY <2>3, <3>1, <4>2, SMTT(30)
        <5>2. N \div 1000 \in 70000..70002
          BY <3>1, <5>1, RangeIs, SMTT(30)
        <5> DEFINE k == N \div 1000
        <5>3. k \in Nat /\ k < 100000 /\ k \in 70000..70002 /\ Leads(k, v)
          BY <5>1, <5>2, SMTT(30)
        <5> HIDE DEF k
        <5>4. k = q
          BY <3>2, <5>3, FiveDigitsDiffer, SMTT(30) DEF Leads
        <5> QED BY <4>1, <5>3, <5>4, SMTT(30)
      <4>3. CASE n # 8
        <5>1. 1 \in 1..z
          BY <2>1, <4>3, <1>1, <1>3, SMTT(30)
        <5>2. v[1] = 48
          BY <3>1, <5>1, SMTT(30) DEF Zeros
        <5> QED BY <3>2, <4>1, <5>2, SMTT(30) DEF Leads
      <4> QED BY <4>2, <4>3, SMTT(30)
    <3> QED BY <3>1, <3>3, SMTT(30) DEF q
  <2> QED BY <2>7, <2>8, SMTT(30) DEF digits
<1>4. n >= 7
  BY Zenon
<1> HIDE DEF n
<1>5. n = 7 \/ n >= 8
  BY <1>1, <1>4, SMTT(30)
<1> QED BY <1>2, <1>3, <1>5, Zenon

LEMMA ByteIsInt == \A x \in Byte : x \in Int
BY DEF Byte

\* More than nineteen digits and a value that fits: the first is below 2.
LEMMA LongFits ==
    ASSUME NEW v \in Seq(Byte), Len(v) >= 20, Fits64(v), v[1] >= 50
    PROVE  FALSE
<1> DEFINE n == Len(v)
           digits == Significant(v)
<1>1. n \in Nat /\ n >= 1 /\ v[1] # 48
  <2>1. n \in Nat
    BY LenProperties, SMTT(30)
  <2> QED BY <2>1, SMTT(30)
<1>2. Len(digits) = n /\ digits[1] = v[1]
  BY <1>1, SignificantIs, SMTT(30)
<1> HIDE DEF digits
<1>3. Len(digits) < 20 \/ (Len(digits) = 20 /\ \A i \in 1..20 :
            Digit(digits[i]) > Largest[i] => \E j \in 1..(i - 1) : Digit(digits[j]) < Largest[j])
  BY SMTT(30) DEF Fits64, digits
<1>4. \A i \in 1..20 :
         Digit(digits[i]) > Largest[i] => \E j \in 1..(i - 1) : Digit(digits[j]) < Largest[j]
  <2>1. n >= 20
    BY Zenon
  <2> HIDE DEF n
  <2>2. ~(Len(digits) < 20)
    BY <1>1, <1>2, <2>1, SMTT(30)
  <2> QED BY <1>3, <2>2, Zenon
<1>5. v[1] \in Int
  <2>1. 1 \in 1..Len(v)
    BY <1>1, SMTT(30)
  <2>2. v[1] \in Byte
    BY <2>1, ElementOfSeq, Zenon
  <2> QED BY <2>2, ByteIsInt, Zenon
<1>6. Digit(digits[1]) > Largest[1]
  BY <1>2, <1>5, SMTT(30) DEF Digit, Largest
<1>7. 1 \in 1..20 /\ 1..(1 - 1) = {}
  BY SMTT(30)
<1> QED BY <1>4, <1>6, <1>7, SMTT(30)

\* One row at most owns a serial number, and it is the one identified.
LEMMA OneOwner ==
    ASSUME NEW v \in Seq(Byte)
    PROVE  \/ Owners(v) = {} /\ Identify(v) = NoModel
           \/ Owners(v) = {Identify(v)}
<1> DEFINE n == Len(v)
           q == Number(SubSeq(v, 1, 5))
           ByRange == IF Ranged(v) THEN {CardRow} ELSE {}
           Leading == {p \in SerialPrefixes : IsPrefix(Decimal(p, 5), v)}
           ByPrefix == IF n \in 7..19 /\ IsNumber(v) THEN {Row(p) : p \in Leading} ELSE {}
<1>1. n \in Nat
  BY LenProperties, SMTT(30)
<1>2. Owners(v) = ByRange \cup ByPrefix
  BY SMTT(30) DEF Owners, Ranged
<1>3. CASE n < 7
  <2>1. ~Ranged(v) /\ n \notin 7..19
    <3>1. Ranged(v) => n - 8 >= 0
      BY Zenon DEF Ranged
    <3> HIDE DEF n
    <3> QED BY <1>1, <1>3, <3>1, SMTT(30)
  <2>2. Identify(v) = NoModel
    BY <1>3, SMTT(30) DEF Identify
  <2> QED BY <1>2, <2>1, <2>2, SMTT(30)
<1>4. CASE ~IsNumber(v)
  <2>1. ~Ranged(v)
    BY <1>4, RangedIsNumber, SMTT(30)
  <2>2. Identify(v) = NoModel
    BY <1>4, SMTT(30) DEF Identify
  <2> QED BY <1>2, <1>4, <2>1, <2>2, SMTT(30)
<1>5. CASE n >= 7 /\ IsNumber(v)
  <2>1. /\ Ranged(v) <=> InRange(v)
        /\ Ranged(v) => Len(Significant(v)) <= 8 /\ q \notin SerialPrefixes
    BY <1>5, RangeOwner, SMTT(30)
  <2>2. q \in Nat /\ Leads(q, v) /\ Leading = {p \in SerialPrefixes : p = q}
    BY <1>1, <1>5, PrefixOwners, SMTT(30)
  <2>3. Len(Significant(v)) \in Nat /\ Len(Significant(v)) <= n
    <3>1. 0 \in 0..n /\ n - 0 = n /\ 1..0 = {}
      BY <1>1, SMTT(30)
    <3>2. Len(Significant(v)) <= n - 0 <=> \A i \in 1..0 : v[i] = 48
      BY <3>1, SignificantIs, SMTT(30)
    <3> QED BY <3>1, <3>2, SignificantIs, SMTT(30)
  <2> HIDE DEF q, Leading
  <2>4. {Row(p) : p \in Leading} = IF q \in SerialPrefixes THEN {Row(q)} ELSE {}
    <3>1. CASE q \in SerialPrefixes
      <4>1. Leading = {q}
        BY <2>2, <3>1, SMTT(30)
      <4> QED BY <3>1, <4>1, SMTT(30)
    <3>2. CASE q \notin SerialPrefixes
      <4>1. Leading = {}
        BY <2>2, <3>2, SMTT(30)
      <4> QED BY <3>2, <4>1, SMTT(30)
    <3> QED BY <3>1, <3>2, Zenon
  <2>5. CASE ~Fits64(v)
    <3>1. ~(Len(Significant(v)) < 20)
      BY <2>5, SMTT(30) DEF Fits64
    <3>2. ~Ranged(v) /\ n \notin 7..19
      <4> DEFINE digits == Len(Significant(v))
      <4>1. digits \in Nat /\ digits <= n /\ ~(digits < 20) /\ (Ranged(v) => digits <= 8)
        BY <2>1, <2>3, <3>1, Zenon
      <4> HIDE DEF digits, n
      <4> QED BY <1>1, <4>1, SMTT(30)
    <3>3. Identify(v) = NoModel
      BY <2>5, SMTT(30) DEF Identify
    <3> QED BY <1>2, <3>2, <3>3, SMTT(30)
  <2>6. CASE Fits64(v)
    <3>1. Identify(v) = IF InRange(v) THEN CardRow
                        ELSE IF q \in SerialPrefixes THEN Row(q) ELSE NoModel
      BY <1>1, <1>5, <2>6, SMTT(30) DEF Identify, q
    <3>2. CASE InRange(v)
      <4>1. Owners(v) = {CardRow}
        BY <1>2, <2>1, <2>4, <3>2, SMTT(30)
      <4> QED BY <3>1, <3>2, <4>1, SMTT(30)
    <3>3. CASE ~InRange(v)
      <4>1. q \in SerialPrefixes => n \in 7..19
        <5> SUFFICES ASSUME q \in SerialPrefixes, ~(n \in 7..19) PROVE FALSE
          BY SMTT(30)
        <5>1. n >= 20
          <6> HIDE DEF n
          <6> QED BY <1>1, <1>5, SMTT(30)
        <5>2. v[1] >= 50
          BY <2>2, PrefixesAre, SMTT(30) DEF Leads
        <5> QED BY <2>6, <5>1, <5>2, LongFits, SMTT(30)
      <4>2. Owners(v) = IF q \in SerialPrefixes THEN {Row(q)} ELSE {}
        <5>1. ByRange = {}
          BY <2>1, <3>3, Zenon
        <5>2. CASE q \in SerialPrefixes
          <6>1. ByPrefix = {Row(q)}
            BY <1>5, <2>4, <4>1, <5>2, Zenon
          <6> QED BY <1>2, <5>1, <5>2, <6>1, SMTT(30)
        <5>3. CASE q \notin SerialPrefixes
          <6>1. ByPrefix = {}
            BY <2>4, <5>3, Zenon
          <6> QED BY <1>2, <5>1, <5>3, <6>1, SMTT(30)
        <5> QED BY <5>2, <5>3, Zenon
      <4> QED BY <3>1, <3>3, <4>2, SMTT(30)
    <3> QED BY <3>2, <3>3, SMTT(30)
  <2> QED BY <2>5, <2>6, SMTT(30)
<1> QED BY <1>1, <1>3, <1>4, <1>5, SMTT(30)

\* IdentifiesOwner: whatever serial number is read, of a token or damaged, at most
\* one row of the catalogue owns it, and Identify names that row or none.
THEOREM OwnerIdentified == Spec => []IdentifiesOwner
<1>1. Inv => IdentifiesOwner
  <2> DEFINE result == ParseSerialNumber(bytes)
             v == SubSeq(bytes, 3, 2 + bytes[2])
             owners == Owners(result.value)
  <2> SUFFICES ASSUME Inv, result # Invalid
               PROVE  /\ Cardinality(owners) <= 1
                      /\ Identify(result.value) \in (IF owners = {} THEN {NoModel} ELSE owners)
    BY SMTT(30) DEF IdentifiesOwner
  <2>1. bytes \in Seq(Byte) /\ Len(bytes) \in Nat
    BY LenProperties, SMTT(30) DEF Inv
  <2>2. Len(bytes) >= 2 /\ ~(bytes[2] > Len(bytes) - 2) /\ result.value = v
    <3>1. ~(Len(bytes) < 2 \/ bytes[1] # 209 \/ bytes[2] > Len(bytes) - 2)
      BY SMTT(30) DEF ParseSerialNumber
    <3>2. result = [value |-> v]
      BY <3>1, SMTT(30) DEF ParseSerialNumber
    <3>3. result.value = v
      <4> HIDE DEF result, v
      <4> QED BY <3>2, SMTT(30)
    <3>4. \A n \in Nat : ~(n < 2) => n >= 2
      BY SMTT(30)
    <3> QED BY <2>1, <3>1, <3>3, <3>4, Zenon
  <2>3. v \in Seq(Byte)
    <3>1. 2 \in 1..Len(bytes)
      BY <2>1, <2>2, SMTT(30)
    <3>2. bytes[2] \in Int
      <4>1. bytes[2] \in Byte
        BY <2>1, <3>1, ElementOfSeq, Zenon
      <4> QED BY <4>1, ByteIsInt, Zenon
    <3>3. 3 \in Int /\ 2 + bytes[2] \in Int /\ \A i \in 3..(2 + bytes[2]) : i \in 1..Len(bytes)
      BY <2>1, <2>2, <3>2, SMTT(30)
    <3>4. \A i \in 3..(2 + bytes[2]) : bytes[i] \in Byte
      BY <2>1, <3>3, ElementOfSeq, SMTT(30)
    <3> QED BY <3>3, <3>4, SubSeqProperties, SMTT(30)
  <2> HIDE DEF v
  <2>4. \/ Owners(v) = {} /\ Identify(v) = NoModel
        \/ Owners(v) = {Identify(v)}
    BY <2>3, OneOwner
  <2>5. Cardinality({}) = 0 /\ Cardinality({Identify(v)}) = 1
    BY FS_EmptySet, FS_Singleton, Zenon
  <2>6. Cardinality(Owners(v)) <= 1
    BY <2>4, <2>5, SMTT(30)
  <2> QED BY <2>2, <2>4, <2>6, SMTT(30)
<1> QED BY <1>1, DataKnown, PTL

=============================================================================
