------------------------------ MODULE BasicFacts ------------------------------
(***************************************************************************)
(* Facts about division and about the operators of SequencesExt that the   *)
(* models use, with the induction over an interval they rest on.           *)
(***************************************************************************)
EXTENDS Integers, Sequences, FiniteSets, FiniteSetsExt, SequencesExt,
        FiniteSetTheorems, SequenceTheorems, WellFoundedInduction, TLAPS

-----------------------------------------------------------------------------
\* Arithmetic.

LEMMA Products ==
    ASSUME NEW a \in Nat, NEW d \in Nat
    PROVE  a * d \in Nat
OBVIOUS

LEMMA NextMultiple ==
    ASSUME NEW a \in Int, NEW d \in Int
    PROVE  (a + 1) * d = a * d + d
OBVIOUS

\* Multiples of d are d apart.
LEMMA MultiplesApart ==
    ASSUME NEW a \in Int, NEW b \in Int, NEW d \in Nat, a < b
    PROVE  a * d + d <= b * d
<1>1. b - a - 1 \in Nat
  OBVIOUS
<1>2. (b - a - 1) * d \in Nat
  BY <1>1, Products
<1>3. (b - a - 1) * d = b * d - a * d - d
  OBVIOUS
<1> QED BY <1>2, <1>3

LEMMA Division ==
    ASSUME NEW x \in Nat, NEW m \in Nat \ {0}
    PROVE  /\ x \div m \in Nat
           /\ x % m \in 0..(m - 1)
           /\ x = (x \div m) * m + (x % m)
OBVIOUS

\* Quotient and remainder are unique.
LEMMA Remainder ==
    ASSUME NEW x \in Nat, NEW m \in Nat \ {0}, NEW q \in Nat, NEW r \in 0..(m - 1),
           x = q * m + r
    PROVE  x % m = r
<1> DEFINE p == x \div m
           s == x % m
<1>1. p \in Nat /\ s \in 0..(m - 1) /\ x = p * m + s
  BY Division
<1> HIDE DEF p, s
<1>2. ~(p < q)
  BY <1>1, MultiplesApart
<1>3. ~(q < p)
  BY <1>1, MultiplesApart
<1>4. p = q
  BY <1>1, <1>2, <1>3
<1> QED BY <1>1, <1>4 DEF s

LEMMA SmallRemainder ==
    ASSUME NEW m \in Nat \ {0}, NEW r \in 0..(m - 1)
    PROVE  r % m = r
<1>1. r = 0 * m + r
  OBVIOUS
<1> QED BY <1>1, Remainder

\* Numbers modulo m are counted on.
LEMMA NextRemainder ==
    ASSUME NEW x \in Nat, NEW m \in Nat \ {0}
    PROVE  ((x % m) + 1) % m = (x + 1) % m
<1> DEFINE q == x \div m
           r == x % m
<1>1. q \in Nat /\ r \in 0..(m - 1) /\ x = q * m + r
  BY Division
<1> HIDE DEF q, r
<1>2. CASE r + 1 < m
  <2>1. (r + 1) % m = r + 1
    BY <1>1, <1>2, SmallRemainder
  <2>2. x + 1 = q * m + (r + 1)
    BY <1>1
  <2>3. (x + 1) % m = r + 1
    BY <1>1, <1>2, <2>2, Remainder
  <2> QED BY <2>1, <2>3 DEF r
<1>3. CASE r + 1 = m
  <2>1. m = 1 * m + 0 /\ 0 \in 0..(m - 1)
    OBVIOUS
  <2>2. m % m = 0
    BY <2>1, Remainder
  <2>3. x + 1 = (q + 1) * m + 0
    BY <1>1, <1>3
  <2>4. (x + 1) % m = 0
    BY <1>1, <2>1, <2>3, Remainder
  <2> QED BY <1>3, <2>2, <2>4 DEF r
<1> QED BY <1>1, <1>2, <1>3

\* Numbers modulo m tell apart what is less than m apart.
LEMMA RemaindersApart ==
    ASSUME NEW x \in Nat, NEW y \in Nat, NEW m \in Nat \ {0},
           x % m = y % m, x < y + m, y < x + m
    PROVE  x = y
<1> DEFINE p == x \div m
           q == y \div m
           r == x % m
<1>1. /\ p \in Nat /\ q \in Nat /\ r \in 0..(m - 1)
      /\ x = p * m + r /\ y = q * m + r
  BY Division
<1> HIDE DEF p, q, r
<1>2. ~(p < q)
  BY <1>1, MultiplesApart
<1>3. ~(q < p)
  BY <1>1, MultiplesApart
<1> QED BY <1>1, <1>2, <1>3

\* The first number of a block is in a later block than those before it.
LEMMA LaterBlock ==
    ASSUME NEW x \in Nat, NEW y \in Nat, NEW m \in Nat \ {0}, x < y, y % m = 0
    PROVE  (x \div m) < (y \div m)
<1> DEFINE p == x \div m
           q == y \div m
<1>1. /\ p \in Nat /\ q \in Nat /\ x % m \in 0..(m - 1)
      /\ x = p * m + (x % m) /\ y = q * m
  BY Division
<1> HIDE DEF p, q
<1>2. CASE p = q
  BY <1>1, <1>2
<1>3. CASE q < p
  <2>1. q * m + m <= p * m
    BY <1>1, <1>3, MultiplesApart
  <2>2. p * m \in Nat /\ q * m \in Nat
    BY <1>1, Products
  <2> QED BY <1>1, <2>1, <2>2
<1>4. p < q \/ p = q \/ q < p
  BY <1>1
<1> QED BY <1>2, <1>3, <1>4 DEF p, q

\* Numbers below n blocks are in one of them.
LEMMA BlockOf ==
    ASSUME NEW n \in Nat, NEW m \in Nat \ {0}, NEW x \in Nat, x < n * m
    PROVE  1 + (x \div m) \in 1..n
<1> DEFINE p == x \div m
<1>1. p \in Nat /\ x % m \in 0..(m - 1) /\ x = p * m + (x % m)
  BY Division
<1> HIDE DEF p
<1>2. ASSUME n = p PROVE FALSE
  BY <1>1, <1>2
<1>3. ASSUME n < p PROVE FALSE
  <2>1. n * m + m <= p * m
    BY <1>1, <1>3, MultiplesApart
  <2>2. p * m \in Nat /\ n * m \in Nat
    BY <1>1, Products
  <2> QED BY <1>1, <2>1, <2>2
<1>4. n <= p => n = p \/ n < p
  BY <1>1
<1>5. ASSUME n <= p PROVE FALSE
  BY <1>1, <1>2, <1>3, <1>4, <1>5
<1>6. 1 + p \in 1..n
  BY <1>1, <1>5
<1> QED BY <1>6 DEF p

-----------------------------------------------------------------------------
\* Induction.

\* Induction, stated with a set instead of a predicate: the least number outside
\* the set has a predecessor inside it.
LEMMA IntervalInduction ==
    ASSUME NEW n \in Nat, NEW S,
           1 \in S,
           \A i \in 1..(n - 1) : i \in S => i + 1 \in S
    PROVE  1..n \subseteq S
<1> DEFINE missing == (1..n) \ S
<1> SUFFICES ASSUME missing # {} PROVE FALSE
  OBVIOUS
<1>1. PICK x \in missing : \A y \in missing : <<y, x>> \notin OpToRel(<, Nat)
  <2>1. missing \subseteq Nat
    OBVIOUS
  <2> HIDE DEF missing
  <2> QED BY <2>1, NatLessThanWellFounded, WFMin
<1>2. x \in 2..n /\ x - 1 \in 1..(n - 1) /\ (x - 1) + 1 = x
  OBVIOUS
<1>3. x - 1 \in missing
  BY <1>2
<1>4. <<x - 1, x>> \in OpToRel(<, Nat)
  BY <1>2 DEF OpToRel
<1> QED BY <1>1, <1>3, <1>4

\* Strong induction over an interval, upwards and downwards.
LEMMA StrongInduction ==
    ASSUME NEW a \in Nat, NEW n \in Nat, NEW S,
           \A i \in a..n : (\A j \in a..n : j < i => j \in S) => i \in S
    PROVE  a..n \subseteq S
<1> DEFINE missing == (a..n) \ S
<1> SUFFICES ASSUME missing # {} PROVE FALSE
  OBVIOUS
<1>1. PICK x \in missing : \A y \in missing : <<y, x>> \notin OpToRel(<, Nat)
  <2>1. missing \subseteq Nat
    OBVIOUS
  <2> HIDE DEF missing
  <2> QED BY <2>1, NatLessThanWellFounded, WFMin
<1>2. x \in a..n /\ x \notin S
  OBVIOUS
<1>3. PICK y \in a..n : y < x /\ y \notin S
  BY <1>2
<1>4. <<y, x>> \in OpToRel(<, Nat)
  BY <1>2, <1>3 DEF OpToRel
<1> QED BY <1>1, <1>3, <1>4

LEMMA DownwardInduction ==
    ASSUME NEW a \in Nat, NEW n \in Nat, NEW S,
           \A i \in a..n : (\A j \in a..n : j > i => j \in S) => i \in S
    PROVE  a..n \subseteq S
<1> DEFINE T == {k \in 0..n : n - k \in a..n => n - k \in S}
<1>1. ASSUME NEW k \in 0..n, \A j \in 0..n : j < k => j \in T
      PROVE  k \in T
  <2> SUFFICES ASSUME n - k \in a..n PROVE n - k \in S
    OBVIOUS
  <2>1. ASSUME NEW j \in a..n, j > n - k PROVE j \in S
    <3>1. n - j \in 0..n /\ n - j < k /\ n - (n - j) = j
      BY <2>1
    <3>2. n - j \in T
      BY <1>1, <3>1
    <3> QED BY <3>1, <3>2
  <2> QED BY <2>1
<1>2. 0..n \subseteq T
  <2> HIDE DEF T
  <2> QED BY <1>1, StrongInduction
<1>3. ASSUME NEW i \in a..n PROVE i \in S
  <2>1. n - i \in 0..n /\ n - (n - i) = i
    OBVIOUS
  <2> QED BY <1>2, <2>1
<1> QED BY <1>3

\* A recursion over D with values in V: the value at x depends on values of lower
\* rank. The body of the recursion is a function of the function and of x.
WellRanked(D, V, n, rank, body) ==
    /\ n \in Nat /\ rank \in [D -> 0..n] /\ V # {}
    /\ body \in [[D -> V] \X D -> V]
    /\ \A f, g \in [D -> V], x \in D :
          (\A y \in D : rank[y] < rank[x] => f[y] = g[y])
             => body[<<f, x>>] = body[<<g, x>>]

Solves(f, D, body) == \A x \in D : f[x] = body[<<f, x>>]

\* Such a recursion has a solution.
LEMMA RecursionExists ==
    ASSUME NEW D, NEW V, NEW n, NEW rank, NEW body, WellRanked(D, V, n, rank, body)
    PROVE  \E f \in [D -> V] : Solves(f, D, body)
<1> USE DEF WellRanked, Solves
<1> DEFINE Upto(f, k) == \A x \in D : rank[x] < k => f[x] = body[<<f, x>>]
           S == {k \in Nat : \E f \in [D -> V] : Upto(f, k)}
<1>1. ASSUME NEW k \in 0..(n + 1), \A j \in 0..(n + 1) : j < k => j \in S
      PROVE  k \in S
  <2>1. CASE k = 0
    <3>1. PICK v \in V : TRUE
      OBVIOUS
    <3>2. [x \in D |-> v] \in [D -> V] /\ Upto([x \in D |-> v], 0)
      OBVIOUS
    <3> QED BY <2>1, <3>2
  <2>2. CASE k # 0
    <3>1. k - 1 \in 0..(n + 1) /\ k - 1 < k /\ k - 1 \in Nat /\ k \in Nat
      BY <2>2
    <3>2. PICK f \in [D -> V] : Upto(f, k - 1)
      BY <1>1, <3>1
    <3> DEFINE g == [x \in D |-> body[<<f, x>>]]
    <3>3. g \in [D -> V]
      OBVIOUS
    <3>4. ASSUME NEW x \in D, rank[x] < k PROVE g[x] = body[<<g, x>>]
      <4>1. ASSUME NEW y \in D, rank[y] < rank[x] PROVE f[y] = g[y]
        <5>1. rank[y] < k - 1
          <6>1. rank[x] \in Nat /\ rank[y] \in Nat
            OBVIOUS
          <6> QED BY <3>1, <3>4, <4>1, <6>1
        <5> QED BY <3>2, <5>1
      <4>2. body[<<f, x>>] = body[<<g, x>>]
        <5> HIDE DEF g
        <5> QED BY <3>3, <4>1
      <4> QED BY <4>2
    <3>5. Upto(g, k)
      BY <3>4
    <3> HIDE DEF g, Upto
    <3> QED BY <3>1, <3>3, <3>5
  <2> QED BY <2>1, <2>2
<1>2. n + 1 \in Nat /\ n + 1 \in 0..(n + 1) /\ 0 \in Nat
  OBVIOUS
<1>3. n + 1 \in S
  <2> HIDE DEF S
  <2> QED BY <1>1, <1>2, StrongInduction
<1>4. PICK f \in [D -> V] : Upto(f, n + 1)
  <2> HIDE DEF Upto
  <2> QED BY <1>3
<1>5. \A x \in D : rank[x] < n + 1
  OBVIOUS
<1> QED BY <1>4, <1>5

-----------------------------------------------------------------------------
\* Cardinality.

\* The elements of a set that are in another one are counted one by one.
LEMMA CountOne ==
    ASSUME NEW T, IsFiniteSet(T), NEW x
    PROVE  Cardinality(T) = Cardinality(T \ {x}) + (IF x \in T THEN 1 ELSE 0)
<1>1. IsFiniteSet(T \ {x}) /\ Cardinality(T \ {x}) = IF x \in T THEN Cardinality(T) - 1 ELSE Cardinality(T)
  BY FS_RemoveElement
<1>2. Cardinality(T) \in Nat
  BY FS_CardinalityType
<1> QED BY <1>1, <1>2

-----------------------------------------------------------------------------
\* Max and FoldLeft.

LEMMA MaxIs ==
    ASSUME NEW T \in SUBSET Int, NEW x \in T, \A y \in T : y <= x
    PROVE  Max(T) = x
<1>1. Max(T) \in T /\ \A y \in T : Max(T) >= y
  <2>1. \E z \in T : \A y \in T : z >= y
    OBVIOUS
  <2> QED BY <2>1 DEF Max
<1>2. Max(T) \in Int /\ x \in Int /\ Max(T) >= x /\ Max(T) <= x
  BY <1>1
<1> QED BY <1>2

LEMMA MaxExists ==
    ASSUME NEW n \in Nat, NEW T \in SUBSET (1..n), T # {}
    PROVE  Max(T) \in T /\ \A y \in T : y <= Max(T)
<1> SUFFICES \E x \in T : \A y \in T : y <= x
  BY DEF Max
<1> DEFINE S == {i \in 1..n : i \in T => \E x \in T : \A y \in T : y <= x}
<1>1. ASSUME NEW i \in 1..n, \A j \in 1..n : j > i => j \in S
      PROVE  i \in S
  <2>1. CASE \A y \in T : y <= i
    BY <2>1
  <2>2. CASE \E y \in T : y > i
    BY <1>1, <2>2
  <2> QED BY <2>1, <2>2
<1>2. 1..n \subseteq S
  <2> HIDE DEF S
  <2> QED BY <1>1, DownwardInduction
<1> QED BY <1>2

\* The recursive function that FoldLeft is defined by, on the sets of indices.
Folds(f, n, s, step, base) ==
    \A T \in SUBSET (1..n) :
        f[T] = IF T = {} THEN base ELSE step[<<f[T \ {Max(T)}], s[Max(T)]>>]

LEMMA FoldExists ==
    ASSUME NEW V, NEW E, NEW n \in Nat, NEW s \in [1..n -> E],
           NEW step \in [V \X E -> V], NEW base \in V
    PROVE  \E f \in [SUBSET (1..n) -> V] : Folds(f, n, s, step, base)
<1> DEFINE D == SUBSET (1..n)
           rest(T) == T \ {Max(T)}
           Body(f, T) == IF T = {} THEN base ELSE step[<<f[rest(T)], s[Max(T)]>>]
           rank == [T \in D |-> IF T = {} THEN 0 ELSE Max(T)]
           body == [p \in [D -> V] \X D |-> Body(p[1], p[2])]
<1>1. \A T \in D : T # {} => Max(T) \in T /\ Max(T) \in 1..n /\ \A y \in T : y <= Max(T)
  BY MaxExists
<1>2. \A T \in D : T # {} => rest(T) \in D
  OBVIOUS
<1>3. rank \in [D -> 0..n]
  BY <1>1
<1>4. \A T \in D : T # {} => rank[rest(T)] < rank[T]
  <2> SUFFICES ASSUME NEW T \in D, T # {} PROVE rank[rest(T)] < rank[T]
    OBVIOUS
  <2>1. rank[T] = Max(T) /\ Max(T) \in 1..n
    BY <1>1
  <2>2. CASE rest(T) = {}
    BY <1>2, <2>1, <2>2
  <2>3. CASE rest(T) # {}
    <3>1. Max(rest(T)) \in rest(T) /\ rest(T) \in D
      BY <1>1, <1>2, <2>3
    <3>2. Max(rest(T)) <= Max(T) /\ Max(rest(T)) # Max(T) /\ Max(rest(T)) \in 1..n
      BY <1>1, <3>1
    <3>3. rank[rest(T)] = Max(rest(T))
      BY <2>3, <3>1
    <3> HIDE DEF rank, rest
    <3> QED BY <2>1, <3>2, <3>3
  <2> QED BY <2>2, <2>3
<1>5. \A f \in [D -> V], T \in D : Body(f, T) \in V
  <2> HIDE DEF rest
  <2>1. \A f \in [D -> V], T \in D : T # {} => f[rest(T)] \in V /\ s[Max(T)] \in E
    BY <1>1, <1>2
  <2> QED BY <2>1
<1>6. \A f \in [D -> V], T \in D : body[<<f, T>>] = Body(f, T)
  <2> HIDE DEF Body, D
  <2> QED OBVIOUS
<1>7. body \in [[D -> V] \X D -> V]
  <2> HIDE DEF Body, D
  <2> QED BY <1>5
<1>8. ASSUME NEW f \in [D -> V], NEW g \in [D -> V], NEW T \in D,
             \A U \in D : rank[U] < rank[T] => f[U] = g[U]
      PROVE  Body(f, T) = Body(g, T)
  <2> HIDE DEF rank, rest, D
  <2> QED BY <1>2, <1>4, <1>8
<1>9. WellRanked(D, V, n, rank, body)
  <2> HIDE DEF D, rank, body, Body
  <2>1. \A f, g \in [D -> V], x \in D :
          (\A y \in D : rank[y] < rank[x] => f[y] = g[y]) => body[<<f, x>>] = body[<<g, x>>]
    BY <1>6, <1>8
  <2> QED BY <1>3, <1>7, <2>1 DEF WellRanked
<1>10. PICK f \in [D -> V] : Solves(f, D, body)
  <2> HIDE DEF D, rank, body
  <2> QED BY <1>9, RecursionExists
<1>11. \A T \in D : f[T] = Body(f, T)
  <2> HIDE DEF D, Body, body
  <2> QED BY <1>6, <1>10 DEF Solves
<1> QED BY <1>11 DEF Folds

\* A fold goes from prefix to prefix.
LEMMA LastOfPrefix ==
    ASSUME NEW n \in Nat, NEW i \in 1..n
    PROVE  /\ 1..i \in SUBSET (1..n) /\ 1..i # {}
           /\ Max(1..i) = i
           /\ (1..i) \ {i} = 1..(i - 1)
<1>1. 1..i \in SUBSET (1..n)
  OBVIOUS
<1>2. i \in 1..i
  OBVIOUS
<1>3. 1..i \in SUBSET Int /\ \A y \in 1..i : y <= i
  OBVIOUS
<1>4. Max(1..i) = i
  BY <1>2, <1>3, MaxIs
<1>5. (1..i) \ {i} = 1..(i - 1)
  OBVIOUS
<1> QED BY <1>1, <1>2, <1>4, <1>5

-----------------------------------------------------------------------------
\* FlattenSeq.

\* The recursive function that FlattenSeq is defined by.
Flattens(f, seqs, n) ==
    f = [i \in 1..n |-> IF i = 1 THEN seqs[i] ELSE f[i - 1] \o seqs[i]]

\* There is such a function: one more argument extends it.
LEMMA FlattensExists ==
    ASSUME NEW seqs, NEW n \in Nat \ {0}
    PROVE  \E f : Flattens(f, seqs, n)
<1> DEFINE S == {m \in Nat : \E f : Flattens(f, seqs, m)}
<1>1. 1 \in S
  <2>1. Flattens([i \in 1..1 |-> seqs[i]], seqs, 1)
    BY DEF Flattens
  <2> QED BY <2>1
<1>2. ASSUME NEW m \in 1..(n - 1), m \in S PROVE m + 1 \in S
  <2>1. PICK f : Flattens(f, seqs, m)
    BY <1>2
  <2> DEFINE g == [i \in 1..(m + 1) |-> IF i <= m THEN f[i] ELSE f[m] \o seqs[m + 1]]
  <2>2. g = [i \in 1..(m + 1) |-> IF i = 1 THEN seqs[i] ELSE g[i - 1] \o seqs[i]]
    <3>1. \A i \in 1..(m + 1) : i = m + 1 \/ i \in 1..m
      OBVIOUS
    <3>2. \A i \in 1..m : f[i] = IF i = 1 THEN seqs[i] ELSE f[i - 1] \o seqs[i]
      BY <2>1 DEF Flattens
    <3>3. \A i \in 1..m : i # 1 => g[i - 1] = f[i - 1]
      OBVIOUS
    <3>4. \A i \in 1..(m + 1) : g[i] = IF i = 1 THEN seqs[i] ELSE g[i - 1] \o seqs[i]
      <4>1. g[(m + 1) - 1] = f[m] /\ g[m + 1] = f[m] \o seqs[m + 1] /\ m + 1 # 1
        <5>1. (m + 1) - 1 = m /\ m \in 1..(m + 1) /\ m + 1 \in 1..(m + 1) /\ ~(m + 1 <= m) /\ m <= m
          OBVIOUS
        <5>2. g[m] = f[m]
          BY <5>1
        <5>3. g[m + 1] = f[m] \o seqs[m + 1]
          BY <5>1
        <5>4. m + 1 # 1
          OBVIOUS
        <5> HIDE DEF g
        <5> QED BY <5>1, <5>2, <5>3, <5>4
      <4>2. \A i \in 1..m : g[i] = f[i]
        OBVIOUS
      <4> HIDE DEF g
      <4> QED BY <3>1, <3>2, <3>3, <4>1, <4>2
    <3>5. \E h \in {g} : h = [i \in 1..(m + 1) |-> h[i]]
      OBVIOUS
    <3> HIDE DEF g
    <3> QED BY <3>4, <3>5
  <2>3. Flattens(g, seqs, m + 1)
    <3> HIDE DEF g
    <3> QED BY <2>2 DEF Flattens
  <2> QED BY <2>3
<1>3. 1..n \subseteq S
  <2> HIDE DEF S
  <2> QED BY <1>1, <1>2, IntervalInduction
<1> QED BY <1>3

\* Sequences of at most two elements make a sequence of at most twice their number.
LEMMA FlattenSeqOf ==
    ASSUME NEW T, NEW seqs \in Seq(Seq(T)), \A i \in 1..Len(seqs) : Len(seqs[i]) <= 2
    PROVE  /\ FlattenSeq(seqs) \in Seq(T)
           /\ Len(FlattenSeq(seqs)) <= 2 * Len(seqs)
<1>1. CASE Len(seqs) = 0
  <2>1. seqs = <<>>
    BY <1>1, EmptySeq
  <2> QED BY <1>1, <2>1 DEF FlattenSeq
<1>2. CASE Len(seqs) # 0
  <2> DEFINE n == Len(seqs)
             f == CHOOSE f : Flattens(f, seqs, n)
             S == {m \in Nat : f[m] \in Seq(T) /\ Len(f[m]) <= 2 * m}
  <2>1. n \in Nat \ {0}
    BY <1>2, LenProperties
  <2>2. FlattenSeq(seqs) = f[n]
    BY <1>2 DEF FlattenSeq, Flattens
  <2>3. Flattens(f, seqs, n)
    <3> HIDE DEF n
    <3> QED BY <2>1, FlattensExists
  <2>4. \A i \in 1..n : f[i] = IF i = 1 THEN seqs[i] ELSE f[i - 1] \o seqs[i]
    <3> HIDE DEF f
    <3> QED BY <2>3 DEF Flattens
  <2>5. \A i \in 1..n : seqs[i] \in Seq(T) /\ Len(seqs[i]) \in Nat /\ Len(seqs[i]) <= 2
    <3>1. ASSUME NEW i \in 1..n PROVE seqs[i] \in Seq(T) /\ Len(seqs[i]) \in Nat /\ Len(seqs[i]) <= 2
      <4>1. seqs[i] \in Seq(T)
        BY ElementOfSeq
      <4>2. Len(seqs[i]) \in Nat /\ Len(seqs[i]) <= 2
        BY <4>1, LenProperties
      <4> QED BY <4>1, <4>2
    <3> QED BY <3>1
  <2> HIDE DEF f, n
  <2>6. 1 \in S
    <3>1. 1 \in 1..n
      BY <2>1
    <3>2. f[1] = seqs[1]
      BY <2>4, <3>1
    <3>3. f[1] \in Seq(T) /\ Len(f[1]) <= 2 * 1
      BY <2>5, <3>1, <3>2
    <3> QED BY <3>3
  <2>7. ASSUME NEW m \in 1..(n - 1), m \in S PROVE m + 1 \in S
    <3>1. m \in Nat /\ m + 1 \in 1..n /\ m + 1 # 1 /\ (m + 1) - 1 = m /\ n \in Nat
      BY <2>1
    <3>2. f[m + 1] = f[m] \o seqs[m + 1]
      BY <2>4, <3>1
    <3>3. f[m] \in Seq(T) /\ Len(f[m]) <= 2 * m /\ Len(f[m]) \in Nat
      BY <2>7, LenProperties
    <3>4. f[m + 1] \in Seq(T) /\ Len(f[m + 1]) = Len(f[m]) + Len(seqs[m + 1])
      BY <2>5, <3>1, <3>2, <3>3, ConcatProperties
    <3>5. Len(seqs[m + 1]) \in Nat /\ Len(seqs[m + 1]) <= 2
      BY <2>5, <3>1
    <3>6. Len(f[m + 1]) <= 2 * (m + 1)
      <4>1. \A a, b, k \in Nat : a <= 2 * k /\ b <= 2 => a + b <= 2 * (k + 1)
        OBVIOUS
      <4>2. Len(f[m]) + Len(seqs[m + 1]) <= 2 * (m + 1)
        BY <3>1, <3>3, <3>5, <4>1
      <4> QED BY <3>4, <4>2
    <3>7. m + 1 \in Nat
      BY <3>1
    <3> QED BY <3>4, <3>6, <3>7
  <2>8. 1..n \subseteq S
    <3> HIDE DEF S
    <3> QED BY <2>1, <2>6, <2>7, IntervalInduction
  <2> QED BY <2>1, <2>2, <2>8 DEF n
<1> QED BY <1>1, <1>2

\* The parts of a flattened sequence: part i is behind position at[i - 1].
PartsAt(at, flat, seqs) ==
    /\ at \in [0..Len(seqs) -> Nat]
    /\ at[0] = 0
    /\ Len(flat) = at[Len(seqs)]
    /\ \A i \in 1..Len(seqs) :
          /\ at[i] = at[i - 1] + Len(seqs[i])
          /\ at[i] <= at[Len(seqs)]
          /\ \A j \in 1..Len(seqs[i]) : flat[at[i - 1] + j] = seqs[i][j]

LEMMA FlattenParts ==
    ASSUME NEW T, NEW seqs \in Seq(Seq(T)), Len(seqs) # 0
    PROVE  /\ FlattenSeq(seqs) \in Seq(T)
           /\ \E at : PartsAt(at, FlattenSeq(seqs), seqs)
<1> DEFINE n == Len(seqs)
           f == CHOOSE f : Flattens(f, seqs, n)
           at == [i \in 0..n |-> IF i = 0 THEN 0 ELSE Len(f[i])]
           Part(m, i) == /\ at[i] = at[i - 1] + Len(seqs[i])
                         /\ at[i] <= at[m]
                         /\ \A j \in 1..Len(seqs[i]) : f[m][at[i - 1] + j] = seqs[i][j]
           S == {m \in Nat : f[m] \in Seq(T) /\ \A i \in 1..m : Part(m, i)}
<1>1. n \in Nat \ {0}
  BY LenProperties
<1>2. FlattenSeq(seqs) = f[n]
  BY DEF FlattenSeq, Flattens
<1>3. Flattens(f, seqs, n)
  <2> HIDE DEF n
  <2> QED BY <1>1, FlattensExists
<1>4. \A i \in 1..n : f[i] = IF i = 1 THEN seqs[i] ELSE f[i - 1] \o seqs[i]
  <2> HIDE DEF f
  <2> QED BY <1>3 DEF Flattens
<1>5. \A i \in 1..n : seqs[i] \in Seq(T) /\ Len(seqs[i]) \in Nat
  <2>1. ASSUME NEW i \in 1..n PROVE seqs[i] \in Seq(T) /\ Len(seqs[i]) \in Nat
    <3>1. seqs[i] \in Seq(T)
      BY ElementOfSeq
    <3> QED BY <3>1, LenProperties
  <2> QED BY <2>1
<1> HIDE DEF f, n
<1>6. at[0] = 0 /\ \A i \in 1..n : at[i] = Len(f[i])
  <2>1. 0 \in 0..n /\ \A i \in 1..n : i \in 0..n /\ i # 0
    BY <1>1
  <2> QED BY <2>1
<1> HIDE DEF at
<1>7. 1 \in S
  <2>1. 1 \in 1..n /\ f[1] = seqs[1] /\ f[1] \in Seq(T) /\ Len(seqs[1]) \in Nat
    BY <1>1, <1>4, <1>5
  <2>2. at[1] = Len(seqs[1]) /\ at[1 - 1] = 0 /\ at[1] <= at[1] /\ at[1] = at[1 - 1] + Len(seqs[1])
    BY <1>6, <2>1
  <2>3. Part(1, 1)
    <3>1. \A j \in 1..Len(seqs[1]) : at[1 - 1] + j = j
      BY <2>1, <2>2
    <3> QED BY <2>1, <2>2, <3>1
  <2>4. \A i \in 1..1 : i = 1
    OBVIOUS
  <2> HIDE DEF Part
  <2> QED BY <2>1, <2>3, <2>4
<1>8. ASSUME NEW m \in 1..(n - 1), m \in S PROVE m + 1 \in S
  <2>1. m \in 1..n /\ m \in Nat /\ m + 1 \in 1..n /\ m + 1 # 1 /\ (m + 1) - 1 = m /\ m + 1 \in Nat
    BY <1>1
  <2>2. f[m + 1] = f[m] \o seqs[m + 1]
    BY <1>4, <2>1
  <2>3. f[m] \in Seq(T) /\ Len(f[m]) \in Nat /\ seqs[m + 1] \in Seq(T) /\ Len(seqs[m + 1]) \in Nat
    BY <1>5, <1>8, <2>1, LenProperties
  <2>4. /\ f[m + 1] \in Seq(T) /\ Len(f[m + 1]) = Len(f[m]) + Len(seqs[m + 1])
        /\ \A k \in 1..(Len(f[m]) + Len(seqs[m + 1])) :
              f[m + 1][k] = IF k <= Len(f[m]) THEN f[m][k] ELSE seqs[m + 1][k - Len(f[m])]
    <3> DEFINE a == f[m]
               c == seqs[m + 1]
    <3>1. a \in Seq(T) /\ c \in Seq(T) /\ f[m + 1] = a \o c
      BY <2>2, <2>3
    <3> HIDE DEF a, c
    <3>2. /\ f[m + 1] \in Seq(T) /\ Len(f[m + 1]) = Len(a) + Len(c)
          /\ \A k \in 1..(Len(a) + Len(c)) :
                f[m + 1][k] = IF k <= Len(a) THEN a[k] ELSE c[k - Len(a)]
      BY <3>1, ConcatProperties
    <3> QED BY <3>2 DEF a, c
  <2>5. at[m] = Len(f[m]) /\ at[m + 1] = Len(f[m]) + Len(seqs[m + 1])
    BY <1>6, <2>1, <2>4
  <2>6. Part(m + 1, m + 1)
    <3>1. \A j \in 1..Len(seqs[m + 1]) : f[m + 1][at[m] + j] = seqs[m + 1][j]
      <4>1. ASSUME NEW j \in 1..Len(seqs[m + 1]) PROVE f[m + 1][Len(f[m]) + j] = seqs[m + 1][j]
        <5>1. \A a, c \in Nat : \A i \in 1..c : a + i \in 1..(a + c) /\ ~(a + i <= a) /\ (a + i) - a = i
          OBVIOUS
        <5>2. /\ Len(f[m]) + j \in 1..(Len(f[m]) + Len(seqs[m + 1]))
              /\ ~(Len(f[m]) + j <= Len(f[m])) /\ (Len(f[m]) + j) - Len(f[m]) = j
          BY <2>3, <5>1
        <5> QED BY <2>4, <5>2
      <4> QED BY <2>5, <4>1
    <3>2. /\ at[m + 1] = at[m] + Len(seqs[m + 1])
          /\ at[m + 1] <= at[m + 1]
      BY <2>3, <2>5
    <3>3. at[(m + 1) - 1] = at[m]
      BY <2>1
    <3> QED BY <3>1, <3>2, <3>3
  <2>7. ASSUME NEW i \in 1..m PROVE Part(m + 1, i)
    <3>1. /\ at[i] = at[i - 1] + Len(seqs[i])
          /\ at[i] <= at[m]
          /\ \A j \in 1..Len(seqs[i]) : f[m][at[i - 1] + j] = seqs[i][j]
      BY <1>8
    <3>2. i \in 1..n /\ i - 1 \in 0..n /\ (i - 1 = 0 \/ i - 1 \in 1..m)
      BY <1>1, <2>1
    <3>3. \A k \in 1..m : f[k] \in Seq(T) => Len(f[k]) \in Nat
      BY LenProperties
    <3>4. at[i] \in Nat /\ at[i - 1] \in Nat /\ Len(seqs[i]) \in Nat
      <4>1. \A k \in 1..m : at[k] = at[k - 1] + Len(seqs[k]) /\ at[k] <= at[m] /\ Len(seqs[k]) \in Nat
        BY <1>5, <1>8, <2>1
      <4>2. at[0] \in Nat
        BY <1>6
      <4> DEFINE N == {k \in 0..m : at[k] \in Nat}
      <4>3. ASSUME NEW k \in 0..m, \A l \in 0..m : l < k => l \in N PROVE k \in N
        <5>1. CASE k = 0
          BY <4>2, <5>1
        <5>2. CASE k # 0
          <6>1. k \in 1..m /\ k - 1 \in 0..m /\ k - 1 < k
            BY <2>1, <5>2
          <6>2. at[k - 1] \in Nat /\ Len(seqs[k]) \in Nat /\ at[k] = at[k - 1] + Len(seqs[k])
            BY <4>1, <4>3, <6>1
          <6> QED BY <6>2
        <5> QED BY <5>1, <5>2
      <4>4. 0 \in Nat
        OBVIOUS
      <4>5. 0..m \subseteq N
        <5> HIDE DEF N
        <5> QED BY <2>1, <4>3, <4>4, StrongInduction
      <4>6. i \in 0..m /\ i - 1 \in 0..m
        BY <2>1
      <4> QED BY <4>1, <4>5, <4>6
    <3>5. at[m] <= at[m + 1] /\ at[i] <= at[m + 1]
      <4>1. \A a, c, d \in Nat : d <= a => a <= a + c /\ d <= a + c
        OBVIOUS
      <4>2. at[m] \in Nat /\ at[m + 1] = at[m] + Len(seqs[m + 1])
        BY <2>3, <2>5
      <4> QED BY <2>3, <3>1, <3>4, <4>1, <4>2
    <3>6. ASSUME NEW j \in 1..Len(seqs[i]) PROVE f[m + 1][at[i - 1] + j] = seqs[i][j]
      <4>1. at[i - 1] + j \in 1..(Len(f[m]) + Len(seqs[m + 1])) /\ at[i - 1] + j <= Len(f[m])
        <5>1. \A a, c, d, e \in Nat : \A k \in 1..c : d + c <= a => d + k \in 1..(a + e) /\ d + k <= a
          OBVIOUS
        <5>2. at[i - 1] + Len(seqs[i]) <= Len(f[m])
          BY <2>5, <3>1
        <5> QED BY <2>3, <3>4, <5>1, <5>2
      <4> QED BY <2>4, <3>1, <4>1
    <3> QED BY <3>1, <3>5, <3>6
  <2>8. \A i \in 1..(m + 1) : i = m + 1 \/ i \in 1..m
    BY <2>1
  <2> HIDE DEF Part
  <2> QED BY <2>1, <2>4, <2>6, <2>7, <2>8
<1>9. n \in S
  <2>1. 1..n \subseteq S
    <3> HIDE DEF S
    <3>1. n \in Nat
      BY <1>1
    <3> QED BY <1>7, <1>8, <3>1, IntervalInduction
  <2> QED BY <1>1, <2>1
<1>10. \A m \in 1..n : at[m] \in Nat
  <2>1. 1..n \subseteq S
    <3> HIDE DEF S
    <3>1. n \in Nat
      BY <1>1
    <3> QED BY <1>7, <1>8, <3>1, IntervalInduction
  <2>2. \A m \in 1..n : f[m] \in Seq(T)
    BY <2>1
  <2>3. \A m \in 1..n : Len(f[m]) \in Nat
    BY <2>2, LenProperties
  <2> QED BY <1>6, <2>3
<1>11. at \in [0..n -> Nat]
  <2>1. \A m \in 0..n : m = 0 \/ m \in 1..n
    BY <1>1
  <2>2. \A m \in 0..n : at[m] \in Nat
    BY <1>6, <1>10, <2>1
  <2>3. at = [m \in 0..n |-> at[m]]
    BY DEF at
  <2> QED BY <2>2, <2>3
<1>12. n \in 1..n
  BY <1>1
<1>13. PartsAt(at, FlattenSeq(seqs), seqs)
  BY <1>2, <1>6, <1>9, <1>11, <1>12 DEF n, PartsAt
<1>14. FlattenSeq(seqs) \in Seq(T)
  BY <1>2, <1>9
<1> QED BY <1>13, <1>14

-----------------------------------------------------------------------------
\* SetToSeq.

\* Every element of a finite set has one place in its sequence.
LEMMA SetToSeqOf ==
    ASSUME NEW S, IsFiniteSet(S)
    PROVE  /\ SetToSeq(S) \in Seq(S)
           /\ Len(SetToSeq(S)) = Cardinality(S)
           /\ \A i, j \in 1..Cardinality(S) : SetToSeq(S)[i] = SetToSeq(S)[j] => i = j
<1>1. Cardinality(S) \in Nat
  BY FS_CardinalityType
<1>2. PICK f : f \in Bijection(1..Cardinality(S), S)
  BY FS_CountingElements, FS_CardinalityType, FS_NatBijection DEF ExistsBijection
<1>3. SetToSeq(S) \in [1..Cardinality(S) -> S] /\ IsInjective(SetToSeq(S))
  BY <1>2 DEF SetToSeq, Bijection, Injection, IsInjective
<1> QED BY <1>1, <1>3 DEF IsInjective
=============================================================================
