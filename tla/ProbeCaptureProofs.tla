-------------------------- MODULE ProbeCaptureProofs --------------------------
(***************************************************************************)
(* Proofs about ProbeCapture, for any readers, paths, tokens, repetitions  *)
(* and lines: one writer at a time, serial numbers before anything primes  *)
(* the token, a clean worker.end for complete measurements only, captures  *)
(* of lines that asked for them, and a file in which a worker that dies    *)
(* spoils no line but that of its own end.                                 *)
(***************************************************************************)
EXTENDS ProbeCapture, BasicFacts, TLAPS

-----------------------------------------------------------------------------
\* Facts about the programs of the workers.

LEMMA ProgramIs ==
    /\ Program("pcsc") = PcscSteps
    /\ Program("feature") = FeatureSteps
    /\ Program("ctaphid") = CtaphidSteps
BY DEF Program

\* Every operation of a program has one place in it.
LEMMA ProgramDistinct ==
    ASSUME NEW kind \in Kinds
    PROVE  /\ Len(Program(kind)) \in Nat \ {0}
           /\ DOMAIN Program(kind) = 1..Len(Program(kind))
           /\ Range(Program(kind)) \subseteq Operations
           /\ \A i \in 1..Len(Program(kind)) : Program(kind)[i] \in Range(Program(kind))
           /\ \A i, j \in 1..Len(Program(kind)) :
                 Program(kind)[i] = Program(kind)[j] => i = j
           /\ Program(kind) \in Seq(Operations)
<1>1. /\ Len(PcscSteps) = 15 /\ DOMAIN PcscSteps = 1..15
      /\ \A i, j \in 1..15 : PcscSteps[i] = PcscSteps[j] => i = j
  BY DEF PcscSteps
<1>2. /\ Len(FeatureSteps) = 3 /\ DOMAIN FeatureSteps = 1..3
      /\ \A i, j \in 1..3 : FeatureSteps[i] = FeatureSteps[j] => i = j
  BY DEF FeatureSteps
<1>3. /\ Len(CtaphidSteps) = 5 /\ DOMAIN CtaphidSteps = 1..5
      /\ \A i, j \in 1..5 : CtaphidSteps[i] = CtaphidSteps[j] => i = j
  BY DEF CtaphidSteps
<1>4. /\ Len(Program(kind)) \in Nat \ {0}
      /\ DOMAIN Program(kind) = 1..Len(Program(kind))
      /\ \A i, j \in 1..Len(Program(kind)) :
            Program(kind)[i] = Program(kind)[j] => i = j
  <2>1. CASE kind = "pcsc"
    <3>1. Program(kind) = PcscSteps
      BY <2>1, ProgramIs
    <3>2. 15 \in Nat \ {0}
      OBVIOUS
    <3>3. Len(Program(kind)) = 15 /\ DOMAIN Program(kind) = 1..15
      BY <1>1, <3>1
    <3>4. \A i, j \in 1..15 : Program(kind)[i] = Program(kind)[j] => i = j
      BY <1>1, <3>1
    <3> QED BY <3>2, <3>3, <3>4, Zenon
  <2>2. CASE kind = "feature"
    <3>1. Program(kind) = FeatureSteps
      BY <2>2, ProgramIs
    <3>2. 3 \in Nat \ {0}
      OBVIOUS
    <3>3. Len(Program(kind)) = 3 /\ DOMAIN Program(kind) = 1..3
      BY <1>2, <3>1
    <3>4. \A i, j \in 1..3 : Program(kind)[i] = Program(kind)[j] => i = j
      BY <1>2, <3>1
    <3> QED BY <3>2, <3>3, <3>4, Zenon
  <2>3. CASE kind = "ctaphid"
    <3>1. Program(kind) = CtaphidSteps
      BY <2>3, ProgramIs
    <3>2. 5 \in Nat \ {0}
      OBVIOUS
    <3>3. Len(Program(kind)) = 5 /\ DOMAIN Program(kind) = 1..5
      BY <1>3, <3>1
    <3>4. \A i, j \in 1..5 : Program(kind)[i] = Program(kind)[j] => i = j
      BY <1>3, <3>1
    <3> QED BY <3>2, <3>3, <3>4, Zenon
  <2> QED BY <2>1, <2>2, <2>3 DEF Kinds
<1>5. Range(Program(kind)) \subseteq Operations
  BY DEF Operations
<1>6. \A i \in 1..Len(Program(kind)) : Program(kind)[i] \in Range(Program(kind))
  BY <1>4 DEF Range
<1>7. Program(kind) = [i \in DOMAIN Program(kind) |-> Program(kind)[i]]
  BY ProgramIs DEF Kinds, PcscSteps, FeatureSteps, CtaphidSteps
<1>8. Program(kind) \in [1..Len(Program(kind)) -> Operations]
  BY <1>4, <1>5, <1>6, <1>7
<1>9. Program(kind) \in Seq(Operations)
  BY <1>4, <1>8
<1> QED BY <1>4, <1>5, <1>6, <1>9

\* "start", "exit" and "gone" are places of a worker, but no operations.
LEMMA NoOperations == {"start", "exit", "gone"} \cap Operations = {}
<1>1. \A i \in DOMAIN PcscSteps : PcscSteps[i] \notin {"start", "exit", "gone"}
  BY DEF PcscSteps
<1>2. \A i \in DOMAIN FeatureSteps : FeatureSteps[i] \notin {"start", "exit", "gone"}
  BY DEF FeatureSteps
<1>3. \A i \in DOMAIN CtaphidSteps : CtaphidSteps[i] \notin {"start", "exit", "gone"}
  BY DEF CtaphidSteps
<1> QED BY <1>1, <1>2, <1>3, ProgramIs DEF Operations, Kinds, Range

\* Successor is the next operation of the program, and exit after the last.
LEMMA SuccessorIs ==
    ASSUME NEW kind \in Kinds, NEW j \in 1..Len(Program(kind))
    PROVE  Successor(kind, Program(kind)[j]) =
              IF j = Len(Program(kind)) THEN "exit" ELSE Program(kind)[j + 1]
<1> DEFINE p == Program(kind)
           steps == Append(p, "exit")
<1>1. /\ p \in Seq(Operations \cup {"exit"})
      /\ Len(p) \in Nat \ {0}
      /\ \A i \in 1..Len(p) : p[i] = p[j] => i = j
      /\ j \in 1..Len(p)
  BY ProgramDistinct
<1>2. /\ \A i \in 1..Len(p) : steps[i] = p[i]
      /\ steps[Len(p) + 1] = "exit"
  <2> HIDE DEF p
  <2> QED BY <1>1, AppendProperties
<1>3. (CHOOSE i \in 1..Len(p) : steps[i] = p[j]) = j
  <2> HIDE DEF p, steps
  <2> QED BY <1>1, <1>2
<1>4. Successor(kind, p[j]) = steps[1 + j]
  BY <1>3 DEF Successor
<1>5. j = Len(p) \/ 1 + j \in 1..Len(p)
  <2> HIDE DEF p
  <2> QED BY <1>1
<1>6. 1 + j = j + 1 /\ Len(p) + 1 = 1 + Len(p)
  <2> HIDE DEF p
  <2> QED BY <1>1
<1> HIDE DEF steps, p
<1>7. Successor(kind, p[j]) = IF j = Len(p) THEN "exit" ELSE p[j + 1]
  BY <1>2, <1>4, <1>5, <1>6
<1> QED BY <1>7 DEF p

\* Before is what its name says.
LEMMA BeforeIs ==
    ASSUME NEW kind \in Kinds
    PROVE  /\ \A j \in 1..Len(Program(kind)) :
                 Before(kind, Program(kind)[j]) = {Program(kind)[i] : i \in 1..(j - 1)}
           /\ \A place : place \notin Range(Program(kind)) =>
                            Before(kind, place) = Range(Program(kind))
<1> DEFINE p == Program(kind)
           n == Len(p)
           ahead(place) == {i \in DOMAIN p : \A j \in DOMAIN p : p[j] = place => i < j}
<1>1. /\ n \in Nat /\ DOMAIN p = 1..n
      /\ \A i \in 1..n : p[i] \in Range(p)
      /\ \A i, j \in 1..n : p[i] = p[j] => i = j
  BY ProgramDistinct
<1>2. \A place : Before(kind, place) = {p[i] : i \in ahead(place)}
  BY DEF Before
<1>3. Range(p) = {p[i] : i \in 1..n}
  BY <1>1 DEF Range
<1> HIDE DEF p, n
<1>4. ASSUME NEW j \in 1..n PROVE ahead(p[j]) = 1..(j - 1)
  BY <1>1
<1>5. ASSUME NEW place, place \notin Range(p) PROVE ahead(place) = 1..n
  BY <1>1, <1>5
<1> HIDE DEF ahead
<1> QED BY <1>2, <1>3, <1>4, <1>5 DEF p, n

-----------------------------------------------------------------------------
\* Where the operations of the three programs lead.

LEMMA PcscOperations ==
    /\ Len(PcscSteps) = 15
    /\ Range(PcscSteps) = {"open", "begin", "status", "otp.select"} \cup OtpSteps
            \cup {"fido.select"} \cup FidoSteps \cup {"warm", "end", "close"}
<1> DEFINE All == {"open", "begin", "status", "otp.select"} \cup OtpSteps
                      \cup {"fido.select"} \cup FidoSteps \cup {"warm", "end", "close"}
<1>1. Len(PcscSteps) = 15 /\ DOMAIN PcscSteps = 1..15
  BY DEF PcscSteps
<1>2. \A i \in 1..15 : PcscSteps[i] \in All
  BY DEF PcscSteps, OtpSteps, FidoSteps
<1>3. \A o \in All : \E i \in 1..15 : PcscSteps[i] = o
  BY DEF PcscSteps, OtpSteps, FidoSteps
<1> HIDE DEF All
<1>4. Range(PcscSteps) = {PcscSteps[i] : i \in 1..15}
  BY <1>1 DEF Range
<1>5. Range(PcscSteps) = All
  BY <1>2, <1>3, <1>4
<1> QED BY <1>1, <1>5 DEF All

LEMMA FeatureOperations ==
    Len(FeatureSteps) = 3 /\ Range(FeatureSteps) = {"open", "serial", "close"}
<1>1. Len(FeatureSteps) = 3 /\ DOMAIN FeatureSteps = 1..3
  BY DEF FeatureSteps
<1>2. Range(FeatureSteps) = {FeatureSteps[1], FeatureSteps[2], FeatureSteps[3]}
  BY <1>1 DEF Range
<1> QED BY <1>1, <1>2 DEF FeatureSteps

LEMMA CtaphidOperations ==
    /\ Len(CtaphidSteps) = 5
    /\ Range(CtaphidSteps) = {"open", "init", "atr", "get-info", "close"}
<1>1. Len(CtaphidSteps) = 5 /\ DOMAIN CtaphidSteps = 1..5
  BY DEF CtaphidSteps
<1>2. Range(CtaphidSteps) = {CtaphidSteps[1], CtaphidSteps[2], CtaphidSteps[3],
                             CtaphidSteps[4], CtaphidSteps[5]}
  BY <1>1 DEF Range
<1> QED BY <1>1, <1>2 DEF CtaphidSteps

\* Which programs have an operation.
LEMMA OperationsOf ==
    ASSUME NEW kind \in Kinds, NEW operation \in Range(Program(kind))
    PROVE  /\ operation \in {"begin", "otp.select", "fido.select"} \cup OtpSteps \cup FidoSteps
                  => kind = "pcsc"
           /\ operation = "init" => kind = "ctaphid"
BY ProgramIs, PcscOperations, FeatureOperations, CtaphidOperations
   DEF Kinds, OtpSteps, FidoSteps

\* A worker starts with nothing behind it.
LEMMA FirstOperation ==
    ASSUME NEW kind \in Kinds
    PROVE  /\ Head(Program(kind)) \in Range(Program(kind))
           /\ Before(kind, Head(Program(kind))) = {}
           /\ Needs(Head(Program(kind))) = {}
<1>1. Head(Program(kind)) = Program(kind)[1] /\ 1 \in 1..Len(Program(kind))
  BY ProgramDistinct
<1>2. Before(kind, Program(kind)[1]) = {Program(kind)[i] : i \in 1..(1 - 1)}
  BY <1>1, BeforeIs
<1>3. 1..(1 - 1) = {}
  OBVIOUS
<1>4. Before(kind, Program(kind)[1]) = {}
  BY <1>2, <1>3
<1>5. Program(kind)[1] = "open"
  BY ProgramIs DEF Kinds, PcscSteps, FeatureSteps, CtaphidSteps
<1>6. Needs("open") = {}
  BY DEF Needs, OtpSteps, FidoSteps
<1> QED BY <1>1, <1>4, <1>5, <1>6, ProgramDistinct

\* The next operation has this one, and what was behind it, behind it.
LEMMA SuccessorBefore ==
    ASSUME NEW kind \in Kinds, NEW operation \in Range(Program(kind))
    PROVE  /\ Successor(kind, operation) \in Range(Program(kind)) \cup {"exit"}
           /\ Before(kind, Successor(kind, operation)) = Before(kind, operation) \cup {operation}
<1> DEFINE p == Program(kind)
           n == Len(p)
<1>1. /\ n \in Nat \ {0} /\ DOMAIN p = 1..n
      /\ \A i \in 1..n : p[i] \in Range(p)
  BY ProgramDistinct
<1>2. PICK j \in 1..n : p[j] = operation
  BY <1>1 DEF Range
<1>3. Successor(kind, operation) = IF j = n THEN "exit" ELSE p[j + 1]
  BY <1>2, SuccessorIs
<1>4. Before(kind, operation) = {p[i] : i \in 1..(j - 1)}
  BY <1>2, BeforeIs
<1>5. CASE j = n
  <2>1. "exit" \notin Range(p)
    BY NoOperations, ProgramDistinct
  <2>2. Before(kind, "exit") = Range(p)
    BY <2>1, BeforeIs
  <2>3. Range(p) = {p[i] : i \in 1..(j - 1)} \cup {p[j]}
    <3> HIDE DEF p, n
    <3>1. \A i \in 1..n : i \in 1..(j - 1) \/ i = j
      BY <1>1, <1>5
    <3>2. \A i \in 1..(j - 1) : i \in 1..n
      BY <1>1
    <3> QED BY <1>1, <3>1, <3>2 DEF Range
  <2> QED BY <1>2, <1>3, <1>4, <1>5, <2>2, <2>3
<1>6. CASE j # n
  <2>1. j + 1 \in 1..n
    <3> HIDE DEF n
    <3> QED BY <1>1, <1>6
  <2>2. Before(kind, p[j + 1]) = {p[i] : i \in 1..((j + 1) - 1)}
    BY <2>1, BeforeIs
  <2>3. {p[i] : i \in 1..((j + 1) - 1)} = {p[i] : i \in 1..(j - 1)} \cup {p[j]}
    <3> HIDE DEF p, n
    <3>1. \A i \in 1..((j + 1) - 1) : i \in 1..(j - 1) \/ i = j
      BY <1>1
    <3>2. \A i \in 1..(j - 1) : i \in 1..((j + 1) - 1)
      BY <1>1
    <3>3. j \in 1..((j + 1) - 1)
      BY <1>1
    <3> QED BY <3>1, <3>2, <3>3
  <2>4. p[j + 1] \in Range(p)
    BY <1>1, <2>1
  <2> QED BY <1>2, <1>3, <1>4, <1>6, <2>2, <2>3, <2>4
<1> QED BY <1>5, <1>6

\* Only an applet's SELECT makes its commands possible, and what comes before the
\* first GetInfo stays before it.
LEMMA SuccessorNeeds ==
    ASSUME NEW kind \in Kinds, NEW operation \in Range(Program(kind))
    PROVE  /\ Needs(Successor(kind, operation)) \subseteq Needs(operation) \cup {operation}
           /\ Successor(kind, operation) \in BeforeGetInfo => operation \in BeforeGetInfo
<1> DEFINE Follows(o, next) ==
        /\ Needs(next) \subseteq Needs(o) \cup {o}
        /\ next \in BeforeGetInfo => o \in BeforeGetInfo
<1>1. PICK j \in 1..Len(Program(kind)) : Program(kind)[j] = operation
  BY ProgramDistinct DEF Range
<1>2. Successor(kind, operation) =
         IF j = Len(Program(kind)) THEN "exit" ELSE Program(kind)[j + 1]
  BY <1>1, SuccessorIs
<1>3. \A o : Follows(o, "exit")
  BY DEF Needs, OtpSteps, FidoSteps, BeforeGetInfo
<1>4. CASE kind = "pcsc"
  <2>1. \A i \in 1..14 : Follows(PcscSteps[i], PcscSteps[i + 1])
    <3>1. /\ Follows("open", "begin") /\ Follows("begin", "status")
          /\ Follows("status", "otp.select")
      BY DEF Needs, OtpSteps, FidoSteps, BeforeGetInfo
    <3>2. /\ Follows("otp.select", "otp.serial.initial")
          /\ Follows("otp.serial.initial", "otp.configuration.initial")
          /\ Follows("otp.configuration.initial", "otp.legacy-get-info")
          /\ Follows("otp.legacy-get-info", "otp.serial.after-prelude")
          /\ Follows("otp.serial.after-prelude", "otp.configuration.after-prelude")
      BY DEF Needs, OtpSteps, FidoSteps, BeforeGetInfo
    <3>3. /\ Follows("otp.configuration.after-prelude", "fido.select")
          /\ Follows("fido.select", "fido.serial") /\ Follows("fido.serial", "fido.get-info")
          /\ Follows("fido.get-info", "warm") /\ Follows("warm", "end")
          /\ Follows("end", "close")
      BY DEF Needs, OtpSteps, FidoSteps, BeforeGetInfo
    <3> HIDE DEF Follows
    <3> QED BY <3>1, <3>2, <3>3 DEF PcscSteps
  <2>2. j = 15 \/ j \in 1..14
    <3>1. Len(Program(kind)) = 15
      BY <1>4, ProgramIs, PcscOperations
    <3>2. j \in 1..15
      BY <3>1
    <3> QED BY <3>2
  <2> HIDE DEF Follows
  <2>3. Follows(operation, Successor(kind, operation))
    BY <1>1, <1>2, <1>3, <1>4, <2>1, <2>2, ProgramIs, PcscOperations
  <2> QED BY <2>3 DEF Follows
<1>5. CASE kind = "feature"
  <2>1. \A i \in 1..2 : Follows(FeatureSteps[i], FeatureSteps[i + 1])
    <3>1. Follows("open", "serial") /\ Follows("serial", "close")
      BY DEF Needs, OtpSteps, FidoSteps, BeforeGetInfo
    <3> HIDE DEF Follows
    <3> QED BY <3>1 DEF FeatureSteps
  <2>2. j = 3 \/ j \in 1..2
    <3>1. Len(Program(kind)) = 3
      BY <1>5, ProgramIs, FeatureOperations
    <3>2. j \in 1..3
      BY <3>1
    <3> QED BY <3>2
  <2> HIDE DEF Follows
  <2>3. Follows(operation, Successor(kind, operation))
    BY <1>1, <1>2, <1>3, <1>5, <2>1, <2>2, ProgramIs, FeatureOperations
  <2> QED BY <2>3 DEF Follows
<1>6. CASE kind = "ctaphid"
  <2>1. \A i \in 1..4 : Follows(CtaphidSteps[i], CtaphidSteps[i + 1])
    <3>1. /\ Follows("open", "init") /\ Follows("init", "atr")
          /\ Follows("atr", "get-info") /\ Follows("get-info", "close")
      BY DEF Needs, OtpSteps, FidoSteps, BeforeGetInfo
    <3> HIDE DEF Follows
    <3> QED BY <3>1 DEF CtaphidSteps
  <2>2. j = 5 \/ j \in 1..4
    <3>1. Len(Program(kind)) = 5
      BY <1>6, ProgramIs, CtaphidOperations
    <3>2. j \in 1..5
      BY <3>1
    <3> QED BY <3>2
  <2> HIDE DEF Follows
  <2>3. Follows(operation, Successor(kind, operation))
    BY <1>1, <1>2, <1>3, <1>6, <2>1, <2>2, ProgramIs, CtaphidOperations
  <2> QED BY <2>3 DEF Follows
<1> QED BY <1>4, <1>5, <1>6 DEF Kinds

\* What is behind the SELECTs of the applets and behind both of them.
LEMMA BeforeApplets ==
    /\ Before("pcsc", "otp.select") = {"open", "begin", "status"}
    /\ Before("pcsc", "fido.select") = {"open", "begin", "status", "otp.select"} \cup OtpSteps
    /\ Before("pcsc", "warm") = {"open", "begin", "status", "otp.select"} \cup OtpSteps
                                    \cup {"fido.select"} \cup FidoSteps
<1>1. \A j \in 1..15 : Before("pcsc", PcscSteps[j]) = {PcscSteps[i] : i \in 1..(j - 1)}
  <2>1. "pcsc" \in Kinds /\ Program("pcsc") = PcscSteps /\ Len(Program("pcsc")) = 15
    BY ProgramIs, PcscOperations DEF Kinds
  <2>2. \A j \in 1..Len(Program("pcsc")) :
           Before("pcsc", Program("pcsc")[j]) = {Program("pcsc")[i] : i \in 1..(j - 1)}
    BY <2>1, BeforeIs
  <2>3. ASSUME NEW j \in 1..15
        PROVE  Before("pcsc", PcscSteps[j]) = {PcscSteps[i] : i \in 1..(j - 1)}
    <3>1. j \in 1..Len(Program("pcsc"))
      BY <2>1
    <3>2. Before("pcsc", Program("pcsc")[j]) = {Program("pcsc")[i] : i \in 1..(j - 1)}
      BY <2>2, <3>1
    <3> QED BY <2>1, <3>2
  <2> QED BY <2>3
<1>2. /\ PcscSteps[4] = "otp.select" /\ PcscSteps[10] = "fido.select"
      /\ PcscSteps[13] = "warm"
  BY DEF PcscSteps
<1>3. /\ Before("pcsc", "otp.select") = {PcscSteps[i] : i \in 1..3}
      /\ Before("pcsc", "fido.select") = {PcscSteps[i] : i \in 1..9}
      /\ Before("pcsc", "warm") = {PcscSteps[i] : i \in 1..12}
  <2>1. 4 - 1 = 3 /\ 10 - 1 = 9 /\ 13 - 1 = 12 /\ {4, 10, 13} \subseteq 1..15
    OBVIOUS
  <2> QED BY <1>1, <1>2, <2>1
<1>4. {PcscSteps[i] : i \in 1..3} = {"open", "begin", "status"}
  <2>1. 1..3 = {1, 2, 3}
    OBVIOUS
  <2>2. {PcscSteps[i] : i \in {1, 2, 3}} = {PcscSteps[1], PcscSteps[2], PcscSteps[3]}
    OBVIOUS
  <2> QED BY <2>1, <2>2 DEF PcscSteps
<1>5. {PcscSteps[i] : i \in 1..9} =
         {"open", "begin", "status", "otp.select"} \cup OtpSteps
  <2> DEFINE S == {"open", "begin", "status", "otp.select"} \cup OtpSteps
  <2>1. \A i \in 1..9 : PcscSteps[i] \in S
    BY DEF PcscSteps, OtpSteps
  <2>2. \A o \in S : \E i \in 1..9 : PcscSteps[i] = o
    BY DEF PcscSteps, OtpSteps
  <2> HIDE DEF S
  <2>3. {PcscSteps[i] : i \in 1..9} = S
    BY <2>1, <2>2
  <2> QED BY <2>3 DEF S
<1>6. {PcscSteps[i] : i \in 1..12} =
         {"open", "begin", "status", "otp.select"} \cup OtpSteps \cup {"fido.select"} \cup FidoSteps
  <2> DEFINE S == {"open", "begin", "status", "otp.select"} \cup OtpSteps
                      \cup {"fido.select"} \cup FidoSteps
  <2>1. \A i \in 1..12 : PcscSteps[i] \in S
    BY DEF PcscSteps, OtpSteps, FidoSteps
  <2>2. \A o \in S : \E i \in 1..12 : PcscSteps[i] = o
    BY DEF PcscSteps, OtpSteps, FidoSteps
  <2> HIDE DEF S
  <2>3. {PcscSteps[i] : i \in 1..12} = S
    BY <2>1, <2>2
  <2> QED BY <2>3 DEF S
<1> QED BY <1>3, <1>4, <1>5, <1>6

\* Wherever an operation leads is in the program or its end.
LEMMA AfterIn ==
    ASSUME NEW kind \in Kinds, NEW operation \in Range(Program(kind)),
           NEW ok \in BOOLEAN, ok \/ operation \in Decisive
    PROVE  /\ After(kind, operation, ok) \in Range(Program(kind)) \cup {"exit"}
           /\ After(kind, operation, ok) \in BeforeGetInfo => operation \in BeforeGetInfo
<1>1. CASE ok
  BY <1>1, SuccessorBefore, SuccessorNeeds DEF After
<1>2. CASE ~ok
  <2>1. operation \in {"begin", "otp.select", "fido.select"} => kind = "pcsc"
    BY OperationsOf
  <2>2. {"close", "fido.select", "warm"} \subseteq Range(Program("pcsc"))
    BY ProgramIs, PcscOperations
  <2>3. operation \in Decisive
    BY <1>2
  <2>4. After(kind, operation, ok) =
           CASE operation \in {"open", "init"} -> "exit"
             [] operation = "begin"            -> "close"
             [] operation = "otp.select"       -> "fido.select"
             [] operation = "fido.select"      -> "warm"
    BY <1>2 DEF After
  <2> QED BY <2>1, <2>2, <2>3, <2>4 DEF Decisive, BeforeGetInfo
<1> QED BY <1>1, <1>2

-----------------------------------------------------------------------------
\* Facts about the targets.

PcscTarget == [kind : {"pcsc"}, endpoint : Readers]
HidTarget  == [kind : {"feature", "ctaphid"}, endpoint : Paths]
AnyTarget  == [kind : Kinds, endpoint : Readers \cup Paths]

LEMMA PcscTargetsAre ==
    ASSUME NEW readers \in SUBSET Readers
    PROVE  /\ PcscTargets(readers) \in Seq(PcscTarget)
           /\ Len(PcscTargets(readers)) <= Cardinality(Readers)
           /\ \A i, j \in 1..Len(PcscTargets(readers)) :
                 PcscTargets(readers)[i].endpoint = PcscTargets(readers)[j].endpoint => i = j
<1> DEFINE found == SetToSeq(readers)
           n == Cardinality(readers)
<1>1. IsFiniteSet(readers) /\ n <= Cardinality(Readers) /\ n \in Nat
  BY ConstantsAssumption, FS_Subset, FS_CardinalityType DEF ConstantsAssumption
<1>2. /\ found \in Seq(readers) /\ Len(found) = n
      /\ \A i, j \in 1..n : found[i] = found[j] => i = j
  BY <1>1, SetToSeqOf
<1> HIDE DEF n
<1>3. DOMAIN found = 1..n /\ \A i \in 1..n : found[i] \in Readers
  <2>1. DOMAIN found = 1..n
    BY <1>2, LenProperties
  <2>2. \A i \in 1..n : found[i] \in readers
    BY <1>2, ElementOfSeq
  <2> QED BY <2>1, <2>2
<1>4. PcscTargets(readers) = [i \in 1..n |-> [kind |-> "pcsc", endpoint |-> found[i]]]
  BY <1>3 DEF PcscTargets
<1> HIDE DEF found
<1>5. PcscTargets(readers) \in [1..n -> PcscTarget]
  BY <1>3, <1>4 DEF PcscTarget
<1>6. PcscTargets(readers) \in Seq(PcscTarget) /\ Len(PcscTargets(readers)) = n
  BY <1>1, <1>5
<1>7. \A i \in 1..n : PcscTargets(readers)[i].endpoint = found[i]
  BY <1>4
<1> QED BY <1>1, <1>2, <1>6, <1>7

LEMMA HidTargetsAre ==
    ASSUME NEW paths \in SUBSET Paths, NEW fido \in SUBSET paths
    PROVE  /\ HidTargets(paths, fido) \in Seq(HidTarget)
           /\ Len(HidTargets(paths, fido)) <= 2 * Cardinality(Paths)
<1> DEFINE found == SetToSeq(paths)
           n == Cardinality(paths)
           target(kind, p) == [kind |-> kind, endpoint |-> p]
           seqs == [i \in DOMAIN found |->
                       IF found[i] \in fido
                       THEN <<target("feature", found[i]), target("ctaphid", found[i])>>
                       ELSE <<target("feature", found[i])>>]
<1>1. IsFiniteSet(paths) /\ n <= Cardinality(Paths) /\ n \in Nat /\ Cardinality(Paths) \in Nat
  BY ConstantsAssumption, FS_Subset, FS_CardinalityType DEF ConstantsAssumption
<1>2. found \in Seq(paths) /\ Len(found) = n
  BY <1>1, SetToSeqOf
<1>3. DOMAIN found = 1..n /\ \A i \in 1..n : found[i] \in Paths
  <2> HIDE DEF n
  <2>1. DOMAIN found = 1..n
    BY <1>2, LenProperties
  <2>2. \A i \in 1..n : found[i] \in paths
    BY <1>2, ElementOfSeq
  <2> QED BY <2>1, <2>2
<1>4. HidTargets(paths, fido) = FlattenSeq(seqs)
  BY DEF HidTargets
<1> HIDE DEF found, n
<1>5. ASSUME NEW p \in Paths
      PROVE  /\ <<target("feature", p), target("ctaphid", p)>> \in Seq(HidTarget)
             /\ Len(<<target("feature", p), target("ctaphid", p)>>) = 2
             /\ <<target("feature", p)>> \in Seq(HidTarget)
             /\ Len(<<target("feature", p)>>) = 1
  <2>1. target("feature", p) \in HidTarget /\ target("ctaphid", p) \in HidTarget
    BY DEF HidTarget
  <2> HIDE DEF target
  <2> QED BY <2>1
<1>6. ASSUME NEW i \in 1..n PROVE seqs[i] \in Seq(HidTarget) /\ Len(seqs[i]) <= 2
  <2> HIDE DEF target
  <2>1. seqs[i] = IF found[i] \in fido
                  THEN <<target("feature", found[i]), target("ctaphid", found[i])>>
                  ELSE <<target("feature", found[i])>>
    BY <1>3
  <2> QED BY <1>3, <1>5, <2>1
<1>7. seqs \in [1..n -> Seq(HidTarget)]
  <2>1. seqs = [i \in 1..n |-> seqs[i]]
    BY <1>3
  <2> HIDE DEF seqs
  <2> QED BY <1>6, <2>1
<1> HIDE DEF seqs
<1>8. seqs \in Seq(Seq(HidTarget)) /\ Len(seqs) = n
  BY <1>1, <1>7
<1>9. /\ FlattenSeq(seqs) \in Seq(HidTarget)
      /\ Len(FlattenSeq(seqs)) <= 2 * n
  BY <1>6, <1>8, FlattenSeqOf
<1>10. Len(FlattenSeq(seqs)) \in Nat
  BY <1>9, LenProperties
<1> QED BY <1>1, <1>4, <1>9, <1>10

\* An inventory finds its readers first, each once, and then its paths.
LEMMA TargetsAre ==
    ASSUME NEW readers \in SUBSET Readers, NEW paths \in SUBSET Paths, NEW fido \in SUBSET paths,
           targets' = Targets(readers, paths, fido)
    PROVE  targets' \in Seq(AnyTarget) /\ TargetsInOrder'
<1> DEFINE p == PcscTargets(readers)
           h == HidTargets(paths, fido)
<1>1. /\ p \in Seq(PcscTarget) /\ Len(p) <= Cardinality(Readers)
      /\ \A i, j \in 1..Len(p) : p[i].endpoint = p[j].endpoint => i = j
  BY PcscTargetsAre
<1>2. h \in Seq(HidTarget) /\ Len(h) <= 2 * Cardinality(Paths)
  BY HidTargetsAre
<1>3. targets' = p \o h
  BY DEF Targets
<1> HIDE DEF p, h
<1>4. PcscTarget \subseteq AnyTarget /\ HidTarget \subseteq AnyTarget
  BY DEF PcscTarget, HidTarget, AnyTarget, Kinds
<1>5. p \in Seq(AnyTarget) /\ h \in Seq(AnyTarget)
  BY <1>1, <1>2, <1>4
<1>6. /\ targets' \in Seq(AnyTarget)
      /\ Len(targets') = Len(p) + Len(h)
      /\ \A i \in 1..Len(targets') :
            targets'[i] = IF i <= Len(p) THEN p[i] ELSE h[i - Len(p)]
  BY <1>3, <1>5, ConcatProperties
<1>7. Len(p) \in Nat /\ Len(h) \in Nat
  BY <1>1, <1>2, LenProperties
<1>8. Cardinality(Readers) \in Nat /\ Cardinality(Paths) \in Nat
  BY ConstantsAssumption, FS_CardinalityType DEF ConstantsAssumption
<1>9. Len(targets') <= Cardinality(Readers) + 2 * Cardinality(Paths)
  BY <1>1, <1>2, <1>6, <1>7, <1>8
<1>10. ASSUME NEW j \in 1..Len(targets'), targets'[j].kind = "pcsc"
       PROVE  /\ targets'[j].endpoint \in Readers
              /\ \A i \in 1..(j - 1) :
                    targets'[i].kind = "pcsc" /\ targets'[i].endpoint # targets'[j].endpoint
  <2>1. j <= Len(p)
    <3> SUFFICES ASSUME ~(j <= Len(p)) PROVE FALSE
      OBVIOUS
    <3>1. j - Len(p) \in 1..Len(h) /\ targets'[j] = h[j - Len(p)]
      BY <1>6, <1>7
    <3>2. h[j - Len(p)] \in HidTarget
      BY <1>2, <3>1, ElementOfSeq
    <3> QED BY <1>10, <3>1, <3>2 DEF HidTarget
  <2>2. j \in 1..Len(p) /\ targets'[j] = p[j]
    BY <1>6, <1>7, <2>1
  <2>3. p[j] \in PcscTarget
    BY <1>1, <2>2, ElementOfSeq
  <2>4. ASSUME NEW i \in 1..(j - 1)
        PROVE  targets'[i].kind = "pcsc" /\ targets'[i].endpoint # targets'[j].endpoint
    <3>1. i \in 1..Len(p) /\ i # j /\ i \in 1..Len(targets') /\ i <= Len(p)
      BY <1>6, <1>7, <2>2
    <3>2. targets'[i] = p[i]
      BY <1>6, <3>1
    <3>3. p[i] \in PcscTarget
      BY <1>1, <3>1, ElementOfSeq
    <3> QED BY <1>1, <2>2, <3>1, <3>2, <3>3 DEF PcscTarget
  <2> QED BY <2>2, <2>3, <2>4 DEF PcscTarget
<1> QED BY <1>6, <1>9, <1>10 DEF TargetsInOrder

-----------------------------------------------------------------------------
\* Facts about the invariant.

\* The worker that is next or running has a target, unless none is left.
LEMMA TargetIn ==
    ASSUME CaptureTypes, NEW w \in 1..Workers
    PROVE  /\ 1 + ((w - 1) \div Repeat) \in 1..Len(targets)
           /\ TargetOf(w) \in AnyTarget
           /\ TokenOf[TargetOf(w).endpoint] \in Range(TokenOf)
<1>1. Len(targets) \in Nat /\ Repeat \in Nat \ {0}
  BY ConstantsAssumption, LenProperties DEF CaptureTypes, ConstantsAssumption
<1>2. w - 1 \in Nat /\ w - 1 < Len(targets) * Repeat
  <2>1. Len(targets) * Repeat \in Nat
    BY <1>1, Products
  <2> QED BY <2>1 DEF Workers
<1>3. 1 + ((w - 1) \div Repeat) \in 1..Len(targets)
  BY <1>1, <1>2, BlockOf
<1>4. TargetOf(w) \in AnyTarget
  BY <1>3, ElementOfSeq DEF CaptureTypes, TargetOf, AnyTarget
<1>5. TokenOf[TargetOf(w).endpoint] \in Range(TokenOf)
  BY <1>4, ConstantsAssumption DEF AnyTarget, ConstantsAssumption, Range
<1> QED BY <1>3, <1>4, <1>5

LEMMA WorkersNat ==
    ASSUME CaptureTypes
    PROVE  /\ Workers \in Nat /\ worker \in 1..(1 + Workers)
           /\ targets = <<>> => Workers = 0
<1>1. Len(targets) \in Nat /\ Repeat \in Nat \ {0}
  BY ConstantsAssumption, LenProperties DEF CaptureTypes, ConstantsAssumption
<1>2. Workers \in Nat
  BY <1>1, Products DEF Workers
<1>3. 0 * Repeat = 0 /\ Len(<<>>) = 0
  BY <1>1
<1> QED BY <1>2, <1>3 DEF CaptureTypes, Workers

\* What a step that leaves the terminal alone keeps.
LEMMA LinesKept ==
    ASSUME LinesTaken, CapturesMatchLines,
           UNCHANGED <<typed, scanned, scanner, captured>>,
           main' = "returned" \/ main # "returned"
    PROVE  LinesTaken' /\ CapturesMatchLines'
<1>1. \A n : AskedUpTo(n)' = AskedUpTo(n)
  BY DEF AskedUpTo, AskedFor
<1>2. CapturesMatchLines'
  BY <1>1 DEF CapturesMatchLines, AskedFor
<1>3. LinesTaken'
  BY <1>1 DEF LinesTaken
<1> QED BY <1>2, <1>3

-----------------------------------------------------------------------------
\* The invariant holds initially and every action preserves it.

LEMMA InitInv == Init => Inv
<1> SUFFICES ASSUME Init PROVE Inv
  OBVIOUS
<1> USE DEF Init
<1>1. Repeat \in Nat \ {0} /\ Workers = 0
  BY ConstantsAssumption DEF Workers, ConstantsAssumption
<1>2. /\ mode \in {"interactive", "label", "list"}
      /\ main \in {"prompt", "create", "inventory"}
      /\ main = "inventory" <=> mode = "list"
  BY ConstantsAssumption DEF ConstantsAssumption
<1>3. UserTypes
  BY DEF UserTypes, Lines, Processes
<1>4. CaptureTypes
  <2>1. targets \in Seq([kind : Kinds, endpoint : Readers \cup Paths])
    OBVIOUS
  <2>2. 0 \in 0..0 /\ 1 \in 1..(1 + 0)
    OBVIOUS
  <2> QED BY <1>1, <1>2, <2>1, <2>2 DEF CaptureTypes
<1>5. WorkTypes
  BY NoOperations DEF WorkTypes
<1>6. OneWriter /\ Recording /\ OnePress
  BY FS_EmptySet DEF OneWriter, Recording, OnePress, Processes
<1>7. TargetsInOrder
  <2>1. Cardinality(Readers) \in Nat /\ Cardinality(Paths) \in Nat
    BY ConstantsAssumption, FS_CardinalityType DEF ConstantsAssumption
  <2> QED BY <2>1 DEF TargetsInOrder
<1>8. FileFollows /\ Primers /\ Measured /\ Forgotten
  BY <1>2 DEF FileFollows, Primers, Measured, Forgotten
<1>9. LinesTaken /\ CapturesMatchLines
  <2>1. AskedUpTo(0) = {}
    BY DEF AskedUpTo
  <2>2. CapturesMatchLines
    BY DEF CapturesMatchLines
  <2>3. LinesTaken
    BY <2>1, FS_EmptySet DEF LinesTaken, Lines
  <2> QED BY <2>2, <2>3
<1> QED BY <1>3, <1>4, <1>5, <1>6, <1>7, <1>8, <1>9 DEF Inv, TypeOK

\* What a step of the terminal keeps.
LEMMA TerminalKeeps ==
    ASSUME Inv, UNCHANGED <<mode, interrupt, main, captureVars, expired, last, step,
                            workerErr, writing, workVars>>,
           UserTypes', LinesTaken', CapturesMatchLines'
    PROVE  Inv'
<1> USE DEF captureVars, workVars
<1>1. Target' = Target /\ Workers' = Workers
  BY DEF Target, TargetOf, Workers
<1>2. CaptureTypes' /\ WorkTypes'
  BY <1>1 DEF Inv, TypeOK, CaptureTypes, WorkTypes
<1>3. OneWriter' /\ Recording' /\ OnePress' /\ TargetsInOrder'
  BY <1>1 DEF Inv, OneWriter, Recording, OnePress, Pressed, TargetsInOrder
<1>4. FileFollows' /\ Primers'
  BY <1>1 DEF Inv, FileFollows, Between, Primers, TargetOf, Workers
<1>5. Measured' /\ Forgotten'
  BY <1>1 DEF Inv, Measured, Behind, Pressed, Forgotten
<1> QED BY <1>2, <1>3, <1>4, <1>5 DEF Inv, TypeOK

LEMMA TypedInv ==
    ASSUME Inv, NEW line \in Lines, Type(line),
           UNCHANGED <<interrupt, main, captureVars, expired, last, step, workerErr,
                       writing, workVars>>
    PROVE  Inv'
<1> USE DEF Type, captureVars
<1>1. /\ typed \in Seq(Lines) /\ typed' \in Seq(Lines)
      /\ Len(typed) \in Nat /\ Len(typed') = Len(typed) + 1
      /\ \A i \in 1..Len(typed) : typed'[i] = typed[i]
  BY AppendProperties, LenProperties DEF Inv, TypeOK, UserTypes
<1>2. UserTypes'
  BY <1>1 DEF Inv, TypeOK, UserTypes
<1>3. ASSUME NEW i \in 1..Len(typed) PROVE AskedFor(i)' = AskedFor(i)
  <2>1. \A j \in 1..i : typed'[j] = typed[j]
    BY <1>1
  <2> QED BY <1>1, <2>1 DEF AskedFor
<1>4. ASSUME NEW n \in 0..Len(typed) PROVE AskedUpTo(n)' = AskedUpTo(n)
  <2>1. \A i \in 1..n : AskedFor(i)' = AskedFor(i)
    BY <1>1, <1>3
  <2> QED BY <2>1 DEF AskedUpTo
<1>5. CapturesMatchLines'
  <2> SUFFICES ASSUME NEW k \in 1..Len(captured)
               PROVE  \E i \in 1..Len(typed') :
                         /\ AskedFor(i)' /\ captured[k] = typed'[i]
                         /\ Cardinality(AskedUpTo(i)') = k
    BY DEF CapturesMatchLines
  <2>1. PICK i \in 1..Len(typed) :
           AskedFor(i) /\ captured[k] = typed[i] /\ Cardinality(AskedUpTo(i)) = k
    BY DEF Inv, CapturesMatchLines
  <2>2. i \in 1..Len(typed') /\ i \in 0..Len(typed)
    BY <1>1
  <2> QED BY <1>1, <1>3, <1>4, <2>1, <2>2
<1>6. LinesTaken'
  <2>1. main # "returned" /\ scanned' = scanned /\ scanner' = scanner
    OBVIOUS
  <2>2. PICK n \in 0..scanned :
           /\ scanner = "scanning" => n = scanned
           /\ scanner \in Lines => n = scanned - 1 /\ scanner = typed[scanned]
           /\ \A i \in 1..n : typed[i] # "q"
           /\ Len(captured) = Cardinality(AskedUpTo(n))
    BY <2>1 DEF Inv, LinesTaken
  <2>3. n \in 0..Len(typed) /\ scanned \in 0..Len(typed)
    BY <1>1 DEF Inv, TypeOK, UserTypes
  <2>4. scanner \in Lines => scanned \in 1..Len(typed)
    BY <1>1, <2>2, <2>3
  <2>5. \A i \in 1..n : typed'[i] # "q"
    BY <1>1, <2>2, <2>3
  <2>6. Len(captured) = Cardinality(AskedUpTo(n)')
    BY <1>4, <2>2, <2>3
  <2> QED BY <1>1, <2>1, <2>2, <2>4, <2>5, <2>6 DEF LinesTaken
<1> QED BY <1>2, <1>5, <1>6, TerminalKeeps

LEMMA ScannedInv ==
    ASSUME Inv, Scan \/ StopScanning,
           UNCHANGED <<interrupt, main, captureVars, expired, last, step, workerErr,
                       writing, workVars>>
    PROVE  Inv'
<1> USE DEF Scan, StopScanning, captureVars
<1>1. typed \in Seq(Lines) /\ Len(typed) \in Nat /\ scanned \in 0..Len(typed)
  BY LenProperties DEF Inv, TypeOK, UserTypes
<1>2. typed' = typed /\ mode' = mode /\ main' = main /\ captured' = captured
  OBVIOUS
<1>3. \/ /\ scanner = "scanning"
         /\ scanned < Len(typed) /\ scanned' = scanned + 1 /\ scanner' = typed[scanned + 1]
         /\ scanner' \in Lines
      \/ scanned' = scanned /\ scanner' = "closed"
  <2>1. scanned < Len(typed) => typed[scanned + 1] \in Lines
    <3>1. scanned < Len(typed) => scanned + 1 \in 1..Len(typed)
      BY <1>1
    <3> QED BY <1>1, <3>1, ElementOfSeq
  <2> QED BY <2>1
<1>4. UserTypes'
  BY <1>1, <1>2, <1>3 DEF Inv, TypeOK, UserTypes
<1>5. \A n : AskedUpTo(n)' = AskedUpTo(n)
  BY <1>2 DEF AskedUpTo, AskedFor
<1>6. CapturesMatchLines'
  BY <1>2, <1>5 DEF Inv, CapturesMatchLines, AskedFor
<1>7. LinesTaken'
  <2> SUFFICES ASSUME main # "returned" PROVE LinesTaken'
    BY <1>2 DEF LinesTaken
  <2>1. PICK n \in 0..scanned :
           /\ scanner = "scanning" => n = scanned
           /\ \A i \in 1..n : typed[i] # "q"
           /\ Len(captured) = Cardinality(AskedUpTo(n))
    BY DEF Inv, LinesTaken
  <2>2. n \in 0..scanned'
    BY <1>1, <1>3
  <2>3. Len(captured') = Cardinality(AskedUpTo(n)')
    BY <1>2, <1>5, <2>1
  <2>4. scanner' \in Lines => n = scanned' - 1 /\ scanner' = typed'[scanned']
    BY <1>1, <1>2, <1>3, <2>1 DEF Lines
  <2>5. scanner' # "scanning"
    BY <1>3 DEF Lines
  <2> QED BY <1>2, <2>1, <2>2, <2>3, <2>4, <2>5 DEF LinesTaken
<1> QED BY <1>2, <1>4, <1>6, <1>7, TerminalKeeps

LEMMA PressInv == ASSUME Inv, Press PROVE Inv'
<1> USE DEF Press, userVars, captureVars
<1>1. Target' = Target /\ Workers' = Workers
  BY DEF Target, TargetOf, Workers
<1>2. Pressed' /\ interrupt' \in [Processes -> {"no", "sent", "seen"}]
  BY DEF Inv, TypeOK, UserTypes, Processes, Pressed
<1>3. UserTypes' /\ CaptureTypes' /\ WorkTypes'
  BY <1>1, <1>2 DEF Inv, TypeOK, UserTypes, CaptureTypes, WorkTypes
<1>4. OneWriter' /\ Recording' /\ TargetsInOrder'
  BY <1>1 DEF Inv, OneWriter, Recording, TargetsInOrder
<1>5. FileFollows' /\ Primers'
  BY <1>1 DEF Inv, FileFollows, Between, Primers, TargetOf, Workers
<1>6. Measured' /\ OnePress' /\ Forgotten'
  BY <1>2 DEF Inv, Measured, OnePress, Forgotten
<1>7. LinesTaken' /\ CapturesMatchLines'
  BY LinesKept DEF Inv
<1> QED BY <1>3, <1>4, <1>5, <1>6, <1>7 DEF Inv, TypeOK

LEMMA NoticeInv == ASSUME Inv, NEW process \in Processes, Notice(process) PROVE Inv'
<1> USE DEF Notice, userVars, captureVars, workVars
<1>1. Target' = Target /\ Workers' = Workers
  BY DEF Target, TargetOf, Workers
<1>2. /\ interrupt' \in [Processes -> {"no", "sent", "seen"}]
      /\ \A p \in Processes : interrupt'[p] # "no" <=> interrupt[p] # "no"
  BY DEF Inv, TypeOK, UserTypes
<1>3. Pressed' = Pressed
  BY <1>2 DEF Pressed, Processes
<1>4. UserTypes' /\ CaptureTypes' /\ WorkTypes'
  BY <1>1, <1>2 DEF Inv, TypeOK, UserTypes, CaptureTypes, WorkTypes
<1>5. OneWriter' /\ Recording' /\ TargetsInOrder'
  BY <1>1 DEF Inv, OneWriter, Recording, TargetsInOrder
<1>6. FileFollows' /\ Primers'
  BY <1>1 DEF Inv, FileFollows, Between, Primers, TargetOf, Workers
<1>7. Measured' /\ Forgotten'
  BY <1>1, <1>3 DEF Inv, Measured, Behind, Forgotten
<1>8. OnePress'
  BY <1>2, <1>3 DEF Inv, OnePress, Processes
<1>9. LinesTaken' /\ CapturesMatchLines'
  BY LinesKept DEF Inv
<1> QED BY <1>4, <1>5, <1>6, <1>7, <1>8, <1>9 DEF Inv, TypeOK

\* The line that the prompt takes, and what it makes of it.
LEMMA TakenLine ==
    ASSUME Inv, main = "prompt", TakeLine,
           UNCHANGED <<typed, scanned>>, main' # "returned"
    PROVE  LinesTaken' /\ CapturesMatchLines'
<1> USE DEF TakeLine, GoTo
<1>1. /\ typed \in Seq(Lines) /\ Len(typed) \in Nat /\ scanned \in 0..Len(typed)
      /\ captured \in Seq({"usb", "nfc"})
  BY LenProperties DEF Inv, TypeOK, UserTypes, CaptureTypes
<1>2. \A n : AskedUpTo(n)' = AskedUpTo(n) /\ AskedFor(n)' = AskedFor(n)
  BY DEF AskedUpTo, AskedFor
<1>3. PICK n \in 0..scanned :
         /\ n = scanned - 1 /\ scanner = typed[scanned]
         /\ \A i \in 1..n : typed[i] # "q"
         /\ Len(captured) = Cardinality(AskedUpTo(n))
  BY DEF Inv, LinesTaken
<1>4. scanned \in 1..Len(typed) /\ n \in Nat /\ scanned = n + 1
  BY <1>1, <1>3
<1>5. scanner # "q" /\ scanner' = "scanning"
  OBVIOUS
<1>6. \A i \in 1..scanned : typed[i] # "q"
  <2>1. \A i \in 1..scanned : i \in 1..n \/ i = scanned
    BY <1>4
  <2> QED BY <1>3, <1>5, <2>1
<1>7. AskedUpTo(scanned) =
         IF scanner \in {"usb", "nfc"} THEN AskedUpTo(n) \cup {scanned} ELSE AskedUpTo(n)
  <2>1. 1..scanned = (1..n) \cup {scanned}
    BY <1>4
  <2>2. AskedFor(scanned) <=> scanner \in {"usb", "nfc"}
    BY <1>3, <1>6 DEF AskedFor
  <2> QED BY <2>1, <2>2 DEF AskedUpTo
<1>8. CASE scanner \in {"usb", "nfc"}
  <2>1. captured' = Append(captured, scanner)
    BY <1>8
  <2>2. /\ Len(captured) \in Nat /\ Len(captured') = Len(captured) + 1
        /\ \A k \in 1..Len(captured) : captured'[k] = captured[k]
        /\ captured'[Len(captured) + 1] = scanner
    BY <1>1, <1>8, <2>1, AppendProperties, LenProperties
  <2>3. Cardinality(AskedUpTo(scanned)) = Len(captured')
    <3>1. IsFiniteSet(AskedUpTo(n))
      <4>1. IsFiniteSet(1..n)
        BY <1>4, FS_Interval
      <4>2. AskedUpTo(n) \subseteq 1..n
        BY DEF AskedUpTo
      <4> QED BY <4>1, <4>2, FS_Subset
    <3>2. scanned \notin AskedUpTo(n)
      BY <1>4 DEF AskedUpTo
    <3>3. Cardinality(AskedUpTo(n) \cup {scanned}) = Cardinality(AskedUpTo(n)) + 1
      BY <3>1, <3>2, FS_AddElement
    <3> QED BY <1>3, <1>7, <1>8, <2>2, <3>3
  <2>4. AskedFor(scanned)
    BY <1>3, <1>6, <1>8 DEF AskedFor
  <2>5. CapturesMatchLines'
    <3> SUFFICES ASSUME NEW k \in 1..Len(captured')
                 PROVE  \E i \in 1..Len(typed) :
                           /\ AskedFor(i) /\ captured'[k] = typed[i]
                           /\ Cardinality(AskedUpTo(i)) = k
      BY <1>2 DEF CapturesMatchLines
    <3>1. k \in 1..Len(captured) \/ k = Len(captured) + 1
      BY <2>2
    <3>2. CASE k \in 1..Len(captured)
      BY <2>2, <3>2 DEF Inv, CapturesMatchLines
    <3>3. CASE k = Len(captured) + 1
      BY <1>3, <1>4, <2>2, <2>3, <2>4, <3>3
    <3> QED BY <3>1, <3>2, <3>3
  <2>6. LinesTaken'
    <3>1. scanned \in 0..scanned
      BY <1>4
    <3> QED BY <1>2, <1>5, <1>6, <2>3, <3>1 DEF LinesTaken, Lines
  <2> QED BY <2>5, <2>6
<1>9. CASE scanner \notin {"usb", "nfc"}
  <2>1. captured' = captured
    BY <1>9
  <2>2. CapturesMatchLines'
    BY <1>2, <2>1 DEF Inv, CapturesMatchLines
  <2>3. LinesTaken'
    <3>1. scanned \in 0..scanned
      BY <1>4
    <3> QED BY <1>2, <1>3, <1>5, <1>6, <1>7, <1>9, <2>1, <3>1 DEF LinesTaken, Lines
  <2> QED BY <2>2, <2>3
<1> QED BY <1>8, <1>9

LEMMA PromptInv == ASSUME Inv, Prompt PROVE Inv'
<1> USE DEF Prompt, TakeLine, GoTo, workVars
<1>1. Target' = Target /\ Workers' = Workers
  BY DEF Target, TargetOf, Workers
<1>2. /\ main = "prompt" /\ main' \in {"returned", "create", "prompt"}
      /\ scanner' \in {scanner, "scanning"}
      /\ connection' \in {"usb", "nfc"} /\ captured' \in Seq({"usb", "nfc"})
  <2>1. connection \in {"usb", "nfc"} /\ captured \in Seq({"usb", "nfc"})
    BY DEF Inv, TypeOK, CaptureTypes
  <2>2. ASSUME NEW line \in {"usb", "nfc"}
        PROVE  Append(captured, line) \in Seq({"usb", "nfc"})
    BY <2>1, AppendProperties
  <2> QED BY <2>1, <2>2
<1>3. UserTypes'
  BY <1>2 DEF Inv, TypeOK, UserTypes
<1>4. CaptureTypes'
  BY <1>1, <1>2 DEF Inv, TypeOK, CaptureTypes
<1>5. WorkTypes'
  BY <1>1 DEF Inv, TypeOK, WorkTypes
<1>6. OneWriter' /\ Recording' /\ TargetsInOrder' /\ OnePress'
  BY <1>1, <1>2 DEF Inv, OneWriter, Recording, TargetsInOrder, OnePress, Pressed
<1>7. FileFollows' /\ Primers' /\ Measured' /\ Forgotten'
  BY <1>2 DEF Inv, FileFollows, Primers, Measured, Forgotten
<1>8. LinesTaken' /\ CapturesMatchLines'
  <2>1. CASE main' # "returned"
    BY <1>2, <2>1, TakenLine DEF TakeLine
  <2>2. CASE main' = "returned"
    <3>1. captured' = captured
      BY <2>2
    <3>2. \A n : AskedUpTo(n)' = AskedUpTo(n) /\ AskedFor(n)' = AskedFor(n)
      BY DEF AskedUpTo, AskedFor
    <3>3. CapturesMatchLines'
      BY <3>1, <3>2 DEF Inv, CapturesMatchLines
    <3> QED BY <2>2, <3>3 DEF LinesTaken
  <2> QED BY <2>1, <2>2
<1> QED BY <1>3, <1>4, <1>5, <1>6, <1>7, <1>8 DEF Inv, TypeOK

LEMMA CreateInv == ASSUME Inv, Create PROVE Inv'
<1> USE DEF Create, GoTo, userVars
<1>1. step = "gone" /\ writing = {} /\ main' = "inventory"
  BY DEF Inv, OneWriter
<1>2. Len(targets') = 0 /\ Workers' = 0
  BY ConstantsAssumption DEF Workers, ConstantsAssumption
<1>3. UserTypes'
  BY DEF Inv, TypeOK, UserTypes
<1>4. CaptureTypes'
  <2>1. targets' \in Seq([kind : Kinds, endpoint : Readers \cup Paths])
    OBVIOUS
  <2>2. 0 \in 0..0 /\ 1 \in 1..(1 + 0)
    OBVIOUS
  <2> QED BY <1>1, <1>2, <2>1, <2>2 DEF Inv, TypeOK, CaptureTypes
<1>5. WorkTypes'
  BY <1>1, NoOperations DEF Inv, TypeOK, WorkTypes
<1>6. OneWriter' /\ Recording' /\ OnePress'
  BY <1>1, FS_EmptySet DEF Inv, OneWriter, Recording, OnePress, Pressed
<1>7. TargetsInOrder'
  <2>1. Cardinality(Readers) \in Nat /\ Cardinality(Paths) \in Nat
    BY ConstantsAssumption, FS_CardinalityType DEF ConstantsAssumption
  <2>2. 0 <= Cardinality(Readers) + 2 * Cardinality(Paths) /\ 1..0 = {}
    BY <2>1
  <2> QED BY <1>2, <2>2 DEF TargetsInOrder
<1>8. FileFollows' /\ Primers' /\ Measured' /\ Forgotten'
  BY <1>1 DEF Inv, FileFollows, Primers, Measured, Forgotten
<1>9. LinesTaken' /\ CapturesMatchLines'
  BY LinesKept DEF Inv
<1> QED BY <1>3, <1>4, <1>5, <1>6, <1>7, <1>8, <1>9 DEF Inv, TypeOK

\* What an inventory finds makes a number of workers.
LEMMA InventoryTargets ==
    ASSUME Inventory
    PROVE  /\ targets' \in Seq(AnyTarget) /\ TargetsInOrder'
           /\ Workers' \in Nat
           /\ targets' = <<>> => Workers' = 0
<1>1. PICK readers \in SUBSET Readers, paths \in SUBSET Paths :
         \E fido \in SUBSET paths :
            targets' = Targets(readers, IF connection = "usb" THEN paths ELSE {}, fido)
  BY DEF Inventory
<1>2. PICK fido \in SUBSET paths :
         targets' = Targets(readers, IF connection = "usb" THEN paths ELSE {}, fido)
  BY <1>1
<1>3. targets' \in Seq(AnyTarget) /\ TargetsInOrder'
  <2>1. CASE connection = "usb"
    BY <1>2, <2>1, TargetsAre
  <2>2. CASE connection # "usb"
    <3>1. targets' = Targets(readers, {}, fido)
      BY <1>2, <2>2
    <3>2. HidTargets({}, fido) = HidTargets({}, {})
      <4>1. SetToSeq({}) \in Seq({}) /\ Len(SetToSeq({})) = 0
        BY SetToSeqOf, FS_EmptySet
      <4>2. DOMAIN SetToSeq({}) = {}
        BY <4>1, LenProperties
      <4> QED BY <4>2 DEF HidTargets
    <3>3. targets' = Targets(readers, {}, {})
      BY <3>1, <3>2 DEF Targets
    <3> QED BY <3>3, TargetsAre
  <2> QED BY <2>1, <2>2
<1>4. Len(targets') \in Nat /\ Repeat \in Nat \ {0}
  BY <1>3, ConstantsAssumption, LenProperties DEF ConstantsAssumption
<1>5. Workers' \in Nat
  BY <1>4, Products DEF Workers
<1>6. 0 * Repeat = 0 /\ Len(<<>>) = 0
  BY <1>4
<1> QED BY <1>3, <1>5, <1>6 DEF Workers

LEMMA InventoryInv == ASSUME Inv, Inventory PROVE Inv'
<1>1. /\ main = "inventory" /\ step = "gone" /\ writing = {} /\ worker = 1 /\ primed = {}
      /\ last = [operation |-> IF mode = "list" THEN "none" ELSE "session.start",
                 worker    |-> 0]
  BY DEF Inventory, Inv, OneWriter, FileFollows
<1>2. /\ targets' \in Seq(AnyTarget) /\ TargetsInOrder'
      /\ Workers' \in Nat
      /\ targets' = <<>> => Workers' = 0
  BY InventoryTargets
<1>3. /\ UNCHANGED <<userVars, interrupt, connection, worker, captured, expired, step,
                     workerErr, writing, workVars>>
      /\ \/ main' = "returned" /\ last' = last
         \/ /\ main' = IF targets' = <<>> THEN "finish" ELSE "executable"
            /\ last' = [last EXCEPT !.operation = "inventory"]
  BY DEF Inventory, GoTo
<1>4. last' = last \/ last' = [operation |-> "inventory", worker |-> 0]
  BY <1>1, <1>3
<1> USE <1>3 DEF userVars, workVars
<1>5. UserTypes'
  BY DEF Inv, TypeOK, UserTypes
<1>6. CaptureTypes'
  <2>1. 0 \in 0..Workers' /\ 1 \in 1..(1 + Workers')
    BY <1>2
  <2> QED BY <1>1, <1>2, <1>4, <2>1 DEF Inv, TypeOK, CaptureTypes, AnyTarget
<1>7. WorkTypes'
  BY <1>1, NoOperations DEF Inv, TypeOK, WorkTypes
<1>8. OneWriter' /\ Recording' /\ OnePress'
  BY <1>1, FS_EmptySet DEF Inv, OneWriter, Recording, OnePress, Pressed
<1>9. FileFollows'
  BY <1>1, <1>2, <1>4 DEF Inv, FileFollows, Between
<1>10. Primers' /\ Measured' /\ Forgotten'
  BY <1>1 DEF Inv, Primers, Measured, Forgotten
<1>11. LinesTaken' /\ CapturesMatchLines'
  BY <1>1, LinesKept DEF Inv
<1> QED BY <1>2, <1>5, <1>6, <1>7, <1>8, <1>9, <1>10, <1>11 DEF Inv, TypeOK

\* The steps of the parent that only change its place and what the file ends with.
OnlyPlace == UNCHANGED <<userVars, interrupt, captureVars, expired, step, workerErr,
                         writing, phase, failed, recorded, primed>>

LEMMA OnlyParentInv ==
    ASSUME Inv, OnlyPlace,
           \/ Report
           \/ (FindExecutable \/ Loop \/ Wait \/ Finish \/ GiveUp) /\ torn' = torn
    PROVE  Inv'
<1> USE DEF OnlyPlace, userVars, captureVars, GoTo
<1>1. Target' = Target /\ Workers' = Workers
  BY DEF Target, TargetOf, Workers
<1>2. /\ Workers \in Nat /\ worker \in 1..(1 + Workers)
      /\ main # "wait" => step = "gone" /\ writing = {}
  BY WorkersNat DEF Inv, TypeOK, OneWriter
<1>3. \/ main = "executable" /\ main' = "loop" /\ last' = last
      \/ main = "loop" /\ main' = "finish" /\ worker > Workers /\ last' = last
      \/ /\ main = "loop" /\ worker <= Workers
         /\ main' \in {"returned", "prompt"} /\ (main' = "prompt" => mode = "interactive")
         /\ last' = [last EXCEPT !.operation = "session.interrupted"]
      \/ main = "loop" /\ main' = "spawn" /\ worker <= Workers /\ last' = last
      \/ main = "wait" /\ step = "gone" /\ main' = "report" /\ last' = last
      \/ /\ main = "report" /\ main' = "sync"
         /\ last' = [operation |-> IF torn THEN "broken.end" ELSE "worker.end",
                     worker    |-> worker]
      \/ /\ main = "finish" /\ main' \in {"returned", "prompt"}
         /\ main' = "prompt" => mode = "interactive"
         /\ last' = [last EXCEPT !.operation = "session.end"]
      \/ main' = "returned" /\ last' = last /\ main # "wait"
  <2>1. CASE FindExecutable
    BY <2>1 DEF FindExecutable
  <2>2. CASE Loop
    BY <1>2, <2>2 DEF Loop, AfterCapture
  <2>3. CASE Wait
    BY <2>3 DEF Wait
  <2>4. CASE Report
    BY <2>4 DEF Report, Write
  <2>5. CASE Finish
    BY <2>5 DEF Finish, AfterCapture
  <2>6. CASE GiveUp
    BY <2>6 DEF GiveUp
  <2> QED BY <2>1, <2>2, <2>3, <2>4, <2>5, <2>6
<1>13. torn' = IF main = "report" /\ main' = "sync" THEN FALSE ELSE torn
  BY DEF Report, FindExecutable, Loop, Wait, Finish, GiveUp, AfterCapture
<1>4. UserTypes'
  BY DEF Inv, TypeOK, UserTypes
<1>5. WorkTypes'
  <2>1. UNCHANGED <<step, phase, failed, recorded, writing, expired, workerErr, primed>>
    OBVIOUS
  <2>2. torn' \in BOOLEAN
    BY <1>13 DEF Inv, TypeOK, WorkTypes
  <2> QED BY <1>1, <2>1, <2>2 DEF Inv, TypeOK, WorkTypes
<1>6. CaptureTypes'
  <2>1. main' \in {"prompt", "finish", "loop", "spawn", "report", "sync", "returned"}
    BY <1>3
  <2>2. last' \in [operation : {"none", "session.start", "inventory", "worker.start", "event",
                                "worker.end", "broken.end", "session.end",
                                "session.interrupted"},
                   worker : 0..Workers]
    <3>1. main = "report" => worker \in 0..Workers
      BY <1>2 DEF Inv, TypeOK, CaptureTypes
    <3> QED BY <1>3, <3>1 DEF Inv, TypeOK, CaptureTypes
  <2>3. main' \in {"spawn", "report", "sync"} => worker <= Workers
    BY <1>3 DEF Inv, TypeOK, CaptureTypes
  <2>4. UNCHANGED <<connection, captured, targets, worker>>
    OBVIOUS
  <2> QED BY <1>1, <2>1, <2>2, <2>3, <2>4 DEF Inv, TypeOK, CaptureTypes
<1>11. OneWriter' /\ Recording' /\ OnePress' /\ TargetsInOrder'
  <2>1. main = "wait" /\ main' # "wait" => step = "gone" /\ writing = {}
    BY <1>3 DEF Inv, Recording
  <2>2. UNCHANGED <<step, phase, writing, targets, interrupt>>
    OBVIOUS
  <2>3. OneWriter'
    BY <1>2, <2>1, <2>2 DEF Inv, OneWriter
  <2> QED BY <1>1, <2>2, <2>3 DEF Inv, Recording, OnePress, Pressed, TargetsInOrder
<1>7. FileFollows'
  <2>1. last \in [operation : {"none", "session.start", "inventory", "worker.start", "event",
                               "worker.end", "broken.end", "session.end",
                               "session.interrupted"},
                  worker : 0..Workers]
    BY DEF Inv, TypeOK, CaptureTypes
  <2> QED BY <1>1, <1>2, <1>3, <2>1 DEF Inv, FileFollows, Between
<1>8. Primers'
  BY <1>1, <1>2, <1>3 DEF Inv, Primers, TargetOf, Workers, FileFollows, BeforeGetInfo
<1>9. Measured'
  <2>1. main' \in {"wait", "report", "sync"} => main \in {"wait", "report", "sync"}
    BY <1>3
  <2>2. UNCHANGED <<workerErr, interrupt, recorded, failed, step>>
    OBVIOUS
  <2>3. torn' \/ (main' = "sync" /\ last'.operation = "broken.end") =>
           torn /\ main \in {"wait", "report", "returned"}
    BY <1>3, <1>13 DEF Inv, Forgotten
  <2> QED BY <1>1, <2>1, <2>2, <2>3 DEF Inv, Measured, Behind, Pressed
<1>12. Forgotten'
  <2>1. main \in {"wait", "report", "sync", "returned"} =>
           main' \in {"wait", "report", "sync", "returned"}
    BY <1>3
  <2>2. torn' => torn /\ main' \in {"wait", "report", "returned"}
    BY <1>3, <1>13 DEF Inv, Forgotten
  <2>3. UNCHANGED <<recorded, failed, step>>
    OBVIOUS
  <2> QED BY <2>1, <2>2, <2>3 DEF Inv, Forgotten
<1>10. LinesTaken' /\ CapturesMatchLines'
  BY <1>3, LinesKept DEF Inv
<1> QED BY <1>4, <1>5, <1>6, <1>7, <1>8, <1>9, <1>10, <1>11, <1>12 DEF Inv, TypeOK

LEMMA SpawnInv == ASSUME Inv, Spawn PROVE Inv'
<1> USE DEF userVars, captureVars
<1>1. /\ main = "spawn" /\ step = "gone" /\ writing = {}
      /\ recorded = {} /\ failed = {} /\ ~torn
  BY DEF Spawn, Inv, OneWriter, Forgotten
<1>2. /\ UNCHANGED <<userVars, interrupt, captureVars, expired, last, writing,
                     failed, recorded, torn, primed>>
      /\ \/ main' = "wait" /\ step' = "start" /\ phase' = "record" /\ workerErr' = workerErr
         \/ main' = "report" /\ step' = step /\ phase' = phase /\ workerErr' = TRUE
  BY DEF Spawn, GoTo
<1>3. Target' = Target /\ Workers' = Workers
  BY <1>2 DEF Target, TargetOf, Workers
<1>4. UserTypes' /\ CaptureTypes'
  BY <1>1, <1>2, <1>3 DEF Inv, TypeOK, UserTypes, CaptureTypes
<1>5. WorkTypes'
  BY <1>1, <1>2, <1>3, NoOperations DEF Inv, TypeOK, WorkTypes
<1>6. OneWriter' /\ Recording' /\ OnePress' /\ TargetsInOrder'
  BY <1>1, <1>2, FS_EmptySet DEF Inv, OneWriter, Recording, OnePress, Pressed, TargetsInOrder
<1>7. FileFollows'
  BY <1>1, <1>2, <1>3 DEF Inv, FileFollows, Between
<1>8. Primers'
  BY <1>1, <1>2, <1>3 DEF Inv, Primers, TargetOf
<1>9. Measured'
  <2>1. main' = "wait" => Behind' = {} /\ step' \notin Operations
    BY <1>2, NoOperations DEF Behind
  <2> QED BY <1>1, <1>2, <2>1 DEF Measured
<1>10. LinesTaken' /\ CapturesMatchLines' /\ Forgotten'
  BY <1>1, <1>2, LinesKept DEF Inv, Forgotten
<1> QED BY <1>4, <1>5, <1>6, <1>7, <1>8, <1>9, <1>10 DEF Inv, TypeOK

LEMMA SyncInv == ASSUME Inv, Sync PROVE Inv'
<1> USE DEF userVars
<1>1. main = "sync" /\ step = "gone" /\ writing = {} /\ main' = "loop"
  BY DEF Sync, GoTo, Inv, OneWriter
<1>2. /\ worker' = worker + 1
      /\ interrupt' = [interrupt EXCEPT !["worker"] = "no"]
      /\ expired' = FALSE /\ workerErr' = FALSE
      /\ phase' = "call" /\ failed' = {} /\ recorded' = {}
      /\ UNCHANGED <<userVars, connection, targets, captured, last, step, writing, torn,
                     primed>>
  BY DEF Sync
<1>3. /\ Workers' = Workers /\ Workers \in Nat
      /\ worker \in 1..Workers /\ worker' \in 1..(1 + Workers)
  BY <1>1, <1>2, WorkersNat DEF Inv, TypeOK, CaptureTypes, Workers
<1>4. UserTypes'
  BY <1>2 DEF Inv, TypeOK, UserTypes
<1>5. CaptureTypes'
  BY <1>1, <1>2, <1>3 DEF Inv, TypeOK, CaptureTypes
<1>6. WorkTypes'
  BY <1>1, <1>2, NoOperations DEF Inv, TypeOK, WorkTypes
<1>7. OneWriter' /\ Recording' /\ TargetsInOrder'
  BY <1>1, <1>2, FS_EmptySet DEF Inv, OneWriter, Recording, TargetsInOrder
<1>8. OnePress'
  BY <1>2 DEF Inv, TypeOK, UserTypes, OnePress, Processes
<1>9. FileFollows'
  <2>1. /\ last'.operation \in {"worker.end", "broken.end"}
        /\ last'.worker = worker /\ worker = worker' - 1
    BY <1>1, <1>2, <1>3 DEF Inv, FileFollows
  <2> QED BY <1>1, <2>1 DEF FileFollows, Between
<1>10. Primers'
  <2> SUFFICES ASSUME NEW token \in primed
               PROVE  \E w \in 1..worker' :
                         /\ w <= Workers /\ TokenOf[TargetOf(w).endpoint] = token
                         /\ w < worker'
    BY <1>1, <1>2, <1>3 DEF Primers, TargetOf
  <2>1. PICK w \in 1..worker :
           w <= Workers /\ TokenOf[TargetOf(w).endpoint] = token
    BY <1>1 DEF Inv, Primers
  <2>2. w \in 1..worker' /\ w < worker'
    BY <1>2, <1>3
  <2> QED BY <2>1, <2>2
<1>11. Measured' /\ Forgotten'
  BY <1>1, <1>2 DEF Inv, Measured, Forgotten
<1>12. LinesTaken' /\ CapturesMatchLines'
  BY <1>1, <1>2, LinesKept DEF Inv
<1> QED BY <1>4, <1>5, <1>6, <1>7, <1>8, <1>9, <1>10, <1>11, <1>12 DEF Inv, TypeOK

LEMMA ExpireInv == ASSUME Inv, Expire PROVE Inv'
<1> USE DEF Expire, userVars, captureVars, workVars
<1>1. Target' = Target /\ Workers' = Workers
  BY DEF Target, TargetOf, Workers
<1>2. UserTypes' /\ CaptureTypes' /\ WorkTypes'
  BY <1>1 DEF Inv, TypeOK, UserTypes, CaptureTypes, WorkTypes
<1>3. OneWriter' /\ Recording' /\ OnePress' /\ TargetsInOrder'
  BY <1>1 DEF Inv, OneWriter, Recording, OnePress, Pressed, TargetsInOrder
<1>4. FileFollows' /\ Primers'
  BY <1>1 DEF Inv, FileFollows, Between, Primers, TargetOf
<1>5. Measured' /\ Forgotten'
  BY <1>1 DEF Inv, Measured, Behind, Pressed, Forgotten
<1>6. LinesTaken' /\ CapturesMatchLines'
  BY LinesKept DEF Inv
<1> QED BY <1>2, <1>3, <1>4, <1>5, <1>6 DEF Inv, TypeOK

\* A worker without an error has everything behind it.
LEMMA GoneInv ==
    ASSUME Inv, main = "wait", NEW error \in BOOLEAN, WorkerGone(error),
           ~error => step = "exit" /\ (~workerErr \/ Pressed)
    PROVE  Inv'
<1> USE DEF userVars, captureVars
<1>1. /\ UNCHANGED <<userVars, interrupt, main, captureVars, expired, last,
                     phase, failed, recorded, primed>>
      /\ step' = "gone" /\ workerErr' = error /\ writing' = {}
      /\ torn' \in BOOLEAN /\ (torn' => writing # {})
  BY DEF WorkerGone
<1>2. Target' = Target /\ Workers' = Workers /\ Pressed' = Pressed
  BY <1>1 DEF Target, TargetOf, Workers, Pressed
<1>3. UserTypes' /\ CaptureTypes'
  BY <1>1, <1>2 DEF Inv, TypeOK, UserTypes, CaptureTypes
<1>4. WorkTypes'
  BY <1>1, NoOperations DEF Inv, TypeOK, WorkTypes
<1>5. OneWriter' /\ Recording' /\ OnePress' /\ TargetsInOrder'
  BY <1>1, <1>2, FS_EmptySet DEF Inv, OneWriter, Recording, OnePress, TargetsInOrder
<1>6. FileFollows'
  BY <1>1, <1>2 DEF Inv, FileFollows, Between
<1>7. Primers'
  BY <1>1, <1>2 DEF Inv, Primers, TargetOf, BeforeGetInfo
<1>8. Measured'
  <2> SUFFICES ASSUME ~error, ~Pressed
               PROVE  /\ recorded = {o \in Behind' : Needs(o) \cap failed = {}}
                      /\ step' \notin Operations
                      /\ failed \cap Returned = {}
                      /\ torn' => Target.kind = "ctaphid"
    BY <1>1, <1>2 DEF Measured
  <2>1. step = "exit" /\ ~workerErr
    OBVIOUS
  <2>2. /\ recorded = {o \in Behind : Needs(o) \cap failed = {}}
        /\ failed \cap Returned = {}
    BY <2>1 DEF Inv, Measured
  <2>3. Behind' = Behind
    <3>1. worker \in 1..Workers
      BY WorkersNat DEF Inv, TypeOK, CaptureTypes
    <3>2. Target.kind \in Kinds
      BY <3>1, TargetIn DEF Inv, TypeOK, Target, AnyTarget
    <3>3. {"exit", "gone"} \cap Range(Program(Target.kind)) = {}
      BY <3>2, NoOperations, ProgramDistinct
    <3>4. Before(Target.kind, "exit") = Before(Target.kind, "gone")
      BY <3>2, <3>3, BeforeIs
    <3> QED BY <1>1, <1>2, <2>1, <3>4 DEF Behind
  <2>4. torn' => Target.kind = "ctaphid"
    BY <1>1, <2>1, NoOperations DEF Inv, TypeOK, WorkTypes, Recording
  <2> QED BY <1>1, <2>2, <2>3, <2>4, NoOperations
<1>9. LinesTaken' /\ CapturesMatchLines' /\ Forgotten'
  BY <1>1, LinesKept DEF Inv, Forgotten
<1> QED BY <1>3, <1>4, <1>5, <1>6, <1>7, <1>8, <1>9 DEF Inv, TypeOK

LEMMA WorkerEndsInv == ASSUME Inv, Kill \/ RecordFails \/ Exit PROVE Inv'
<1>1. CASE Kill
  BY <1>1, GoneInv DEF Kill
<1>2. CASE RecordFails
  BY <1>2, GoneInv DEF RecordFails, Inv, OneWriter
<1>3. CASE Exit
  <2>1. main = "wait"
    BY <1>3 DEF Exit, Inv, OneWriter
  <2>2. workerErr \in BOOLEAN
    BY DEF Inv, TypeOK, WorkTypes
  <2>3. (workerErr /\ ~Done("worker")) \in BOOLEAN
    BY <2>2
  <2>4. ~(workerErr /\ ~Done("worker")) => ~workerErr \/ Pressed
    BY DEF Inv, OnePress, Done
  <2> QED BY <1>3, <2>1, <2>3, <2>4, GoneInv DEF Exit
<1> QED BY <1>1, <1>2, <1>3

\* The steps of a running worker leave everybody else's variables alone.
Elsewhere == UNCHANGED <<userVars, interrupt, main, captureVars, expired>>

LEMMA WorkerKeeps ==
    ASSUME Inv, Elsewhere, main = "wait"
    PROVE  /\ Target' = Target /\ Workers' = Workers /\ Pressed' = Pressed
           /\ \A w : TargetOf(w)' = TargetOf(w)
           /\ UserTypes' /\ OnePress' /\ TargetsInOrder'
           /\ LinesTaken' /\ CapturesMatchLines'
           /\ worker \in 1..Workers /\ Target \in AnyTarget /\ Target.kind \in Kinds
<1> USE DEF Elsewhere, userVars, captureVars
<1>1. Target' = Target /\ Workers' = Workers /\ Pressed' = Pressed
  BY DEF Target, TargetOf, Workers, Pressed
<1>2. UserTypes' /\ OnePress' /\ TargetsInOrder'
  BY <1>1 DEF Inv, TypeOK, UserTypes, OnePress, TargetsInOrder
<1>3. LinesTaken' /\ CapturesMatchLines'
  BY LinesKept DEF Inv
<1>4. worker \in 1..Workers
  BY WorkersNat DEF Inv, TypeOK, CaptureTypes
<1>5. Target \in AnyTarget
  BY <1>4, TargetIn DEF Inv, TypeOK, Target
<1>6. Target.kind \in Kinds
  BY <1>5 DEF AnyTarget
<1>7. \A w : TargetOf(w)' = TargetOf(w)
  BY DEF TargetOf
<1> QED BY <1>1, <1>2, <1>3, <1>4, <1>5, <1>6, <1>7

\* A record of the worker, or of its reader, or none.
LEMMA FileKept ==
    ASSUME Inv, Elsewhere, main = "wait",
           \/ last' = last
           \/ \E operation \in {"worker.start", "event"} :
                 last' = [operation |-> operation, worker |-> worker]
    PROVE  CaptureTypes' /\ FileFollows'
<1> USE DEF Elsewhere, userVars, captureVars
<1>1. Workers' = Workers /\ worker \in 1..Workers /\ Workers \in Nat
  BY WorkerKeeps, WorkersNat DEF Inv, TypeOK
<1>2. worker \in 0..Workers
  BY <1>1
<1>3. CaptureTypes'
  BY <1>1, <1>2 DEF Inv, TypeOK, CaptureTypes
<1>4. FileFollows'
  BY <1>1 DEF Inv, FileFollows, Between
<1> QED BY <1>3, <1>4

\* A step that primes nothing, and does not go back before the first GetInfo.
LEMMA PrimersKept ==
    ASSUME Inv, Elsewhere, main = "wait", primed' = primed,
           step' \in BeforeGetInfo => step \in BeforeGetInfo
    PROVE  Primers'
<1>1. /\ Workers' = Workers /\ worker' = worker /\ main' = main
      /\ \A w : TargetOf(w)' = TargetOf(w)
  BY WorkerKeeps DEF Elsewhere, captureVars
<1> SUFFICES ASSUME NEW token \in primed
             PROVE  \E w \in 1..worker :
                       /\ w <= Workers /\ TokenOf[TargetOf(w).endpoint] = token
                       /\ step' \in BeforeGetInfo => w < worker
  BY <1>1 DEF Primers
<1> QED BY DEF Inv, Primers

\* While a worker runs the file has no torn record.
LEMMA NothingTorn ==
    ASSUME Inv, Elsewhere, main = "wait", step # "gone", torn' = torn
    PROVE  Forgotten'
BY DEF Inv, Forgotten, Elsewhere

LEMMA BeginRecordInv == ASSUME Inv, BeginRecord, Elsewhere PROVE Inv'
<1>1. /\ step \in Operations \cup {"start"} /\ phase # "call" /\ writing = {}
      /\ writing' = {"worker"}
      /\ UNCHANGED <<last, step, workerErr, phase, failed, recorded, torn, primed>>
  BY DEF BeginRecord, Locked, workVars
<1>2. main = "wait" /\ step # "gone"
  BY <1>1, NoOperations DEF Inv, OneWriter
<1>3. /\ Target' = Target /\ Pressed' = Pressed
      /\ UNCHANGED <<main, expired, worker>>
  BY <1>2, WorkerKeeps DEF Elsewhere, captureVars
<1>4. WorkTypes'
  BY <1>1, <1>3 DEF Inv, TypeOK, WorkTypes
<1>5. OneWriter' /\ Recording'
  <2>1. OneWriter'
    BY <1>1, <1>2, <1>3, FS_Singleton DEF OneWriter
  <2>2. Recording'
    BY <1>1, <1>2, <1>3 DEF Inv, Recording
  <2> QED BY <2>1, <2>2
<1>6. Measured'
  BY <1>1, <1>2, <1>3 DEF Inv, Measured, Behind
<1> QED BY <1>1, <1>2, <1>4, <1>5, <1>6, WorkerKeeps, FileKept, PrimersKept,
        NothingTorn DEF Inv, TypeOK

LEMMA ReaderBeginsInv == ASSUME Inv, ReaderBeginsRecord, Elsewhere PROVE Inv'
<1>1. /\ step \in {"init", "atr", "get-info", "close", "exit"} /\ Target.kind = "ctaphid"
      /\ writing = {} /\ writing' = {"reader"}
      /\ UNCHANGED <<last, step, workerErr, phase, failed, recorded, torn, primed>>
  BY DEF ReaderBeginsRecord, Locked, workVars
<1>2. main = "wait" /\ step # "gone"
  BY <1>1 DEF Inv, OneWriter
<1>3. /\ Target' = Target /\ Pressed' = Pressed
      /\ UNCHANGED <<main, expired, worker>>
  BY <1>2, WorkerKeeps DEF Elsewhere, captureVars
<1>4. WorkTypes'
  BY <1>1, <1>3 DEF Inv, TypeOK, WorkTypes
<1>5. OneWriter' /\ Recording'
  <2>1. OneWriter'
    BY <1>1, <1>2, <1>3, FS_Singleton DEF OneWriter
  <2>2. Recording'
    BY <1>1, <1>2, <1>3 DEF Inv, Recording
  <2> QED BY <2>1, <2>2
<1>6. Measured'
  BY <1>1, <1>2, <1>3 DEF Inv, Measured, Behind
<1> QED BY <1>1, <1>2, <1>4, <1>5, <1>6, WorkerKeeps, FileKept, PrimersKept,
        NothingTorn DEF Inv, TypeOK

LEMMA ReaderEndsInv == ASSUME Inv, ReaderEndsRecord, Elsewhere PROVE Inv'
<1>1. /\ "reader" \in writing /\ writing' = writing \ {"reader"}
      /\ last' = [operation |-> "event", worker |-> worker]
      /\ UNCHANGED <<step, workerErr, phase, failed, recorded, torn, primed>>
  BY DEF ReaderEndsRecord, Write, workVars
<1>2. main = "wait" /\ step # "gone"
  BY <1>1 DEF Inv, OneWriter, Recording
<1>3. /\ Target' = Target /\ Pressed' = Pressed
      /\ UNCHANGED <<main, expired, worker>>
  BY <1>2, WorkerKeeps DEF Elsewhere, captureVars
<1>4. WorkTypes'
  BY <1>1, <1>3 DEF Inv, TypeOK, WorkTypes
<1>5. OneWriter' /\ Recording'
  <2>1. writing \subseteq {"worker", "reader"}
    BY DEF Inv, TypeOK, WorkTypes
  <2>2. Cardinality(writing') <= 1
    <3>1. writing' \subseteq {"worker"}
      BY <1>1, <2>1
    <3>2. IsFiniteSet({"worker"}) /\ Cardinality({"worker"}) = 1
      BY FS_Singleton
    <3> QED BY <3>1, <3>2, FS_Subset
  <2> QED BY <1>1, <1>2, <1>3, <2>2 DEF Inv, OneWriter, Recording
<1>6. Measured'
  BY <1>1, <1>2, <1>3 DEF Inv, Measured, Behind
<1> QED BY <1>1, <1>2, <1>4, <1>5, <1>6, WorkerKeeps, FileKept, PrimersKept,
        NothingTorn DEF Inv, TypeOK

LEMMA SkipInv == ASSUME Inv, Skip, Elsewhere PROVE Inv'
<1>1. /\ step \in Commands /\ "worker" \notin writing
      /\ failed' = failed \cup ({step} \cap Decisive)
      /\ step' = After(Target.kind, step, step \notin Decisive)
      /\ phase' \in {"announce", "call"}
      /\ UNCHANGED <<last, workerErr, recorded, writing, torn, primed>>
  BY DEF Skip, Enter
<1>2. step \in Operations
  <2>1. Range(PcscSteps) \subseteq Operations /\ Range(FeatureSteps) \subseteq Operations
    BY ProgramIs DEF Operations, Kinds
  <2> QED BY <1>1, <2>1, PcscOperations, FeatureOperations DEF Commands
<1>3. main = "wait" /\ step # "gone"
  BY <1>2, NoOperations DEF Inv, OneWriter
<1>4. /\ Target' = Target /\ Pressed' = Pressed /\ Target.kind \in Kinds
      /\ UNCHANGED <<main, expired, worker, interrupt>>
  BY <1>3, WorkerKeeps DEF Elsewhere, captureVars
<1>5. step \in Range(Program(Target.kind))
  BY <1>2 DEF Inv, TypeOK, WorkTypes
<1>6. /\ step' \in Range(Program(Target.kind)) \cup {"exit"}
      /\ step' \in BeforeGetInfo => step \in BeforeGetInfo
  <2>1. (step \notin Decisive) \in BOOLEAN
    OBVIOUS
  <2> QED BY <1>1, <1>4, <1>5, <2>1, AfterIn
<1>7. step' \in Operations \cup {"exit"} /\ step' \notin {"start", "gone"}
  BY <1>4, <1>6, NoOperations, ProgramDistinct
<1>8. WorkTypes'
  BY <1>1, <1>4, <1>6, <1>7, NoOperations DEF Inv, TypeOK, WorkTypes
<1>9. OneWriter' /\ Recording'
  BY <1>1, <1>3, <1>4, <1>7 DEF Inv, OneWriter, Recording
<1>10. Measured'
  <2>1. Pressed
    BY DEF Skip, Inv, OnePress, Done
  <2> QED BY <1>4, <2>1 DEF Measured
<1> QED BY <1>1, <1>3, <1>6, <1>8, <1>9, <1>10, WorkerKeeps, FileKept, PrimersKept,
        NothingTorn DEF Inv, TypeOK

\* The only operations that may fail without a worker error are the SELECTs, which
\* nothing behind them needs.
LEMMA CalledMeasured ==
    ASSUME NEW kind \in Kinds, NEW operation \in Range(Program(kind)),
           operation \in Decisive, operation \notin Returned
    PROVE  /\ kind = "pcsc" /\ operation \in {"otp.select", "fido.select"}
           /\ Needs(operation) = {}
           /\ \A o \in Before(kind, operation) : operation \notin Needs(o)
<1>1. operation \in {"otp.select", "fido.select"}
  BY DEF Decisive, Returned
<1>2. kind = "pcsc"
  BY <1>1, OperationsOf
<1>3. Needs(operation) = {}
  BY <1>1 DEF Needs, OtpSteps, FidoSteps
<1>4. CASE operation = "otp.select"
  BY <1>2, <1>3, <1>4, BeforeApplets DEF Needs, OtpSteps, FidoSteps
<1>5. CASE operation = "fido.select"
  <2>1. \A o \in {"open", "begin", "status", "otp.select"} \cup OtpSteps :
           Needs(o) \subseteq {"otp.select"}
    BY DEF Needs, OtpSteps, FidoSteps
  <2> QED BY <1>2, <1>3, <1>5, <2>1, BeforeApplets
<1> QED BY <1>1, <1>2, <1>3, <1>4, <1>5

LEMMA CallInv == ASSUME Inv, Call, Elsewhere PROVE Inv'
<1>1. PICK ok \in BOOLEAN :
         /\ failed' = IF ok THEN failed ELSE failed \cup ({step} \cap Decisive)
         /\ workerErr' = (workerErr \/ (~ok /\ step \in Returned))
  BY DEF Call
<1>2. /\ step \in Operations /\ phase = "call" /\ phase' = "record"
      /\ primed' = IF step \in GetInfos THEN primed \cup {TokenOf[Target.endpoint]}
                   ELSE primed
      /\ UNCHANGED <<last, step, recorded, writing, torn>>
  BY DEF Call
<1>3. main = "wait" /\ step \notin {"start", "exit", "gone"}
  BY <1>2, NoOperations DEF Inv, OneWriter
<1>4. /\ Target' = Target /\ Pressed' = Pressed /\ Target.kind \in Kinds
      /\ Workers' = Workers /\ worker \in 1..Workers
      /\ \A w : TargetOf(w)' = TargetOf(w)
      /\ UNCHANGED <<main, expired, worker, interrupt>>
  BY <1>3, WorkerKeeps DEF Elsewhere, captureVars
<1>5. step \in Range(Program(Target.kind))
  BY <1>2 DEF Inv, TypeOK, WorkTypes
<1>6. TokenOf[Target.endpoint] \in Range(TokenOf)
  BY <1>4, TargetIn DEF Inv, TypeOK, Target
<1>7. WorkTypes'
  <2>1. workerErr' \in BOOLEAN
    BY <1>1 DEF Inv, TypeOK, WorkTypes
  <2>2. failed' \subseteq Decisive /\ primed' \subseteq Range(TokenOf)
    BY <1>1, <1>2, <1>6 DEF Inv, TypeOK, WorkTypes
  <2> QED BY <1>2, <1>4, <2>1, <2>2 DEF Inv, TypeOK, WorkTypes
<1>8. OneWriter' /\ Recording'
  BY <1>2, <1>3, <1>4 DEF Inv, OneWriter, Recording
<1>9. Primers'
  <2>1. CASE step \notin GetInfos
    BY <1>2, <1>3, <2>1, PrimersKept
  <2>2. CASE step \in GetInfos
    <3>1. step' \notin BeforeGetInfo
      BY <1>2, <2>2 DEF GetInfos, BeforeGetInfo
    <3> SUFFICES ASSUME NEW token \in primed'
                 PROVE  \E w \in 1..worker :
                           w <= Workers /\ TokenOf[TargetOf(w).endpoint] = token
      BY <1>3, <1>4, <3>1 DEF Primers
    <3>2. CASE token \in primed
      BY <1>3, <3>2 DEF Inv, Primers
    <3>3. CASE token = TokenOf[Target.endpoint]
      <4>1. worker \in 1..worker /\ worker <= Workers
        BY <1>4
      <4> QED BY <3>3, <4>1 DEF Target
    <3> QED BY <1>2, <2>2, <3>2, <3>3
  <2> QED BY <2>1, <2>2
<1>10. Measured'
  <2> SUFFICES ASSUME ~workerErr', ~Pressed'
               PROVE  /\ recorded' = {o \in Behind' : Needs(o) \cap failed' = {}}
                      /\ step' \in Operations => Needs(step') \cap failed' = {}
                      /\ failed' \cap Returned = {}
                      /\ torn' => Target'.kind = "ctaphid"
    BY <1>3, <1>4 DEF Measured
  <2>1. ~workerErr /\ ~Pressed /\ (ok \/ step \notin Returned)
    BY <1>1, <1>4
  <2>2. /\ recorded = {o \in Behind : Needs(o) \cap failed = {}}
        /\ Needs(step) \cap failed = {} /\ failed \cap Returned = {}
        /\ torn => Target.kind = "ctaphid"
    BY <1>2, <1>3, <2>1 DEF Inv, Measured
  <2>3. Behind' = Behind /\ Behind = Before(Target.kind, step)
    BY <1>2, <1>3, <1>4 DEF Behind
  <2>4. CASE failed' = failed
    BY <1>2, <1>4, <2>2, <2>3, <2>4
  <2>5. CASE failed' # failed
    <3>1. step \in Decisive /\ step \notin Returned /\ failed' = failed \cup {step}
      BY <1>1, <2>1, <2>5
    <3>2. Needs(step) = {} /\ \A o \in Before(Target.kind, step) : step \notin Needs(o)
      BY <1>4, <1>5, <3>1, CalledMeasured
    <3>3. \A o \in Behind : Needs(o) \cap failed' = {} <=> Needs(o) \cap failed = {}
      BY <2>3, <3>1, <3>2
    <3>4. {o \in Behind : Needs(o) \cap failed' = {}} = {o \in Behind : Needs(o) \cap failed = {}}
      BY <3>3
    <3> QED BY <1>2, <1>4, <2>2, <2>3, <3>1, <3>2, <3>4
  <2> QED BY <2>4, <2>5
<1> QED BY <1>2, <1>3, <1>7, <1>8, <1>9, <1>10, WorkerKeeps, FileKept,
        NothingTorn DEF Inv, TypeOK

\* A record is what makes an operation one of those behind.
LEMMA RecordedMeasured ==
    ASSUME NEW kind \in Kinds, NEW operation \in Range(Program(kind)), NEW fails,
           fails \subseteq Decisive, fails \cap Returned = {},
           Needs(operation) \cap fails = {}
    PROVE  LET next == After(kind, operation, operation \notin fails)
           IN  /\ {o \in Before(kind, next) : Needs(o) \cap fails = {}} =
                     {o \in Before(kind, operation) : Needs(o) \cap fails = {}} \cup {operation}
               /\ Needs(next) \cap fails = {}
<1> DEFINE next == After(kind, operation, operation \notin fails)
<1>1. CASE operation \notin fails
  <2>1. next = Successor(kind, operation)
    BY <1>1 DEF After
  <2>2. /\ Before(kind, next) = Before(kind, operation) \cup {operation}
        /\ Needs(next) \subseteq Needs(operation) \cup {operation}
    BY <2>1, SuccessorBefore, SuccessorNeeds
  <2> HIDE DEF next
  <2>3. Needs(next) \cap fails = {}
    BY <1>1, <2>2
  <2>4. {o \in Before(kind, next) : Needs(o) \cap fails = {}} =
           {o \in Before(kind, operation) : Needs(o) \cap fails = {}} \cup {operation}
    BY <2>2
  <2> QED BY <2>3, <2>4 DEF next
<1>2. CASE operation \in fails
  <2>1. /\ operation \in Decisive /\ operation \notin Returned
    BY <1>2
  <2>2. /\ kind = "pcsc" /\ operation \in {"otp.select", "fido.select"}
        /\ Needs(operation) = {}
    BY <2>1, CalledMeasured
  <2>3. CASE operation = "otp.select"
    <3>1. next = "fido.select"
      BY <1>2, <2>3 DEF After
    <3>2. Before(kind, next) = Before(kind, operation) \cup {operation} \cup OtpSteps
      BY <2>2, <2>3, <3>1, BeforeApplets
    <3>3. \A o \in OtpSteps : Needs(o) \cap fails # {}
      BY <1>2, <2>3 DEF Needs, OtpSteps, FidoSteps
    <3>4. Needs(next) = {}
      BY <3>1 DEF Needs, OtpSteps, FidoSteps
    <3> HIDE DEF next
    <3>5. {o \in Before(kind, next) : Needs(o) \cap fails = {}} =
             {o \in Before(kind, operation) : Needs(o) \cap fails = {}} \cup {operation}
      BY <2>2, <3>2, <3>3
    <3> QED BY <3>4, <3>5 DEF next
  <2>4. CASE operation = "fido.select"
    <3>1. next = "warm"
      BY <1>2, <2>4 DEF After
    <3>2. Before(kind, next) = Before(kind, operation) \cup {operation} \cup FidoSteps
      BY <2>2, <2>4, <3>1, BeforeApplets
    <3>3. \A o \in FidoSteps : Needs(o) \cap fails # {}
      BY <1>2, <2>4 DEF Needs, OtpSteps, FidoSteps
    <3>4. Needs(next) = {}
      BY <3>1 DEF Needs, OtpSteps, FidoSteps
    <3> HIDE DEF next
    <3>5. {o \in Before(kind, next) : Needs(o) \cap fails = {}} =
             {o \in Before(kind, operation) : Needs(o) \cap fails = {}} \cup {operation}
      BY <2>2, <3>2, <3>3
    <3> QED BY <3>4, <3>5 DEF next
  <2> QED BY <2>2, <2>3, <2>4
<1> QED BY <1>1, <1>2

LEMMA EndRecordInv == ASSUME Inv, EndRecord, Elsewhere PROVE Inv'
<1>1. /\ "worker" \in writing /\ writing' = writing \ {"worker"}
      /\ last' = [operation |-> IF step = "start" THEN "worker.start" ELSE "event",
                  worker    |-> worker]
      /\ UNCHANGED <<workerErr, failed, torn, primed>>
  BY DEF EndRecord, Write
<1>2. /\ step \in Operations \cup {"start"} /\ step \notin {"exit", "gone"}
      /\ main = "wait"
  BY <1>1, NoOperations DEF Inv, OneWriter, Recording
<1>3. /\ Target' = Target /\ Pressed' = Pressed /\ Target.kind \in Kinds
      /\ UNCHANGED <<main, expired, worker, interrupt>>
  BY <1>2, WorkerKeeps DEF Elsewhere, captureVars
<1>4. step # "start" => step \in Range(Program(Target.kind))
  BY <1>2 DEF Inv, TypeOK, WorkTypes
<1>5. \/ /\ phase' = "call" /\ step' = step /\ recorded' = recorded /\ step # "start"
      \/ /\ phase' \in {"announce", "call"} /\ step = "start" /\ recorded' = recorded
         /\ step' = Head(Program(Target.kind))
      \/ /\ phase' \in {"announce", "call"} /\ step # "start"
         /\ step' = After(Target.kind, step, step \notin failed)
         /\ recorded' = IF Pressed THEN {} ELSE recorded \cup {step}
  BY DEF EndRecord, Enter, Inv, Recording
<1>6. /\ step' \in Range(Program(Target.kind)) \cup {"exit"}
      /\ step' \in BeforeGetInfo => step \in BeforeGetInfo
  <2>1. step # "start" =>
           /\ After(Target.kind, step, step \notin failed) \in Range(Program(Target.kind)) \cup {"exit"}
           /\ After(Target.kind, step, step \notin failed) \in BeforeGetInfo =>
                 step \in BeforeGetInfo
    <3>1. (step \notin failed) \in BOOLEAN /\ (step \notin failed \/ step \in Decisive)
      BY DEF Inv, TypeOK, WorkTypes
    <3> QED BY <1>3, <1>4, <3>1, AfterIn
  <2>2. Head(Program(Target.kind)) \in Range(Program(Target.kind))
    BY <1>3, FirstOperation
  <2>3. "start" \in BeforeGetInfo
    BY DEF BeforeGetInfo
  <2> QED BY <1>4, <1>5, <2>1, <2>2, <2>3
<1>7. step' \in Operations \cup {"exit"} /\ step' \notin {"start", "gone"}
  BY <1>3, <1>6, NoOperations, ProgramDistinct
<1>8. WorkTypes'
  <2>1. recorded' \subseteq Operations
    BY <1>2, <1>5 DEF Inv, TypeOK, WorkTypes
  <2>2. step' \in Operations => step' \in Range(Program(Target'.kind))
    BY <1>3, <1>6, NoOperations
  <2>3. phase' \in {"announce", "call", "record"}
    BY <1>5
  <2> QED BY <1>1, <1>3, <1>7, <2>1, <2>2, <2>3 DEF Inv, TypeOK, WorkTypes
<1>9. OneWriter' /\ Recording'
  <2>1. writing \subseteq {"worker", "reader"}
    BY DEF Inv, TypeOK, WorkTypes
  <2>2. Cardinality(writing') <= 1
    <3>1. writing' \subseteq {"reader"}
      BY <1>1, <2>1
    <3>2. IsFiniteSet({"reader"}) /\ Cardinality({"reader"}) = 1
      BY FS_Singleton
    <3> QED BY <3>1, <3>2, FS_Subset
  <2>3. OneWriter'
    BY <1>2, <1>3, <2>2 DEF OneWriter
  <2>4. Recording'
    BY <1>1, <1>3, <1>7 DEF Inv, Recording
  <2> QED BY <2>3, <2>4
<1>10. Measured'
  <2> SUFFICES ASSUME ~workerErr, ~Pressed
               PROVE  /\ recorded' = {o \in Behind' : Needs(o) \cap failed = {}}
                      /\ Needs(step') \cap failed = {}
                      /\ failed \cap Returned = {}
                      /\ torn => Target.kind = "ctaphid"
    BY <1>1, <1>2, <1>3 DEF Measured
  <2>1. /\ recorded = {o \in Behind : Needs(o) \cap failed = {}}
        /\ step \in Operations => Needs(step) \cap failed = {}
        /\ failed \cap Returned = {}
        /\ torn => Target.kind = "ctaphid"
    BY <1>2 DEF Inv, Measured
  <2>2. Behind' = Before(Target.kind, step')
    BY <1>3, <1>7 DEF Behind
  <2>3. /\ recorded' = {o \in Before(Target.kind, step') : Needs(o) \cap failed = {}}
        /\ Needs(step') \cap failed = {}
    <3>1. CASE step' = step /\ recorded' = recorded /\ step # "start"
      BY <1>2, <2>1, <3>1 DEF Behind
    <3>2. CASE step = "start" /\ recorded' = recorded /\ step' = Head(Program(Target.kind))
      <4>1. Before(Target.kind, step') = {} /\ Needs(step') = {}
        BY <1>3, <3>2, FirstOperation
      <4>2. recorded = {}
        BY <2>1, <3>2 DEF Behind
      <4> QED BY <3>2, <4>1, <4>2
    <3>3. CASE /\ step # "start" /\ step' = After(Target.kind, step, step \notin failed)
               /\ recorded' = recorded \cup {step}
      <4>1. /\ step \in Range(Program(Target.kind)) /\ failed \subseteq Decisive
            /\ Needs(step) \cap failed = {} /\ Behind = Before(Target.kind, step)
        BY <1>2, <1>4, <2>1, <3>3 DEF Inv, TypeOK, WorkTypes, Behind
      <4>2. /\ {o \in Before(Target.kind, step') : Needs(o) \cap failed = {}} =
                  {o \in Before(Target.kind, step) : Needs(o) \cap failed = {}} \cup {step}
            /\ Needs(step') \cap failed = {}
        BY <1>3, <2>1, <3>3, <4>1, RecordedMeasured
      <4> QED BY <2>1, <3>3, <4>1, <4>2
    <3> QED BY <1>5, <3>1, <3>2, <3>3
  <2> QED BY <2>1, <2>2, <2>3
<1> QED BY <1>1, <1>2, <1>6, <1>8, <1>9, <1>10, WorkerKeeps, FileKept, PrimersKept,
        NothingTorn DEF Inv, TypeOK

-----------------------------------------------------------------------------
\* The invariant.

LEMMA NextInv == Inv /\ [Next]_vars => Inv'
<1> SUFFICES ASSUME Inv, [Next]_vars PROVE Inv'
  OBVIOUS
<1>1. CASE TerminalStep
  BY <1>1, TypedInv, ScannedInv DEF TerminalStep
<1>2. CASE Press
  BY <1>2, PressInv
<1>3. CASE \E process \in Processes : Notice(process)
  BY <1>3, NoticeInv
<1>4. CASE ParentStep
  <2>1. CASE Prompt \/ Create \/ Inventory \/ Spawn \/ Sync
    BY <2>1, PromptInv, CreateInv, InventoryInv, SpawnInv, SyncInv
  <2>2. CASE Report
    BY <2>2, OnlyParentInv DEF Report, OnlyPlace
  <2>3. CASE (FindExecutable \/ Loop \/ Wait \/ Finish) /\ OnlyParent
    BY <2>3, OnlyParentInv DEF OnlyParent, OnlyPlace, workVars
  <2> QED BY <1>4, <2>1, <2>2, <2>3 DEF ParentStep
<1>5. CASE GiveUp /\ OnlyParent
  BY <1>5, OnlyParentInv DEF OnlyParent, OnlyPlace, workVars
<1>6. CASE Expire
  BY <1>6, ExpireInv
<1>7. CASE Kill \/ RecordFails \/ Exit
  BY <1>7, WorkerEndsInv
<1>8. CASE WorkerStep
  BY <1>8, CallInv, SkipInv, BeginRecordInv, EndRecordInv, ReaderBeginsInv, ReaderEndsInv,
     WorkerEndsInv DEF WorkerStep, Elsewhere
<1>9. CASE UNCHANGED vars
  <2>1. /\ UNCHANGED <<mode, interrupt, main, captureVars, expired, last, step,
                       workerErr, writing, workVars>>
        /\ UNCHANGED <<userVars>>
    BY <1>9 DEF vars, userVars, captureVars, workVars
  <2>2. UserTypes'
    BY <2>1 DEF userVars, Inv, TypeOK, UserTypes
  <2>3. LinesTaken' /\ CapturesMatchLines'
    BY <2>1, LinesKept DEF userVars, captureVars, Inv
  <2> QED BY <2>1, <2>2, <2>3, TerminalKeeps
<1> QED BY <1>1, <1>2, <1>3, <1>4, <1>5, <1>6, <1>7, <1>8, <1>9 DEF Next

\* The inductive invariant: where parent, worker and file are together, who primed
\* which token, what a worker has recorded and which lines were taken.
THEOREM CaptureInvariance == Spec => []Inv
BY InitInv, NextInv, PTL DEF Spec

\* Every variable of the probe has its type: workers, records and operations
\* belong to the targets of the capture.
THEOREM CaptureTypeCorrect == Spec => []TypeOK
BY CaptureInvariance, PTL DEF Inv

-----------------------------------------------------------------------------
\* The properties.

\* The recorder's mutex and the parent's Wait: whatever is killed or fails, one
\* of parent, worker and transport reader writes to the capture file at a time.
THEOREM CaptureOneWriter == Spec => []OneWriter
BY CaptureInvariance, PTL DEF Inv

LEMMA InvUnprimed == Inv => UnprimedFirst
<1> SUFFICES ASSUME Inv, step = "otp.serial.initial", Attempt = 1,
                    TokenOf[Target.endpoint] \in primed
             PROVE  FALSE
  BY DEF UnprimedFirst
<1>1. main = "wait"
  BY DEF Inv, OneWriter
<1>2. worker \in 1..Workers /\ Workers \in Nat
  BY <1>1, WorkersNat DEF Inv, TypeOK, CaptureTypes
<1>3. Target \in AnyTarget
  BY <1>2, TargetIn DEF Inv, TypeOK, Target
<1>4. Target.kind = "pcsc"
  <2>1. step \in Operations
    BY ProgramIs, PcscOperations DEF Operations, Kinds, OtpSteps
  <2>2. step \in Range(Program(Target.kind))
    BY <2>1 DEF Inv, TypeOK, WorkTypes
  <2>3. Target.kind \in Kinds
    BY <1>3 DEF AnyTarget
  <2> QED BY <2>2, <2>3, OperationsOf DEF OtpSteps
<1>5. PICK w \in 1..worker : /\ w <= Workers /\ w < worker
                             /\ TokenOf[TargetOf(w).endpoint] = TokenOf[Target.endpoint]
  BY <1>1 DEF Inv, Primers, BeforeGetInfo
<1> DEFINE x == w - 1
           y == worker - 1
           i == 1 + (x \div Repeat)
           j == 1 + (y \div Repeat)
<1>6. /\ x \in Nat /\ y \in Nat /\ x < y /\ w \in 1..Workers
      /\ Repeat \in Nat \ {0}
  BY <1>2, <1>5, ConstantsAssumption DEF ConstantsAssumption
<1>7. y % Repeat = 0
  <2>1. y % Repeat \in 0..(Repeat - 1)
    BY <1>6, Division
  <2>2. 1 + (y % Repeat) = 1
    BY DEF Attempt
  <2> QED BY <2>1, <2>2
<1>8. (x \div Repeat) < (y \div Repeat)
  BY <1>6, <1>7, LaterBlock
<1>9. i \in 1..Len(targets) /\ j \in 1..Len(targets)
  BY <1>2, <1>6, TargetIn DEF Inv, TypeOK
<1>10. targets[i] = TargetOf(w) /\ targets[j] = Target
  BY DEF TargetOf, Target
<1> HIDE DEF i, j
<1>11. i < j /\ i \in 1..(j - 1)
  <2>1. (x \div Repeat) \in Int /\ (y \div Repeat) \in Int
    BY <1>6, Division
  <2>2. i < j
    BY <1>8, <2>1 DEF i, j
  <2>3. Len(targets) \in Nat
    BY LenProperties DEF Inv, TypeOK, CaptureTypes
  <2> QED BY <1>9, <2>2, <2>3
<1>12. /\ targets[j].endpoint \in Readers /\ targets[i].kind = "pcsc"
       /\ targets[i].endpoint # targets[j].endpoint
  BY <1>4, <1>9, <1>10, <1>11 DEF Inv, TargetsInOrder
<1>13. targets[i].endpoint \in Readers
  BY <1>9, <1>12 DEF Inv, TargetsInOrder
<1>14. TokenOf[targets[i].endpoint] # TokenOf[targets[j].endpoint]
  BY <1>12, <1>13, ConstantsAssumption DEF ConstantsAssumption
<1> QED BY <1>5, <1>10, <1>14

\* Readers come first, and a token has one of them: what a capture reads as the
\* initial serial number of a token was read before any GetInfo to that token.
THEOREM InitialSerialUnprimed == Spec => []UnprimedFirst
BY CaptureInvariance, InvUnprimed, PTL

LEMMA InvComplete == Inv => CleanEndComplete
<1> SUFFICES ASSUME Inv, main = "sync", ~workerErr, ~Pressed
             PROVE  /\ recorded = {o \in Range(Program(Target.kind)) :
                                        Needs(o) \cap failed = {}}
                    /\ last.operation = "broken.end" => Target.kind = "ctaphid"
  BY DEF CleanEndComplete
<1>1. step = "gone"
  BY DEF Inv, OneWriter
<1>2. Target.kind \in Kinds
  BY WorkersNat, TargetIn DEF Inv, TypeOK, CaptureTypes, Target, AnyTarget
<1>3. "gone" \notin Range(Program(Target.kind))
  BY <1>2, ProgramDistinct, NoOperations
<1>4. Behind = Range(Program(Target.kind))
  BY <1>1, <1>2, <1>3, BeforeIs DEF Behind
<1> QED BY <1>4 DEF Inv, Measured

\* A worker.end without an error, and without Ctrl-C, follows the outcomes of all
\* operations of the program whose applet was selected.
THEOREM CleanEndsComplete == Spec => []CleanEndComplete
BY CaptureInvariance, InvComplete, PTL

\* The captures are those of the lines that asked for one, in their order, up to
\* the first q.
THEOREM CapturesMatch == Spec => []CapturesMatchLines
BY CaptureInvariance, PTL DEF Inv

-----------------------------------------------------------------------------
\* The file as a reader sees it.

MaxWorkers == (Cardinality(Readers) + 2 * Cardinality(Paths)) * Repeat

LEMMA PhaseIs ==
    /\ PhaseOf("none") = "none"               /\ PhaseOf("session.start") = "started"
    /\ PhaseOf("inventory") = "between"       /\ PhaseOf("worker.end") = "between"
    /\ PhaseOf("worker.start") = "worker"     /\ PhaseOf("event") = "worker"
    /\ PhaseOf("broken.end") = "broken"       /\ PhaseOf("session.end") = "ended"
    /\ PhaseOf("session.interrupted") = "interrupted"
BY DEF PhaseOf

\* A step that writes nothing, in a capture that stays the same.
LEMMA FileStutters ==
    ASSUME last' = last, targets' = targets \/ last.operation = "none",
           torn' = torn, torn => worker' = worker
    PROVE  UNCHANGED File!vars
BY DEF File!vars, Workers

LEMMA CreateStarts == ASSUME Inv, Create PROVE File!Start
<1>1. /\ last.operation \in {"none", "session.end", "session.interrupted"}
      /\ targets' = <<>> /\ last' = [operation |-> "session.start", worker |-> 0]
      /\ ~torn /\ ~torn'
  BY DEF Create, Inv, FileFollows, Forgotten
<1>2. Workers' = 0
  <2>1. 0 * Repeat = 0
    BY ConstantsAssumption DEF ConstantsAssumption
  <2> QED BY <1>1, <2>1 DEF Workers
<1> QED BY <1>1, <1>2, PhaseIs DEF File!Start

\* There are no more workers than interfaces times repetitions.
LEMMA WorkersBounded ==
    ASSUME NEW n \in Nat, n <= Cardinality(Readers) + 2 * Cardinality(Paths)
    PROVE  n * Repeat \in 0..MaxWorkers
<1> DEFINE m == Cardinality(Readers) + 2 * Cardinality(Paths)
<1>1. m \in Nat /\ Repeat \in Nat /\ n <= m
  BY ConstantsAssumption, FS_CardinalityType DEF ConstantsAssumption
<1>2. MaxWorkers = m * Repeat
  BY DEF MaxWorkers
<1> HIDE DEF m
<1>3. n * Repeat \in Nat /\ m * Repeat \in Nat
  BY <1>1, Products
<1>4. CASE n = m
  BY <1>2, <1>3, <1>4
<1>5. CASE n < m
  <2>1. n * Repeat + Repeat <= m * Repeat
    BY <1>1, <1>5, MultiplesApart
  <2> QED BY <1>1, <1>2, <1>3, <2>1
<1> QED BY <1>1, <1>4, <1>5

LEMMA InventoryFound ==
    ASSUME Inv, Inv', Inventory
    PROVE  File!Inventory \/ UNCHANGED File!vars
<1>1. /\ last = [operation |-> IF mode = "list" THEN "none" ELSE "session.start",
                 worker    |-> 0]
      /\ ~torn /\ torn' = torn
  BY DEF Inventory, Inv, FileFollows, Forgotten, workVars
<1>2. CASE mode = "list"
  BY <1>1, <1>2, FileStutters DEF Inventory
<1>3. CASE mode # "list"
  <2>1. last' = [operation |-> "inventory", worker |-> 0]
    BY <1>1, <1>3 DEF Inventory
  <2>2. Workers' \in 0..MaxWorkers
    <3>1. /\ Len(targets') \in Nat
          /\ Len(targets') <= Cardinality(Readers) + 2 * Cardinality(Paths)
      BY LenProperties DEF Inv, TypeOK, CaptureTypes, TargetsInOrder
    <3> QED BY <3>1, WorkersBounded DEF Workers
  <2> QED BY <1>1, <1>3, <2>1, <2>2, PhaseIs DEF File!Inventory, MaxWorkers
<1> QED BY <1>2, <1>3

\* Whose record comes next while the parent waits, or has waited, for a worker.
LEMMA NextRecord ==
    ASSUME Inv, main \in {"wait", "report"}, ~torn
    PROVE  /\ File!RecordOf(worker)
           /\ last.operation # "none" /\ worker \in 1..Workers
<1>1. worker \in 1..Workers /\ Workers \in Nat
  BY WorkersNat DEF Inv, TypeOK, CaptureTypes
<1>2. CASE Between
  <2>1. /\ PhaseOf(last.operation) \in {"between", "broken"}
        /\ last.operation # "none" /\ last.worker = worker - 1
    BY <1>2, PhaseIs DEF Between
  <2>2. last.worker < Workers /\ worker = last.worker + 1
    BY <1>1, <2>1
  <2> QED BY <1>1, <2>1, <2>2 DEF File!RecordOf, File!Ended
<1>3. CASE last.operation \in {"worker.start", "event"} /\ last.worker = worker
  <2>1. PhaseOf(last.operation) = "worker" /\ last.operation # "none"
    BY <1>3, PhaseIs
  <2> QED BY <1>1, <1>3, <2>1 DEF File!RecordOf
<1> QED BY <1>2, <1>3 DEF Inv, FileFollows

\* A record of the worker, of its reader, or none.
LEMMA WorkerRecords ==
    ASSUME Inv, main = "wait", step # "gone", targets' = targets, torn' = torn,
           \/ last' = last
           \/ \E operation \in {"worker.start", "event"} :
                 last' = [operation |-> operation, worker |-> worker]
    PROVE  File!Record \/ UNCHANGED File!vars
<1>1. ~torn /\ ~torn'
  BY DEF Inv, Forgotten
<1>2. CASE last' = last
  BY <1>1, <1>2, FileStutters
<1>3. ASSUME NEW operation \in {"worker.start", "event"},
             last' = [operation |-> operation, worker |-> worker]
      PROVE  File!Record
  <2>1. File!RecordOf(worker) /\ last.operation # "none" /\ Workers' = Workers
    BY <1>1, NextRecord DEF Workers
  <2>2. /\ last'.operation = operation /\ last'.worker = worker
        /\ PhaseOf(operation) = "worker" /\ operation # "none"
    BY <1>3, PhaseIs
  <2>3. (IF torn' THEN worker' ELSE last'.worker) = worker
    BY <1>1, <2>2
  <2> QED BY <1>1, <2>1, <2>2, <2>3 DEF File!Record
<1> QED BY <1>2, <1>3

\* A worker that ends leaves the file as it is, or with a torn record.
LEMMA WorkerTears ==
    ASSUME Inv, main = "wait", step # "gone", NEW error, WorkerGone(error)
    PROVE  File!Tear \/ UNCHANGED File!vars
<1>1. /\ torn = FALSE /\ torn' \in BOOLEAN
      /\ UNCHANGED <<last, targets, worker>>
  BY DEF Inv, TypeOK, WorkTypes, Forgotten, WorkerGone, captureVars
<1>2. CASE ~torn'
  BY <1>1, <1>2, FileStutters
<1>3. CASE torn'
  <2>1. File!RecordOf(worker) /\ last.operation # "none" /\ Workers' = Workers
    BY <1>1, NextRecord DEF Workers
  <2>2. (IF torn' THEN worker' ELSE last'.worker) = worker
    BY <1>1, <1>3
  <2> QED BY <1>1, <1>3, <2>1, <2>2 DEF File!Tear
<1> QED BY <1>2, <1>3

\* The parent's worker.end is that of the worker, on a line of its own or on that
\* of the torn record.
LEMMA ReportEnds == ASSUME Inv, Report PROVE File!EndWorker \/ File!EndTorn
<1>1. /\ main = "report" /\ UNCHANGED <<targets, worker>> /\ ~torn'
      /\ last' = [operation |-> IF torn THEN "broken.end" ELSE "worker.end",
                  worker    |-> worker]
  BY DEF Report, Write, captureVars
<1>2. Workers' = Workers /\ last'.operation # "none" /\ last'.worker = worker
  BY <1>1 DEF Workers
<1>3. (IF torn' THEN worker' ELSE last'.worker) = worker
  BY <1>1, <1>2
<1>4. CASE ~torn
  <2>1. File!RecordOf(worker) /\ last.operation # "none"
    BY <1>1, <1>4, NextRecord
  <2>2. PhaseOf(last'.operation) = "between"
    BY <1>1, <1>4, PhaseIs
  <2> QED BY <1>1, <1>2, <1>3, <2>1, <2>2 DEF File!EndWorker
<1>5. CASE torn
  <2>1. last.operation # "none"
    BY <1>1 DEF Inv, FileFollows, Between
  <2>2. PhaseOf(last'.operation) = "broken"
    BY <1>1, <1>5, PhaseIs
  <2> QED BY <1>1, <1>2, <1>3, <1>5, <2>1, <2>2 DEF File!EndTorn
<1> QED BY <1>4, <1>5

\* The loops end, or are left at a worker that Ctrl-C came before.
LEMMA SessionEnds ==
    ASSUME Inv, Loop \/ Finish, UNCHANGED <<targets, torn>>
    PROVE  File!EndSession \/ UNCHANGED File!vars
<1>1. worker \in 1..(1 + Workers) /\ Workers \in Nat /\ Workers' = Workers
  BY WorkersNat DEF Inv, TypeOK, Workers
<1>2. main \in {"loop", "finish"}
  BY DEF Loop, Finish
<1>3. /\ last.operation \in {"inventory", "worker.end", "broken.end"}
      /\ last.worker = worker - 1 /\ ~torn /\ ~torn'
  BY <1>2 DEF Inv, FileFollows, Between, Forgotten
<1>4. PhaseOf(last.operation) \in {"between", "broken"} /\ last.operation # "none"
  BY <1>3, PhaseIs
<1>5. CASE last' = last
  BY <1>3, <1>5, FileStutters
<1>6. CASE worker <= Workers /\ last' = [last EXCEPT !.operation = "session.interrupted"]
  <2>1. last'.operation = "session.interrupted" /\ last'.worker = worker - 1
    BY <1>3, <1>6 DEF Inv, TypeOK, CaptureTypes
  <2> QED BY <1>1, <1>3, <1>4, <1>6, <2>1, PhaseIs DEF File!EndSession, File!Ended
<1>7. CASE worker = 1 + Workers /\ last' = [last EXCEPT !.operation = "session.end"]
  <2>1. last'.operation = "session.end" /\ last'.worker = worker - 1
    BY <1>3, <1>7 DEF Inv, TypeOK, CaptureTypes
  <2> QED BY <1>1, <1>3, <1>4, <1>7, <2>1, PhaseIs DEF File!EndSession, File!Ended
<1>8. last' = last \/ (worker <= Workers /\ last' = [last EXCEPT !.operation = "session.interrupted"])
        \/ (worker = 1 + Workers /\ last' = [last EXCEPT !.operation = "session.end"])
  BY <1>1 DEF Loop, Finish, Inv, FileFollows
<1> QED BY <1>5, <1>6, <1>7, <1>8

\* Every step of the probe is one of the file, or the file stays as it is.
LEMMA NextRefines ==
    ASSUME Inv, Inv', [Next]_vars
    PROVE  File!Next \/ UNCHANGED File!vars
<1>1. CASE TerminalStep \/ \E process \in Processes : Notice(process)
  BY <1>1, FileStutters DEF TerminalStep, Notice, captureVars, workVars
<1>2. CASE Press \/ Expire \/ UNCHANGED vars
  BY <1>2, FileStutters DEF Press, Expire, vars, captureVars, workVars
<1>3. CASE Kill \/ RecordFails \/ Exit
  <2>1. main = "wait" /\ step # "gone"
    BY <1>3 DEF Kill, RecordFails, Exit, Inv, OneWriter, Recording
  <2> QED BY <1>3, <2>1, WorkerTears DEF Kill, RecordFails, Exit, File!Next
<1>4. CASE Prompt \/ Spawn \/ Sync
  <2>1. main = "sync" => ~torn
    BY DEF Inv, Forgotten
  <2> QED BY <1>4, <2>1, FileStutters DEF Prompt, Spawn, Sync, captureVars, workVars
<1>5. CASE Create
  BY <1>5, CreateStarts DEF File!Next
<1>6. CASE Inventory
  BY <1>6, InventoryFound DEF File!Next
<1>7. CASE (FindExecutable \/ Wait \/ GiveUp) /\ OnlyParent
  BY <1>7, FileStutters DEF FindExecutable, Wait, GiveUp, OnlyParent, captureVars,
                             workVars
<1>8. CASE (Loop \/ Finish) /\ OnlyParent
  BY <1>8, SessionEnds DEF OnlyParent, captureVars, workVars, File!Next
<1>9. CASE Report
  BY <1>9, ReportEnds DEF File!Next
<1>10. ASSUME Call \/ Skip \/ BeginRecord \/ EndRecord \/ ReaderBeginsRecord
                \/ ReaderEndsRecord,
              targets' = targets
       PROVE  File!Next \/ UNCHANGED File!vars
  <2>1. step # "gone" \/ writing # {}
    BY <1>10, NoOperations, ProgramIs, PcscOperations, FeatureOperations
       DEF Call, Skip, BeginRecord, EndRecord, ReaderBeginsRecord, ReaderEndsRecord,
           Commands, OtpSteps, FidoSteps
  <2>2. main = "wait" /\ step # "gone"
    BY <2>1 DEF Inv, OneWriter, Recording
  <2>3. last' = last \/ \E operation \in {"worker.start", "event"} :
                           last' = [operation |-> operation, worker |-> worker]
    BY <1>10 DEF Call, Skip, BeginRecord, EndRecord, ReaderBeginsRecord, ReaderEndsRecord,
                 Write
  <2>4. torn' = torn
    BY <1>10 DEF Call, Skip, BeginRecord, EndRecord, ReaderBeginsRecord, ReaderEndsRecord,
                 workVars
  <2> QED BY <1>10, <2>2, <2>3, <2>4, WorkerRecords DEF File!Next
<1>11. CASE WorkerStep
  BY <1>3, <1>10, <1>11 DEF WorkerStep, captureVars
<1>12. CASE ParentStep \/ (GiveUp /\ OnlyParent)
  BY <1>4, <1>5, <1>6, <1>7, <1>8, <1>9, <1>12 DEF ParentStep
<1> QED BY <1>1, <1>2, <1>3, <1>11, <1>12 DEF Next

\* Two goroutines of a worker that may die within a record, and the parent, write
\* the file: each worker's records come together and in order and are followed by
\* its end, and a torn record spoils no other line than that of this end.
THEOREM FileImplemented == Spec => ImplementsCaptureFile
<1>1. Init => File!Init
  BY PhaseIs DEF Init, File!Init
<1>2. Inv /\ Inv' /\ [Next]_vars => [File!Next]_(File!vars)
  BY NextRefines
<1> QED BY <1>1, <1>2, CaptureInvariance, PTL DEF Spec, ImplementsCaptureFile, File!Spec

=============================================================================
