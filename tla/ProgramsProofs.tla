--------------------------- MODULE ProgramsProofs ---------------------------
(***************************************************************************)
(* What is proved of the programs that stand alone: first of each as it is *)
(* alone, then of all in Programs, where beside the others each behaves as *)
(* it does alone.                                                          *)
(***************************************************************************)
EXTENDS Programs, HexDumpProofs, ConsoleProofs

-----------------------------------------------------------------------------
(* AtomicBits.  For every number of threads main can start without reaching *)
(* bit 31, and every order in which they run: with the atomic instruction   *)
(* no bit is lost, without it none is invented, and foobar's three tests    *)
(* answer 0, 1 and 0.                                                       *)

\* The answers of the tests, and what is left in cnt for the next one.
FoobarInv ==
  /\ TestsAnswer
  /\ bitsPc = "first" => 31 \notin cnt
  /\ bitsPc = "second" => 31 \in cnt
  /\ bitsPc = "third" => cnt = {}

\* The bits in cnt, and those that a thread will store with its own, are of
\* threads that have returned.
StoresInv ==
  /\ bitsPc \in {"create", "join", "first"} =>
       cnt \subseteq {t \in Threads : thread[t] = "returned"}
  /\ \A t \in Threads : thread[t] = "loaded" =>
       loaded[t] \subseteq {s \in Threads : thread[s] = "returned"}

BitsInv == BitsTypeOK /\ ThreadsInv /\ StoresInv /\ FoobarInv

\* The threads' bits do not include bit 31.
LEMMA ThreadsBelow31 == 31 \notin Threads /\ Threads \subseteq Positions
BY ThreadsAssumption DEF Threads, Positions

LEMMA InitBits == BitsInit => BitsInv
BY ThreadsAssumption
DEF BitsInit, BitsInv, BitsTypeOK, ThreadsInv, StoresInv, FoobarInv, TestsAnswer, Threads, Positions

\* A thread stores its bit with those in word.
Stores(t, word) ==
  /\ thread[t] \in {"started", "loaded"}
  /\ word \subseteq {s \in Threads : thread[s] = "returned"}
  /\ body = "_sync_qwerty" => word = cnt
  /\ cnt' = word \cup {t} /\ thread' = [thread EXCEPT ![t] = "returned"]
  /\ UNCHANGED <<body, loaded, bitsPc, i, a>>

LEMMA StoreKeeps ==
  ASSUME BitsInv, NEW t \in Threads, NEW word, Stores(t, word)
  PROVE  BitsInv'
<1> USE DEF Stores
<1>1. bitsPc \in {"create", "join"}
  BY DEF BitsInv, ThreadsInv, BitsTypeOK
<1>2. thread \in [Threads -> {"none", "started", "loaded", "returned"}]
  BY DEF BitsInv, BitsTypeOK
<1>3. \A s \in Threads : thread'[s] = IF s = t THEN "returned" ELSE thread[s]
  BY <1>2
<1>4. BitsTypeOK'
  <2>1. cnt' \subseteq Positions
    BY ThreadsBelow31
  <2> QED
    BY <1>2, <2>1 DEF BitsInv, BitsTypeOK
<1>5. ThreadsInv'
  <2>1. body = "_sync_qwerty" => cnt = {s \in Threads : thread[s] = "returned"}
    BY <1>1 DEF BitsInv, ThreadsInv
  <2>2. body' = "_sync_qwerty" => cnt' = {s \in Threads : thread'[s] = "returned"}
    BY <1>3, <2>1
  <2> QED
    BY <1>1, <1>3, <2>2 DEF BitsInv, ThreadsInv
<1>6. StoresInv'
  BY <1>3 DEF BitsInv, StoresInv
<1>7. FoobarInv'
  BY <1>1 DEF BitsInv, FoobarInv, TestsAnswer
<1> QED
  BY <1>4, <1>5, <1>6, <1>7 DEF BitsInv

LEMMA StepBits == BitsInv /\ [BitsNext]_bitsVars => BitsInv'
<1> SUFFICES ASSUME BitsInv, [BitsNext]_bitsVars
             PROVE  BitsInv'
  OBVIOUS
<1> USE DEF BitsInv
<1>1. NTH \in Nat /\ NTH <= 31 /\ Threads = 0 .. NTH - 1
  BY ThreadsAssumption DEF Threads
<1>2. CASE Create
  <2>1. BitsTypeOK'
    BY <1>1, <1>2 DEF Create, MoreThreads, BitsTypeOK
  <2>2. ThreadsInv'
    BY <1>1, <1>2 DEF Create, MoreThreads, BitsTypeOK, ThreadsInv
  <2>3. StoresInv'
    <3>1. CASE i < NTH
      <4>1. thread[i] # "returned" /\ i \in Threads
        BY <1>1, <1>2, <3>1 DEF Create, BitsTypeOK, ThreadsInv
      <4>2. \A s \in Threads : thread'[s] = IF s = i THEN "started" ELSE thread[s]
        BY <1>2, <3>1, <4>1 DEF Create, MoreThreads, BitsTypeOK
      <4> QED
        BY <1>2, <3>1, <4>1, <4>2 DEF Create, MoreThreads, StoresInv
    <3>2. CASE ~(i < NTH)
      BY <1>2, <3>2 DEF Create, MoreThreads, StoresInv
    <3> QED
      BY <3>1, <3>2
  <2>4. FoobarInv'
    BY <1>2 DEF Create, FoobarInv, TestsAnswer
  <2> QED
    BY <2>1, <2>2, <2>3, <2>4
<1>3. CASE Join
  <2>1. BitsTypeOK'
    BY <1>1, <1>3 DEF Join, BitsTypeOK
  <2>2. ThreadsInv'
    BY <1>1, <1>3 DEF Join, HasReturned, BitsTypeOK, ThreadsInv
  <2>3. StoresInv'
    BY <1>3 DEF Join, StoresInv
  <2>4. FoobarInv'
    <3>1. bitsPc = "join" => 31 \notin cnt
      BY ThreadsBelow31 DEF StoresInv
    <3> QED
      BY <1>3, <3>1 DEF Join, FoobarInv, TestsAnswer
  <2> QED
    BY <2>1, <2>2, <2>3, <2>4
<1>4. ASSUME NEW t \in Threads, _sync_qwerty(t)
      PROVE  BitsInv'
  <2>1. bitsPc \in {"create", "join"}
    BY <1>4 DEF _sync_qwerty, ThreadsInv, BitsTypeOK
  <2>2. cnt \subseteq {s \in Threads : thread[s] = "returned"}
    BY <2>1 DEF StoresInv
  <2>3. Stores(t, cnt)
    BY <1>4, <2>2 DEF _sync_qwerty, Or, Stores
  <2> HIDE DEF BitsInv
  <2> QED
    BY <2>3, StoreKeeps
<1>5. ASSUME NEW t \in Threads, qwerty(t)
      PROVE  BitsInv'
  <2>1. body = "qwerty" /\ UNCHANGED <<body, bitsPc, i, a>>
    BY <1>5 DEF qwerty
  <2>2. CASE /\ thread[t] = "started" /\ loaded' = [loaded EXCEPT ![t] = cnt]
             /\ thread' = [thread EXCEPT ![t] = "loaded"] /\ UNCHANGED cnt
    <3>1. bitsPc \in {"create", "join"}
      BY <2>2 DEF ThreadsInv, BitsTypeOK
    <3>2. \A s \in Threads : /\ thread'[s] = IF s = t THEN "loaded" ELSE thread[s]
                             /\ loaded'[s] = IF s = t THEN cnt ELSE loaded[s]
      BY <2>2 DEF BitsTypeOK
    <3>3. BitsTypeOK'
      BY <2>1, <2>2 DEF BitsTypeOK
    <3>4. ThreadsInv'
      BY <2>1, <2>2, <3>1, <3>2 DEF ThreadsInv
    <3>5. StoresInv'
      <4>1. \A s \in Threads : thread'[s] = "returned" <=> thread[s] = "returned"
        BY <2>2, <3>2
      <4>2. cnt \subseteq {s \in Threads : thread[s] = "returned"}
        BY <3>1 DEF StoresInv
      <4> QED
        BY <2>1, <2>2, <3>1, <3>2, <4>1, <4>2 DEF StoresInv
    <3>6. FoobarInv'
      BY <2>1, <2>2 DEF FoobarInv, TestsAnswer
    <3> QED
      BY <3>3, <3>4, <3>5, <3>6
  <2>3. CASE /\ thread[t] = "loaded" /\ cnt' = Or(loaded[t], IntShift(t))
             /\ thread' = [thread EXCEPT ![t] = "returned"] /\ UNCHANGED loaded
    <3>1. cnt' = loaded[t] \cup {t}
      BY <2>3, ThreadsBelow31 DEF Or, IntShift
    <3>2. loaded[t] \subseteq {s \in Threads : thread[s] = "returned"}
      BY <2>3 DEF StoresInv
    <3>3. Stores(t, loaded[t])
      BY <2>1, <2>3, <3>1, <3>2 DEF Stores
    <3> HIDE DEF BitsInv
    <3> QED
      BY <3>3, StoreKeeps
  <2> QED
    BY <1>5, <2>2, <2>3 DEF qwerty
<1>6. CASE foobar
  <2>1. \A t \in Threads : thread[t] = "returned"
    BY <1>6 DEF foobar, ThreadsInv
  <2>2. CASE bitsPc \in {"first", "second", "third"}
    <3>1. /\ a' = IF 31 \in cnt THEN 1 ELSE 0
          /\ cnt' = cnt \cup 31 .. 63
          /\ UNCHANGED <<body, thread, loaded, i>>
      BY <1>6, <2>2 DEF foobar, atomic_bit_test_and_set, Or, IntShift
    <3>2. bitsPc' = IF bitsPc = "first" THEN "second" ELSE IF bitsPc = "second" THEN "reset" ELSE "end"
      BY <1>6, <2>2 DEF foobar
    <3>3. BitsTypeOK'
      BY <2>2, <3>1, <3>2 DEF BitsTypeOK, Positions
    <3>4. ThreadsInv' /\ StoresInv'
      BY <2>1, <2>2, <3>1, <3>2 DEF ThreadsInv, StoresInv
    <3>5. FoobarInv'
      BY <2>2, <3>1, <3>2 DEF FoobarInv, TestsAnswer
    <3> QED
      BY <3>3, <3>4, <3>5
  <2>3. CASE bitsPc = "reset"
    BY <1>6, <2>1, <2>3 DEF foobar, BitsTypeOK, ThreadsInv, StoresInv, FoobarInv, TestsAnswer
  <2> QED
    BY <1>6, <2>2, <2>3 DEF foobar
<1>7. CASE UNCHANGED bitsVars
  BY <1>7 DEF bitsVars, BitsTypeOK, ThreadsInv, StoresInv, FoobarInv, TestsAnswer
<1> QED
  BY <1>2, <1>3, <1>4, <1>5, <1>6, <1>7 DEF BitsNext

LEMMA BitsInvariance == BitsSafety => []BitsInv
BY InitBits, StepBits, PTL DEF BitsSafety

\* With the atomic instruction, when main prints cnt it has the bit of every
\* thread it started, and no other (main.c:28-51).
THEOREM NoBitIsLost == BitsSafety => []NoBitLost
<1>1. BitsInv => NoBitLost
  BY DEF BitsInv, ThreadsInv, NoBitLost
<1> QED
  BY <1>1, BitsInvariance, PTL

\* The threads and main stay where they can be, and cnt holds bits of an unsigned
\* (atomic-operations/main.c:28-78).
THEOREM BitsTyped == BitsSafety => []BitsTypeOK
<1>1. BitsInv => BitsTypeOK
  BY DEF BitsInv
<1> QED
  BY <1>1, BitsInvariance, PTL

\* Without it bits are lost, but none is set that is not of a thread that has
\* returned, and no thread returns without its own bit in what it stores
\* (main.c:19-26).
THEOREM NoBitIsInvented == BitsSafety => NoBitInvented
<1>1. ASSUME BitsInv, BitsInv', [BitsNext]_bitsVars, bitsPc \in {"create", "join"}
      PROVE  StoresOwnBit
  <2>1. bitsPc' \in {"create", "join", "first"}
    BY <1>1 DEF BitsNext, Create, Join, foobar, _sync_qwerty, qwerty, bitsVars
  <2>2. cnt' \subseteq {t \in Threads : thread'[t] = "returned"}
    BY <1>1, <2>1 DEF BitsInv, StoresInv, Threads
  <2>3. ASSUME NEW t \in Threads, thread[t] # "returned", thread'[t] = "returned"
        PROVE  t \in cnt'
    <3>1. thread \in [Threads -> {"none", "started", "loaded", "returned"}]
      BY <1>1 DEF BitsInv, BitsTypeOK
    <3>2. thread[t] # "returned" /\ thread'[t] = "returned"
      BY <2>3
    <3>3. ~Create /\ ~Join /\ ~foobar /\ ~UNCHANGED bitsVars
      BY <1>1, <3>1, <3>2 DEF Create, Join, foobar, bitsVars
    <3>4. PICK s \in Threads : _sync_qwerty(s) \/ qwerty(s)
      BY <1>1, <3>3 DEF BitsNext
    <3>5. s = t /\ t \in IntShift(t)
      BY <3>1, <3>2, <3>4, ThreadsBelow31 DEF _sync_qwerty, qwerty, IntShift
    <3> QED
      BY <3>1, <3>2, <3>4, <3>5 DEF _sync_qwerty, qwerty, Or
  <2> QED
    BY <2>2, <2>3 DEF StoresOwnBit
<1>2. BitsInv /\ BitsInv' /\ [BitsNext]_bitsVars
        => [bitsPc = "create" \/ bitsPc = "join" => StoresOwnBit]_bitsVars
  BY <1>1
<1> QED
  BY <1>2, BitsInvariance, PTL DEF BitsSafety, NoBitInvented

\* The tests of bit 31 answer 0, 1 and 0, whatever the threads did and whichever
\* of the two functions they ran (main.c:62-73).
THEOREM TestsAnswerRight == BitsSafety => []TestsAnswer
<1>1. BitsInv => TestsAnswer
  BY DEF BitsInv, FoobarInv
<1> QED
  BY <1>1, BitsInvariance, PTL

-----------------------------------------------------------------------------
(* reverse: what is returned of the digits is never more than IntMax.      *)

ReverseInv ==
  callee = "reverse" =>
    /\ ~overflowed
    /\ intsPc = "loop" => u \in Nat /\ res \in 0 .. IntMax

LEMMA UnsignedIsNat ==
  ASSUME NEW n \in Ints
  PROVE  Unsigned(Abs(n)) \in 0 .. IntMax + 1
BY IntMaxAssumption DEF Unsigned, Abs, Ints

\* Where there is room for a digit, the product and the sum are ints.
LEMMA RoomForDigit ==
  ASSUME NEW r \in 0 .. IntMax, NEW digit \in 0 .. 9,
         ~(IntMax - digit < r * 10)
  PROVE  r * 10 + digit \in 0 .. IntMax
BY IntMaxAssumption

LEMMA InitReverse ==
  ASSUME IntsInit
  PROVE  ReverseInv
<1>1. CASE callee = "reverse"
  <2>1. arg \in Ints
    BY <1>1, CallsAssumption DEF IntsInit
  <2>2. u = Unsigned(Abs(arg))
    BY <1>1 DEF IntsInit
  <2>3. u \in Nat
    BY <2>1, <2>2, UnsignedIsNat, IntMaxAssumption
  <2>4. res = 0 /\ ~overflowed
    BY DEF IntsInit
  <2> QED
    BY <2>3, <2>4, IntMaxAssumption DEF ReverseInv
<1> QED
  BY <1>1 DEF ReverseInv

LEMMA NextReverse ==
  ASSUME ReverseInv, [IntsNext]_intsVars
  PROVE  ReverseInv'
<1>1. CASE UNCHANGED intsVars
  BY <1>1 DEF ReverseInv, intsVars
<1>2. CASE ReverseStep
  <2> USE <1>2
  <2>1. /\ intsPc = "loop" /\ callee = "reverse" /\ callee' = "reverse"
        /\ ~overflowed /\ u \in Nat /\ res \in 0 .. IntMax
    BY DEF ReverseStep, ReverseInv
  <2> DEFINE ost == u % 10
  <2>2. CASE u = 0 \/ NoRoom(ost)
    BY <2>1, <2>2 DEF ReverseStep, ReverseInv, Returns
  <2>3. CASE u # 0 /\ ~NoRoom(ost)
    <3>1. ost \in 0 .. 9 /\ (u - ost) \div 10 \in Nat
      BY <2>1
    <3>2. res * 10 + ost \in 0 .. IntMax
      BY <2>1, <2>3, <3>1, RoomForDigit DEF NoRoom
    <3>3. res * 10 + ost \in Ints
      BY <3>2, IntMaxAssumption DEF Ints
    <3>4. res' = res * 10 + ost /\ overflowed' = FALSE /\ u' = (u - ost) \div 10
      BY <2>1, <2>3, <3>3 DEF ReverseStep, Wrapped
    <3> QED
      BY <2>1, <3>1, <3>2, <3>4 DEF ReverseInv
  <2> QED
    BY <2>2, <2>3
<1>3. CASE callee # "reverse" /\ callee' = callee
  BY <1>3 DEF ReverseInv
<1>4. Reverse1Step \/ StoiDigit \/ StoiWrites \/ AtoiStep
        => callee # "reverse" /\ callee' = callee
  BY DEF Reverse1Step, StoiDigit, StoiWrites, AtoiStep
<1> QED
  BY <1>1, <1>2, <1>3, <1>4 DEF IntsNext

\* The two tests of reverse keep its product and its sum in an int of any width.
THEOREM ReverseIsSafe == IntsSafety => []ReverseNeverOverflows
<1>1. ReverseInv => ReverseNeverOverflows
  BY DEF ReverseInv, ReverseNeverOverflows
<1> QED
  BY <1>1, InitReverse, NextReverse, PTL DEF IntsSafety

-----------------------------------------------------------------------------
(* reverse1: after k digits what is returned is below 10^k and what is     *)
(* left is at most (IntMax + 1) \div 10^k, so that the tenth digit of an   *)
(* int of 32 bits, and the fifth of one of 16, is small.                   *)

Powers == {1, 10, 100, 1000, 10000, 100000, 1000000, 10000000, 100000000, 1000000000}

Progress(r, left, power) == r < power /\ left * power <= IntMax + 1

Reverse1Inv ==
  callee = "reverse1" =>
    /\ ~overflowed
    /\ intsPc = "loop" => /\ u \in Nat /\ res \in Nat
                      /\ \E power \in Powers : Progress(res, u, power)

Widths == {32767, 2147483647}

LEMMA DigitLess ==
  ASSUME NEW rest \in Nat, NEW digit \in 0 .. 9, NEW power \in Nat
  PROVE  rest * (power * 10) <= (rest * 10 + digit) * power
<1>1. (rest * 10 + digit) * power = rest * (power * 10) + digit * power
  OBVIOUS
<1>2. digit * power \in Nat /\ rest * (power * 10) \in Nat
  OBVIOUS
<1> QED
  BY <1>1, <1>2

\* The sum is an int: a digit that is left at a high power is small.
LEMMA SumIsInt ==
  ASSUME IntMax \in Widths,
         NEW rest \in Nat, NEW digit \in 0 .. 9, NEW r \in Nat, NEW power \in Powers,
         Progress(r, rest * 10 + digit, power), r <= IntMax \div 10
  PROVE  r * 10 + digit <= IntMax
<1>1. CASE power \in {1, 10, 100, 1000}
  BY <1>1, SMT DEF Progress, Widths
<1>2. CASE power \in {10000, 100000, 1000000, 10000000, 100000000} /\ IntMax = 32767
  <2>1. digit * 10000 <= 32768
    <3>1. CASE power = 10000
      BY <1>2, <3>1, SMT DEF Progress
    <3>2. CASE power = 100000
      BY <1>2, <3>2, SMT DEF Progress
    <3>3. CASE power = 1000000
      BY <1>2, <3>3, SMT DEF Progress
    <3>4. CASE power = 10000000
      BY <1>2, <3>4, SMT DEF Progress
    <3>5. CASE power = 100000000
      BY <1>2, <3>5, SMT DEF Progress
    <3> QED
      BY <1>2, <3>1, <3>2, <3>3, <3>4, <3>5, SMT
  <2> QED
    BY <1>2, <2>1, SMT
<1>3. CASE power \in {10000, 100000, 1000000, 10000000, 100000000} /\ IntMax = 2147483647
  BY <1>3, SMT DEF Progress
<1>4. CASE power = 1000000000
  <2>1. digit <= 2 /\ (IntMax = 2147483647 \/ digit = 0)
    BY <1>4, SMT DEF Progress, Widths
  <2> QED
    BY <2>1, SMT DEF Widths
<1> QED
  BY <1>1, <1>2, <1>3, <1>4, SMT DEF Powers, Widths

\* One digit on there is another power, if digits are left.
LEMMA NextPower ==
  ASSUME IntMax \in Widths,
         NEW rest \in Nat \ {0}, NEW digit \in 0 .. 9, NEW r \in Nat, NEW power \in Powers,
         Progress(r, rest * 10 + digit, power)
  PROVE  \E next \in Powers : Progress(r * 10 + digit, rest, next)
<1>1. power # 1000000000
  BY SMT DEF Progress, Widths
<1>2. power * 10 \in Powers
  BY <1>1, SMT DEF Powers
<1>3. power \in Nat /\ IntMax \in Nat
  BY SMT DEF Powers, Widths
<1>4. r * 10 + digit < power * 10
  BY <1>3, SMT DEF Progress
<1>5. rest * (power * 10) <= IntMax + 1
  <2>1. rest * (power * 10) <= (rest * 10 + digit) * power
    BY <1>3, DigitLess
  <2>2. /\ rest * (power * 10) \in Nat /\ (rest * 10 + digit) * power \in Nat
        /\ (rest * 10 + digit) * power <= IntMax + 1
    BY <1>3, SMT DEF Progress
  <2> QED
    BY <1>3, <2>1, <2>2, SMT
<1> QED
  BY <1>2, <1>4, <1>5, SMT DEF Progress

LEMMA InitReverse1 ==
  ASSUME IntsInit
  PROVE  Reverse1Inv
<1>1. CASE callee = "reverse1"
  <2>1. arg \in Ints
    BY <1>1, CallsAssumption DEF IntsInit
  <2>2. u = Unsigned(Abs(arg))
    BY <1>1 DEF IntsInit
  <2>3. u \in 0 .. IntMax + 1 /\ IntMax \in Nat
    BY <2>1, <2>2, UnsignedIsNat, IntMaxAssumption
  <2>4. res = 0 /\ ~overflowed
    BY DEF IntsInit
  <2>5. 1 \in Powers /\ Progress(res, u, 1)
    BY <2>3, <2>4, SMT DEF Powers, Progress
  <2> QED
    BY <2>3, <2>4, <2>5 DEF Reverse1Inv
<1> QED
  BY <1>1 DEF Reverse1Inv

LEMMA NextReverse1 ==
  ASSUME IntMax \in Widths, Reverse1Inv, [IntsNext]_intsVars
  PROVE  Reverse1Inv'
<1>1. CASE UNCHANGED intsVars
  BY <1>1 DEF Reverse1Inv, intsVars
<1>2. CASE Reverse1Step
  <2> USE <1>2
  <2>1. /\ intsPc = "loop" /\ callee = "reverse1" /\ callee' = "reverse1"
        /\ ~overflowed /\ u \in Nat /\ res \in Nat
        /\ \E power \in Powers : Progress(res, u, power)
    BY DEF Reverse1Step, Reverse1Inv
  <2>2. PICK power \in Powers : Progress(res, u, power)
    BY <2>1
  <2> DEFINE cdig == u % 10
             rest == (u - cdig) \div 10
  <2>3. CASE NoRoom1
    BY <2>1, <2>3 DEF Reverse1Step, Reverse1Inv, Returns
  <2>4. CASE ~NoRoom1
    <3>1. cdig \in 0 .. 9 /\ rest \in Nat /\ u = rest * 10 + cdig
      BY <2>1
    <3>2. overflowed' = (overflowed \/ res * 10 + cdig \notin Ints) /\ u' = rest
      BY <2>1, <2>4 DEF Reverse1Step
    <3>3. rest # 0 => intsPc' = intsPc /\ res' = Wrapped(res * 10 + cdig)
      BY <2>1, <2>4 DEF Reverse1Step
    <3>4. rest = 0 => intsPc' = "done"
      BY <2>1, <2>4 DEF Reverse1Step, Returns
    <3> HIDE DEF cdig, rest
    <3>5. res <= IntMax \div 10 /\ IntMax \in Nat
      BY <2>1, <2>4, IntMaxAssumption DEF NoRoom1
    <3>6. Progress(res, rest * 10 + cdig, power)
      BY <2>2, <3>1
    <3>7. res * 10 + cdig <= IntMax
      BY <2>1, <3>1, <3>5, <3>6, SumIsInt
    <3>8. res * 10 + cdig \in Ints /\ res * 10 + cdig \in Nat
      BY <2>1, <3>1, <3>5, <3>7 DEF Ints
    <3>9. ~overflowed'
      BY <2>1, <3>2, <3>8
    <3>10. CASE rest = 0
      BY <2>1, <3>4, <3>9, <3>10 DEF Reverse1Inv
    <3>11. CASE rest # 0
      <4>1. res' = res * 10 + cdig
        BY <3>3, <3>8, <3>11 DEF Wrapped
      <4>2. \E next \in Powers : Progress(res * 10 + cdig, rest, next)
        BY <2>1, <3>1, <3>6, <3>11, NextPower
      <4> QED
        BY <2>1, <3>1, <3>2, <3>8, <3>9, <4>1, <4>2 DEF Reverse1Inv
    <3> QED
      BY <3>10, <3>11
  <2> QED
    BY <2>3, <2>4
<1>3. CASE callee # "reverse1" /\ callee' = callee
  BY <1>3 DEF Reverse1Inv
<1>4. ReverseStep \/ StoiDigit \/ StoiWrites \/ AtoiStep
        => callee # "reverse1" /\ callee' = callee
  BY DEF ReverseStep, StoiDigit, StoiWrites, AtoiStep
<1> QED
  BY <1>1, <1>2, <1>3, <1>4 DEF IntsNext

\* The one test of reverse1 keeps its sum in an int of 16 or of 32 bits.
THEOREM Reverse1IsSafe ==
  ASSUME IntMax \in Widths
  PROVE  IntsSafety => []Reverse1NeverOverflows
<1>1. Reverse1Inv => Reverse1NeverOverflows
  BY DEF Reverse1Inv, Reverse1NeverOverflows
<1>2. Reverse1Inv /\ [IntsNext]_intsVars => Reverse1Inv'
  BY NextReverse1
<1> QED
  BY <1>1, <1>2, InitReverse1, PTL DEF IntsSafety

\* Whatever int of 16 or of 32 bits they are called with, neither of the two
\* functions ever overflows (reverse.c:5-47).
THEOREM NothingOverflows ==
  ASSUME IntMax \in Widths
  PROVE  IntsSafety => []NeverOverflows
<1>1. ReverseNeverOverflows /\ Reverse1NeverOverflows => NeverOverflows
  BY DEF NeverOverflows
<1> QED
  BY <1>1, ReverseIsSafe, Reverse1IsSafe, PTL

-----------------------------------------------------------------------------
(* What the functions return.  The digits of a number in reverse, and the  *)
(* value of a text, are defined by recursion: first what they satisfy.     *)

LEMMA ReversalIs ==
  \A n, s \in Nat :
    ReversalFrom[<<n, s>>] = IF n = 0 THEN s ELSE ReversalFrom[<<n \div 10, s * 10 + (n % 10)>>]
<1> DEFINE Is(f) == f = [pair \in Nat \X Nat |->
              IF pair[1] = 0 THEN pair[2] ELSE f[<<pair[1] \div 10, pair[2] * 10 + (pair[1] % 10)>>]]
<1>1. ReversalFrom = CHOOSE f : Is(f)
  BY DEF ReversalFrom
<1>2. \E f : Is(f)
  <2> DEFINE S     == [Nat \X Nat -> Nat]
             first == [pair \in Nat \X Nat |-> pair[2]]
             after(f) == [pair \in Nat \X Nat |->
               IF pair[1] = 0 THEN pair[2] ELSE f[<<pair[1] \div 10, pair[2] * 10 + (pair[1] % 10)>>]]
             next == [q \in Nat \X S |-> after(q[2])]
  <2>1. first \in S
    OBVIOUS
  <2>2. \A n, s \in Nat : n \div 10 \in Nat /\ s * 10 + (n % 10) \in Nat /\ (n # 0 => n \div 10 < n)
    OBVIOUS
  <2>3. \A f \in S : after(f) \in S
    BY <2>2
  <2>4. next \in [Nat \X S -> S]
    BY <2>3
  <2> HIDE DEF S, first, next
  <2>5. PICK phi : Iterates(phi, S, first, next)
    BY <2>1, <2>4, Iterated
  <2>6. \A n, s \in Nat : phi[0][<<n, s>>] = s
    BY <2>5 DEF Iterates, first
  <2>7. \A k \in Nat : phi[k + 1] = after(phi[k])
    BY <2>5 DEF Iterates, next
  <2> DEFINE Step(k) == \A n, s \in Nat : phi[k + 1][<<n, s>>] =
               IF n = 0 THEN s ELSE phi[k][<<n \div 10, s * 10 + (n % 10)>>]
  <2>8. \A k \in Nat : Step(k)
    BY <2>7
  <2> HIDE DEF Step
  <2> DEFINE Same(k) == \A n, s \in Nat : n <= k => phi[k + 1][<<n, s>>] = phi[k][<<n, s>>]
             Kept(d) == \A n, s \in Nat : phi[n + d][<<n, s>>] = phi[n][<<n, s>>]
  <2>9. \A k \in Nat : Same(k)
    <3> DEFINE Good == {k \in Nat : Same(k)}
    <3>1. Same(0)
      <4> SUFFICES ASSUME NEW n \in Nat, NEW s \in Nat, n <= 0
                   PROVE  phi[0 + 1][<<n, s>>] = phi[0][<<n, s>>]
        OBVIOUS
      <4>1. Step(0)
        BY <2>8
      <4>2. n = 0
        OBVIOUS
      <4>3. phi[0 + 1][<<n, s>>] = s
        BY <4>1, <4>2, Zenon DEF Step
      <4> QED
        BY <2>6, <4>3, Zenon
    <3>2. ASSUME NEW k \in Nat, Same(k)
          PROVE  Same(k + 1)
      <4> SUFFICES ASSUME NEW n \in Nat, NEW s \in Nat, n <= k + 1
                   PROVE  phi[k + 1 + 1][<<n, s>>] = phi[k + 1][<<n, s>>]
        OBVIOUS
      <4> DEFINE m == n \div 10
                 t == s * 10 + (n % 10)
      <4>0. Step(k + 1) /\ Step(k)
        BY <2>8
      <4>1. phi[k + 1 + 1][<<n, s>>] = (IF n = 0 THEN s ELSE phi[k + 1][<<m, t>>])
        BY <4>0 DEF Step
      <4>2. phi[k + 1][<<n, s>>] = (IF n = 0 THEN s ELSE phi[k][<<m, t>>])
        BY <4>0 DEF Step
      <4>3. m \in Nat /\ t \in Nat /\ (n # 0 => m <= k)
        BY <2>2
      <4> HIDE DEF m, t
      <4> QED
        BY <3>2, <4>1, <4>2, <4>3
    <3> HIDE DEF Same
    <3>3. 0 \in Good /\ \A n \in Nat : n \in Good => n + 1 \in Good
      BY <3>1, <3>2
    <3> HIDE DEF Good
    <3>4. Nat \subseteq Good
      BY <3>3, Induction
    <3> QED
      BY <3>4 DEF Good
  <2>10. \A d \in Nat : Kept(d)
    <3> DEFINE Good == {d \in Nat : Kept(d)}
    <3>1. Kept(0)
      OBVIOUS
    <3>2. ASSUME NEW d \in Nat, Kept(d)
          PROVE  Kept(d + 1)
      <4> SUFFICES ASSUME NEW n \in Nat, NEW s \in Nat
                   PROVE  phi[n + (d + 1)][<<n, s>>] = phi[n][<<n, s>>]
        OBVIOUS
      <4>1. n + (d + 1) = (n + d) + 1 /\ n + d \in Nat /\ n <= n + d
        OBVIOUS
      <4>2. phi[(n + d) + 1][<<n, s>>] = phi[n + d][<<n, s>>]
        BY <2>9, <4>1
      <4> QED
        BY <3>2, <4>1, <4>2
    <3> HIDE DEF Kept
    <3>3. 0 \in Good /\ \A n \in Nat : n \in Good => n + 1 \in Good
      BY <3>1, <3>2
    <3> HIDE DEF Good
    <3>4. Nat \subseteq Good
      BY <3>3, Induction
    <3> QED
      BY <3>4 DEF Good
  <2>11. PICK f : f = [pair \in Nat \X Nat |-> phi[pair[1]][pair]]
    OBVIOUS
  <2>12. \A n, s \in Nat : f[<<n, s>>] = phi[n][<<n, s>>]
    BY <2>11
  <2>13. ASSUME NEW n \in Nat, NEW s \in Nat
         PROVE  f[<<n, s>>] = IF n = 0 THEN s ELSE f[<<n \div 10, s * 10 + (n % 10)>>]
    <3>1. CASE n = 0
      BY <2>6, <2>12, <3>1
    <3>2. CASE n # 0
      <4> DEFINE m == n \div 10
                 t == s * 10 + (n % 10)
      <4>1. m \in Nat /\ t \in Nat /\ m < n
        BY <2>2, <3>2
      <4>2. n - 1 \in Nat /\ (n - 1) + 1 = n
        BY <3>2
      <4>3. phi[(n - 1) + 1][<<n, s>>] = phi[n - 1][<<m, t>>]
        <5>1. Step(n - 1)
          BY <2>8, <4>2
        <5> QED
          BY <3>2, <4>2, <5>1 DEF Step
      <4> HIDE DEF m, t
      <4>4. n - 1 - m \in Nat /\ m + (n - 1 - m) = n - 1
        BY <4>1, <4>2
      <4>5. phi[m + (n - 1 - m)][<<m, t>>] = phi[m][<<m, t>>]
        BY <2>10, <4>1, <4>4
      <4>6. f[<<n, s>>] = f[<<m, t>>]
        BY <2>12, <4>1, <4>2, <4>3, <4>4, <4>5
      <4> QED
        BY <3>2, <4>6 DEF m, t
    <3> QED
      BY <3>1, <3>2
  <2>14. Is(f)
    <3> DEFINE g == [pair \in Nat \X Nat |->
              IF pair[1] = 0 THEN pair[2] ELSE f[<<pair[1] \div 10, pair[2] * 10 + (pair[1] % 10)>>]]
    <3>1. \A pair \in Nat \X Nat : f[pair] = g[pair]
      <4> TAKE pair \in Nat \X Nat
      <4>1. PICK n \in Nat, s \in Nat : pair = <<n, s>>
        OBVIOUS
      <4> QED
        BY <2>13, <4>1
    <3>2. DOMAIN f = Nat \X Nat /\ f = [pair \in Nat \X Nat |-> f[pair]]
      BY <2>11
    <3> QED
      BY <3>1, <3>2
  <2> QED
    BY <2>14
<1> HIDE DEF Is
<1>3. Is(ReversalFrom)
  BY <1>1, <1>2
<1> USE DEF Is
<1>4. ASSUME NEW n \in Nat, NEW s \in Nat
      PROVE  ReversalFrom[<<n, s>>] = IF n = 0 THEN s ELSE ReversalFrom[<<n \div 10, s * 10 + (n % 10)>>]
  <2> DEFINE R == ReversalFrom
  <2> HIDE DEF R
  <2>1. Is(R)
    BY <1>3 DEF R
  <2>2. R[<<n, s>>] = IF n = 0 THEN s ELSE R[<<n \div 10, s * 10 + (n % 10)>>]
    BY <2>1
  <2> QED
    BY <2>2 DEF R
<1> QED
  BY <1>4

LEMMA ReversalZero ==
  ASSUME NEW s \in Nat
  PROVE  ReversalFrom[<<0, s>>] = s
<1>1. 0 \in Nat
  OBVIOUS
<1>2. ReversalFrom[<<0, s>>] = IF 0 = 0 THEN s ELSE ReversalFrom[<<0 \div 10, s * 10 + (0 % 10)>>]
  BY <1>1, ReversalIs, Zenon
<1> QED
  BY <1>2, Zenon

LEMMA ReversalNext ==
  ASSUME NEW n \in Nat, n # 0, NEW s \in Nat
  PROVE  ReversalFrom[<<n, s>>] = ReversalFrom[<<n \div 10, s * 10 + (n % 10)>>]
BY ReversalIs, Zenon

LEMMA ReversalGrows ==
  \A n, s \in Nat : ReversalFrom[<<n, s>>] \in Nat /\ ReversalFrom[<<n, s>>] >= s
<1> DEFINE Upto(k) == \A n, s \in Nat : n <= k =>
                        ReversalFrom[<<n, s>>] \in Nat /\ ReversalFrom[<<n, s>>] >= s
<1>1. Upto(0)
  <2> SUFFICES ASSUME NEW n \in Nat, NEW s \in Nat, n <= 0
               PROVE  ReversalFrom[<<n, s>>] \in Nat /\ ReversalFrom[<<n, s>>] >= s
    OBVIOUS
  <2>1. n = 0 /\ s >= s
    OBVIOUS
  <2> QED
    BY <2>1, ReversalZero, Zenon
<1>2. ASSUME NEW k \in Nat, Upto(k)
      PROVE  Upto(k + 1)
  <2> SUFFICES ASSUME NEW n \in Nat, NEW s \in Nat, n <= k + 1
               PROVE  ReversalFrom[<<n, s>>] \in Nat /\ ReversalFrom[<<n, s>>] >= s
    OBVIOUS
  <2>1. CASE n = 0
    BY <1>1, <2>1
  <2>2. CASE n # 0
    <3>1. PICK m \in Nat, t \in Nat : m = n \div 10 /\ t = s * 10 + (n % 10)
      OBVIOUS
    <3>2. m <= k /\ t >= s
      BY <2>2, <3>1
    <3>3. ReversalFrom[<<n, s>>] = ReversalFrom[<<m, t>>]
      BY <2>2, <3>1, ReversalNext
    <3>4. ReversalFrom[<<m, t>>] \in Nat /\ ReversalFrom[<<m, t>>] >= t
      BY <1>2, <3>2
    <3> QED
      BY <3>2, <3>3, <3>4
  <2> QED
    BY <2>1, <2>2
<1> DEFINE Good == {k \in Nat : Upto(k)}
<1> HIDE DEF Upto
<1>3. 0 \in Good /\ \A k \in Nat : k \in Good => k + 1 \in Good
  BY <1>1, <1>2
<1> HIDE DEF Good
<1>4. Nat \subseteq Good
  BY <1>3, Induction
<1>5. \A n \in Nat : Upto(n)
  BY <1>4 DEF Good
<1>6. ASSUME NEW n \in Nat, NEW s \in Nat
      PROVE  ReversalFrom[<<n, s>>] \in Nat /\ ReversalFrom[<<n, s>>] >= s
  <2>1. Upto(n) /\ n <= n
    BY <1>5
  <2> QED
    BY <2>1, Zenon DEF Upto
<1> QED
  BY <1>6

LEMMA ValueIs ==
  ASSUME NEW t \in Seq(Int)
  PROVE  /\ ValueTo(t, 0) = 0
         /\ \A k \in 1 .. Len(t) : ValueTo(t, k) = ValueTo(t, k - 1) * 10 + (t[k] - Zero)
         /\ \A k \in 0 .. Len(t) : ValueTo(t, k) \in Int
<1> DEFINE Is(v) == v = [j \in 0 .. Len(t) |-> IF j = 0 THEN 0 ELSE v[j - 1] * 10 + (t[j] - Zero)]
           next == [q \in Nat \X Int |->
                      q[2] * 10 + (IF q[1] < Len(t) THEN t[q[1] + 1] - Zero ELSE 0)]
<1>1. Len(t) \in Nat /\ \A j \in 1 .. Len(t) : t[j] \in Int
  OBVIOUS
<1>2. next \in [Nat \X Int -> Int]
  BY <1>1 DEF Zero
<1>3. 0 \in Int
  OBVIOUS
<1> HIDE DEF next
<1>4. PICK phi : Iterates(phi, Int, 0, next)
  BY <1>2, <1>3, Iterated
<1>5. PICK v : v = [j \in 0 .. Len(t) |-> phi[j]]
  OBVIOUS
<1>6. ASSUME NEW j \in 0 .. Len(t)
      PROVE  v[j] = IF j = 0 THEN 0 ELSE v[j - 1] * 10 + (t[j] - Zero)
  <2>1. CASE j = 0
    BY <1>4, <1>5, <2>1 DEF Iterates
  <2>2. CASE j # 0
    <3>0. j - 1 \in Nat /\ j - 1 \in 0 .. Len(t) /\ j - 1 < Len(t) /\ (j - 1) + 1 = j
      BY <1>1, <2>2
    <3>1. PICK m \in Nat : m = j - 1 /\ m \in 0 .. Len(t) /\ m < Len(t) /\ m + 1 = j
      BY <3>0
    <3>2. phi[m + 1] = next[<<m, phi[m]>>] /\ phi[m] \in Int
      BY <1>4 DEF Iterates
    <3>3. next[<<m, phi[m]>>] = phi[m] * 10 + (t[m + 1] - Zero)
      BY <3>1, <3>2 DEF next
    <3>4. v[j] = phi[m + 1] /\ v[j - 1] = phi[m]
      BY <1>5, <3>1
    <3> QED
      BY <2>2, <3>1, <3>2, <3>3, <3>4
  <2> QED
    BY <2>1, <2>2
<1>7. Is(v)
  <2>1. v = [j \in 0 .. Len(t) |-> v[j]]
    BY <1>5
  <2> QED
    BY <1>6, <2>1
<1> DEFINE value == CHOOSE w : Is(w)
<1>9. Is(value)
  <2> HIDE DEF Is
  <2> QED
    BY <1>7
<1>10. \A k : ValueTo(t, k) = value[k]
  BY DEF ValueTo
<1> HIDE DEF value
<1>11. /\ value[0] = 0
       /\ \A j \in 1 .. Len(t) : value[j] = value[j - 1] * 10 + (t[j] - Zero)
  <2>1. PICK g : g = [j \in 0 .. Len(t) |-> IF j = 0 THEN 0 ELSE value[j - 1] * 10 + (t[j] - Zero)]
    OBVIOUS
  <2>2. value = g
    BY <1>9, <2>1, Zenon
  <2>3. 0 \in 0 .. Len(t) /\ \A j \in 1 .. Len(t) : j \in 0 .. Len(t) /\ j # 0
    BY <1>1
  <2>4. g[0] = 0 /\ \A j \in 1 .. Len(t) : g[j] = value[j - 1] * 10 + (t[j] - Zero)
    <3> HIDE DEF Is
    <3> QED
      BY ONLY <2>1, <2>3
  <2> QED
    BY <2>2, <2>4, Zenon
<1>12. \A k \in 0 .. Len(t) : value[k] \in Int
  <2> DEFINE Good == {k \in Nat : k <= Len(t) => value[k] \in Int}
  <2>1. 0 \in Good
    BY <1>11
  <2>2. ASSUME NEW k \in Nat, k \in Good
        PROVE  k + 1 \in Good
    <3> SUFFICES ASSUME k + 1 <= Len(t) PROVE value[k + 1] \in Int
      OBVIOUS
    <3>1. k + 1 \in 1 .. Len(t) /\ value[k] \in Int /\ (k + 1) - 1 = k
      BY <1>1, <2>2
    <3>2. value[k + 1] = value[k] * 10 + (t[k + 1] - Zero)
      BY <1>11, <3>1
    <3> QED
      BY <1>1, <3>1, <3>2 DEF Zero
  <2> HIDE DEF Good
  <2>3. Nat \subseteq Good
    BY <2>1, <2>2, Induction
  <2> QED
    BY <1>1, <2>3 DEF Good
<1> QED
  BY <1>10, <1>11, <1>12

-----------------------------------------------------------------------------
(* reverse and reverse1: what is returned of the digits and what is left   *)
(* have the reversal of the number.                                        *)

SameReversal(n) ==
  n \in Nat /\ u \in Nat /\ res \in Nat /\ ReversalFrom[<<u, res>>] = ReversalFrom[<<n, 0>>]

ReversalInv ==
  callee \in {"reverse", "reverse1"} =>
    /\ arg \in Ints
    /\ intsPc = "loop" => SameReversal(Sign(arg) * arg) /\ (callee = "reverse1" /\ u = 0 => res = 0)
    /\ ReversalRight

\* A digit more, and no digit less.
LEMMA DigitMoves ==
  ASSUME NEW n \in Nat, NEW r \in Nat
  PROVE  /\ n % 10 \in 0 .. 9 /\ (n - (n % 10)) \div 10 = n \div 10
         /\ n \div 10 \in Nat /\ r * 10 + (n % 10) \in Nat
         /\ ReversalFrom[<<n, r>>] = IF n = 0 THEN r ELSE ReversalFrom[<<n \div 10, r * 10 + (n % 10)>>]
<1>1. n % 10 \in 0 .. 9 /\ n \div 10 \in Nat /\ n = (n \div 10) * 10 + (n % 10)
  OBVIOUS
<1>2. (n - (n % 10)) \div 10 = n \div 10
  <2>1. PICK q \in Nat, d \in 0 .. 9 : q = n \div 10 /\ d = n % 10 /\ n = q * 10 + d
    BY <1>1
  <2>2. n - d = q * 10
    BY <2>1
  <2> QED
    BY <2>1, <2>2
<1> QED
  BY <1>1, <1>2, ReversalZero, ReversalNext

LEMMA InitReversal ==
  ASSUME IntsInit
  PROVE  ReversalInv
<1> SUFFICES ASSUME callee \in {"reverse", "reverse1"}
             PROVE  ReversalInv
  BY DEF ReversalInv
<1>1. arg \in Ints /\ IntMax \in Nat
  BY CallsAssumption, IntMaxAssumption DEF IntsInit
<1>2. u = Unsigned(Abs(arg)) /\ res = 0 /\ intsPc = "loop"
  BY DEF IntsInit
<1>3. Unsigned(Abs(arg)) = Sign(arg) * arg /\ Sign(arg) * arg \in Nat
  BY <1>1 DEF Unsigned, Abs, Sign, Ints
<1>4. ReversalRight
  BY <1>2 DEF ReversalRight
<1> QED
  BY <1>1, <1>2, <1>3, <1>4 DEF ReversalInv, SameReversal

\* The number of which nothing is left is what is returned, with its sign.
LEMMA ReversalReturned ==
  ASSUME callee \in {"reverse", "reverse1"}, NEW r \in Nat, r <= IntMax,
         ReversalFrom[<<Sign(arg) * arg, 0>>] = r, callee' = callee, arg' = arg, res' = Sign(arg) * r
  PROVE  ReversalRight'
BY IntMaxAssumption DEF ReversalRight

\* A number whose reversal is not an int is returned as 0.
LEMMA ZeroReturned ==
  ASSUME callee \in {"reverse", "reverse1"}, NEW r \in Nat, r > IntMax,
         ReversalFrom[<<Sign(arg) * arg, 0>>] = r, callee' = callee, arg' = arg, res' = 0
  PROVE  ReversalRight'
BY IntMaxAssumption DEF ReversalRight

LEMMA ReverseKeepsReversal ==
  ASSUME ReversalInv, ReverseInv, ReverseStep
  PROVE  ReversalInv'
<1> DEFINE n == Sign(arg) * arg
<1>1. /\ intsPc = "loop" /\ callee = "reverse" /\ callee' = "reverse" /\ arg' = arg /\ arg \in Ints
      /\ u \in Nat /\ res \in 0 .. IntMax /\ IntMax \in Nat /\ n \in Nat
      /\ ReversalFrom[<<u, res>>] = ReversalFrom[<<n, 0>>]
  BY IntMaxAssumption DEF ReverseStep, ReversalInv, ReverseInv, SameReversal
<1> DEFINE ost == u % 10
<1>2. /\ ost \in 0 .. 9 /\ (u - ost) \div 10 = u \div 10 /\ u \div 10 \in Nat /\ res * 10 + ost \in Nat
      /\ ReversalFrom[<<u, res>>] = IF u = 0 THEN res ELSE ReversalFrom[<<u \div 10, res * 10 + ost>>]
  <2>1. res \in Nat
    BY <1>1
  <2> QED
    BY <1>1, <2>1, DigitMoves
<1>3. CASE u = 0
  <2>1. res' = Sign(arg) * res /\ intsPc' = "done"
    BY <1>1, <1>3 DEF ReverseStep, Returns
  <2>2. ReversalRight'
    BY <1>1, <1>2, <1>3, <2>1, ReversalReturned
  <2> QED
    BY <1>1, <2>1, <2>2 DEF ReversalInv, Ints
<1>4. CASE u # 0 /\ NoRoom(ost)
  <2>1. res' = 0 /\ intsPc' = "done"
    BY <1>1, <1>4 DEF ReverseStep, Returns
  <2>2. res * 10 + ost > IntMax
    BY <1>1, <1>2, <1>4, IntMaxAssumption DEF NoRoom
  <2>3. PICK r \in Nat : r = ReversalFrom[<<u \div 10, res * 10 + ost>>] /\ r >= res * 10 + ost
    BY <1>2, ReversalGrows
  <2>4. r > IntMax /\ ReversalFrom[<<n, 0>>] = r
    BY <1>1, <1>2, <1>4, <2>2, <2>3
  <2>5. ReversalRight'
    BY <1>1, <2>1, <2>4, ZeroReturned
  <2> QED
    BY <1>1, <2>1, <2>5 DEF ReversalInv, Ints
<1>5. CASE u # 0 /\ ~NoRoom(ost)
  <2>1. res * 10 + ost \in 0 .. IntMax
    BY <1>1, <1>2, <1>5, RoomForDigit DEF NoRoom
  <2>2. res * 10 + ost \in Ints
    BY <1>1, <2>1 DEF Ints
  <2>3. res' = res * 10 + ost /\ u' = u \div 10 /\ intsPc' = "loop"
    BY <1>1, <1>2, <1>5, <2>2 DEF ReverseStep, Wrapped
  <2>4. SameReversal(n)'
    BY <1>1, <1>2, <1>5, <2>3 DEF SameReversal
  <2>5. ReversalRight'
    BY <2>3 DEF ReversalRight
  <2> QED
    BY <1>1, <2>3, <2>4, <2>5 DEF ReversalInv, Ints
<1> QED
  BY <1>3, <1>4, <1>5

LEMMA Reverse1KeepsReversal ==
  ASSUME IntMax \in Widths, ReversalInv, Reverse1Inv, Reverse1Inv', Reverse1Step
  PROVE  ReversalInv'
<1> DEFINE n == Sign(arg) * arg
<1>1. /\ intsPc = "loop" /\ callee = "reverse1" /\ callee' = "reverse1" /\ arg' = arg /\ arg \in Ints
      /\ u \in Nat /\ res \in Nat /\ IntMax \in Nat /\ IntMax >= 127 /\ n \in Nat
      /\ ReversalFrom[<<u, res>>] = ReversalFrom[<<n, 0>>] /\ (u = 0 => res = 0)
      /\ ~overflowed'
  BY IntMaxAssumption DEF Reverse1Step, ReversalInv, Reverse1Inv, SameReversal
<1> DEFINE cdig == u % 10
<1>2. /\ cdig \in 0 .. 9 /\ (u - cdig) \div 10 = u \div 10 /\ u \div 10 \in Nat /\ res * 10 + cdig \in Nat
      /\ ReversalFrom[<<u, res>>] = IF u = 0 THEN res ELSE ReversalFrom[<<u \div 10, res * 10 + cdig>>]
  BY <1>1, DigitMoves
<1>3. CASE NoRoom1
  <2>1. res' = 0 /\ intsPc' = "done"
    BY <1>1, <1>3 DEF Reverse1Step, Returns
  <2>2. res * 10 > IntMax /\ u # 0
    BY <1>1, <1>3 DEF NoRoom1
  <2>3. PICK r \in Nat : r = ReversalFrom[<<u \div 10, res * 10 + cdig>>] /\ r >= res * 10 + cdig
    BY <1>2, ReversalGrows
  <2>4. r > IntMax /\ ReversalFrom[<<n, 0>>] = r
    BY <1>1, <1>2, <2>2, <2>3
  <2>5. ReversalRight'
    BY <1>1, <2>1, <2>4, ZeroReturned
  <2> QED
    BY <1>1, <2>1, <2>5 DEF ReversalInv, Ints
<1>4. CASE ~NoRoom1
  <2>1. overflowed' = (overflowed \/ res * 10 + cdig \notin Ints) /\ u' = u \div 10
    BY <1>1, <1>2, <1>4 DEF Reverse1Step
  <2>2. res * 10 + cdig \in Ints
    BY <1>1, <2>1
  <2>3. Wrapped(res * 10 + cdig) = res * 10 + cdig /\ res * 10 + cdig <= IntMax
    BY <1>1, <1>2, <2>2 DEF Wrapped, Ints
  <2>4. CASE u \div 10 = 0
    <3>1. intsPc' = "done" /\ res' = Sign(arg) * (res * 10 + cdig)
      BY <1>1, <1>2, <1>4, <2>1, <2>3, <2>4 DEF Reverse1Step, Returns
    <3>2. ReversalFrom[<<n, 0>>] = res * 10 + cdig
      <4>1. CASE u = 0
        BY <1>1, <1>2, <4>1
      <4>2. CASE u # 0
        BY <1>1, <1>2, <2>4, <4>2, ReversalZero
      <4> QED
        BY <4>1, <4>2
    <3>3. ReversalRight'
      BY <1>1, <1>2, <2>3, <3>1, <3>2, ReversalReturned
    <3> QED
      BY <1>1, <3>1, <3>3 DEF ReversalInv, Ints
  <2>5. CASE u \div 10 # 0
    <3>1. intsPc' = "loop" /\ res' = res * 10 + cdig /\ u # 0
      BY <1>1, <1>2, <1>4, <2>1, <2>3, <2>5 DEF Reverse1Step
    <3>2. SameReversal(n)'
      BY <1>1, <1>2, <2>1, <3>1 DEF SameReversal
    <3>3. ReversalRight'
      BY <3>1 DEF ReversalRight
    <3> QED
      BY <1>1, <2>1, <2>5, <3>1, <3>2, <3>3 DEF ReversalInv, Ints
  <2> QED
    BY <2>4, <2>5
<1> QED
  BY <1>3, <1>4

-----------------------------------------------------------------------------
(* stoi: what was left after each digit.  The digits of the smallest int   *)
(* are negative, and have the list of what is left.                        *)

Peeled(us, n, t, left) ==
  /\ us \in [0 .. Len(t) -> Nat] /\ us[0] = n /\ us[Len(t)] = left
  /\ \A j \in 1 .. Len(t) : t[j] \in 0 .. 9 /\ us[j - 1] = us[j] * 10 + t[j] /\ us[j - 1] # 0

PeeledFrom(n) == text \in Seq(Int) /\ \E us : Peeled(us, n, text, u)

LeftOfSmallest ==
  IF IntMax = 32767 THEN {-32768, -3276, -327, -32, -3, 0}
  ELSE {-2147483648, -214748364, -21474836, -2147483, -214748, -21474, -2147, -214, -21, -2, 0}

DecimalInv ==
  callee = "stoi" =>
    /\ arg \in Ints
    /\ intsPc = "loop" => IF arg = -IntMax - 1 THEN text \in Seq(-8 .. 0) /\ u \in LeftOfSmallest
                          ELSE PeeledFrom(Sign(arg) * arg)
    /\ DecimalRight

LEMMA InitDecimal ==
  ASSUME IntMax \in Widths, IntsInit
  PROVE  DecimalInv
<1> SUFFICES ASSUME callee = "stoi"
             PROVE  DecimalInv
  BY DEF DecimalInv
<1>1. arg \in Ints /\ IntMax \in Nat
  BY CallsAssumption, IntMaxAssumption DEF IntsInit
<1>2. u = Abs(arg) /\ text = <<>> /\ intsPc = "loop"
  BY DEF IntsInit
<1>3. DecimalRight
  BY <1>2 DEF DecimalRight
<1>4. CASE arg = -IntMax - 1
  <2>1. u \in LeftOfSmallest
    BY <1>2, <1>4 DEF Widths, LeftOfSmallest, Abs
  <2>2. text \in Seq(-8 .. 0)
    BY <1>2
  <2> QED
    BY <1>1, <1>3, <1>4, <2>1, <2>2 DEF DecimalInv
<1>5. CASE arg # -IntMax - 1
  <2>1. u = Sign(arg) * arg /\ u \in Nat
    BY <1>1, <1>2, <1>5 DEF Abs, Sign, Ints
  <2>2. Peeled([k \in 0 .. 0 |-> u], u, <<>>, u)
    BY <2>1 DEF Peeled
  <2>3. PeeledFrom(Sign(arg) * arg)
    BY <1>2, <2>1, <2>2 DEF PeeledFrom
  <2> QED
    BY <1>1, <1>3, <1>5, <2>3 DEF DecimalInv
<1> QED
  BY <1>4, <1>5

\* The list is that of the quotients, whose remainders are at least -8.
LEMMA SmallestDigit ==
  ASSUME IntMax \in Widths, NEW n \in LeftOfSmallest, n # 0
  PROVE  Quotient(n, 10) \in LeftOfSmallest /\ Remainder(n, 10) \in -8 .. 0
<1>1. CASE IntMax = 32767
  BY <1>1 DEF LeftOfSmallest, Quotient, Remainder, Sign
<1>2. CASE IntMax = 2147483647
  BY <1>2 DEF LeftOfSmallest, Quotient, Remainder, Sign
<1> QED
  BY <1>1, <1>2 DEF Widths

LEMMA PeelOne ==
  ASSUME NEW t \in Seq(Int), NEW n, NEW left \in Nat, left # 0, NEW us, Peeled(us, n, t, left)
  PROVE  \E vs : Peeled(vs, n, Append(t, left % 10), left \div 10)
<1>1. PICK q \in Nat, d \in 0 .. 9 : q = left \div 10 /\ d = left % 10 /\ left = q * 10 + d
  OBVIOUS
<1>2. PICK m \in Nat : m = Len(t)
  OBVIOUS
<1>3. PICK s : s = Append(t, d)
  OBVIOUS
<1>4. Len(s) = m + 1 /\ s[m + 1] = d /\ \A j \in 1 .. m : s[j] = t[j]
  BY <1>1, <1>2, <1>3
<1>5. PICK vs : vs = [k \in 0 .. m + 1 |-> IF k = m + 1 THEN q ELSE us[k]]
  OBVIOUS
<1>6. us \in [0 .. m -> Nat] /\ us[0] = n /\ us[m] = left
  BY <1>2 DEF Peeled
<1>7. vs \in [0 .. m + 1 -> Nat] /\ vs[0] = n /\ vs[m + 1] = q /\ \A k \in 0 .. m : vs[k] = us[k]
  <2>1. 0 \in 0 .. m /\ 0 # m + 1 /\ m + 1 \in 0 .. m + 1 /\ \A k \in 0 .. m : k \in 0 .. m + 1 /\ k # m + 1
    OBVIOUS
  <2>2. vs[m + 1] = q /\ \A k \in 0 .. m : vs[k] = us[k]
    BY ONLY <1>5, <2>1
  <2>3. \A k \in 0 .. m + 1 : vs[k] \in Nat
    <3>1. \A k \in 0 .. m + 1 : k = m + 1 \/ k \in 0 .. m
      OBVIOUS
    <3>2. \A k \in 0 .. m : us[k] \in Nat
      BY <1>6
    <3> QED
      BY <2>2, <3>1, <3>2
  <2>4. vs \in [0 .. m + 1 -> Nat]
    BY <1>5, <2>3
  <2> QED
    BY <1>6, <2>1, <2>2, <2>4
<1>8. ASSUME NEW j \in 1 .. m + 1
      PROVE  s[j] \in 0 .. 9 /\ vs[j - 1] = vs[j] * 10 + s[j] /\ vs[j - 1] # 0
  <2>1. CASE j = m + 1
    <3>1. vs[j - 1] = left /\ vs[j] = q /\ s[j] = d
      BY <1>2, <1>4, <1>6, <1>7, <2>1
    <3> QED
      BY <1>1, <3>1
  <2>2. CASE j # m + 1
    <3>1. j \in 1 .. m /\ j - 1 \in 0 .. m /\ j \in 0 .. m
      BY <1>2, <2>2
    <3>2. t[j] \in 0 .. 9 /\ us[j - 1] = us[j] * 10 + t[j] /\ us[j - 1] # 0
      BY <1>2, <3>1 DEF Peeled
    <3> QED
      BY <1>4, <1>7, <3>1, <3>2
  <2> QED
    BY <2>1, <2>2
<1>9. Peeled(vs, n, s, q)
  BY <1>4, <1>7, <1>8 DEF Peeled
<1> QED
  BY <1>1, <1>3, <1>9

LEMMA StoiDigitKeepsDecimal ==
  ASSUME IntMax \in Widths, DecimalInv, StoiDigit
  PROVE  DecimalInv'
<1>1. /\ callee = "stoi" /\ callee' = "stoi" /\ arg' = arg /\ arg \in Ints /\ IntMax \in Nat
      /\ intsPc = "loop" /\ intsPc' = "loop" /\ u # 0
      /\ text' = Append(text, Remainder(u, 10)) /\ u' = Quotient(u, 10)
  BY IntMaxAssumption DEF StoiDigit, DecimalInv
<1>2. DecimalRight'
  BY <1>1 DEF DecimalRight
<1>3. CASE arg = -IntMax - 1
  <2>1. text \in Seq(-8 .. 0) /\ u \in LeftOfSmallest
    BY <1>1, <1>3 DEF DecimalInv
  <2>2. u' \in LeftOfSmallest /\ Remainder(u, 10) \in -8 .. 0
    BY <1>1, <2>1, SmallestDigit
  <2>3. text' \in Seq(-8 .. 0)
    BY <1>1, <2>1, <2>2
  <2> QED
    BY <1>1, <1>2, <1>3, <2>2, <2>3 DEF DecimalInv, LeftOfSmallest, Ints
<1>4. CASE arg # -IntMax - 1
  <2> DEFINE n == Sign(arg) * arg
  <2>1. PeeledFrom(n)
    BY <1>1, <1>4 DEF DecimalInv
  <2>2. PICK us : Peeled(us, n, text, u)
    BY <2>1 DEF PeeledFrom
  <2>3. text \in Seq(Int) /\ u \in Nat
    <3>1. text \in Seq(Int)
      BY <2>1 DEF PeeledFrom
    <3>2. Len(text) \in 0 .. Len(text)
      BY <3>1
    <3> QED
      BY <2>2, <3>1, <3>2 DEF Peeled
  <2>4. Quotient(u, 10) = u \div 10 /\ Remainder(u, 10) = u % 10
    BY <2>3 DEF Quotient, Remainder, Sign
  <2>5. text' = Append(text, u % 10) /\ u' = u \div 10 /\ u % 10 \in Int
    BY <1>1, <2>3, <2>4
  <2>6. text' \in Seq(Int)
    BY <2>3, <2>5
  <2>7. \E vs : Peeled(vs, n, text', u')
    BY <1>1, <2>2, <2>3, <2>5, PeelOne
  <2>8. PeeledFrom(n)'
    BY <1>1, <2>6, <2>7 DEF PeeledFrom
  <2> QED
    BY <1>1, <1>2, <1>4, <2>8 DEF DecimalInv, Ints
<1> QED
  BY <1>3, <1>4

\* The digits in their order are the number.
LEMMA DigitsAreNumber ==
  ASSUME NEW t \in Seq(Int), NEW n, NEW us, Peeled(us, n, t, 0)
  PROVE  /\ Backwards(t) \in Seq(Zero .. Zero + 9) /\ Len(Backwards(t)) = Len(t)
         /\ ValueTo(Backwards(t), Len(t)) = n
         /\ Len(t) = 0 <=> n = 0
         /\ n # 0 => Head(Backwards(t)) # Zero
<1>1. PICK m \in Nat : m = Len(t)
  OBVIOUS
<1>2. PICK d : d = Backwards(t)
  OBVIOUS
<1>3. \A j \in 1 .. m : t[j] \in 0 .. 9 /\ us[j - 1] = us[j] * 10 + t[j] /\ us[j - 1] # 0
  BY <1>1 DEF Peeled
<1>4. us \in [0 .. m -> Nat] /\ us[0] = n /\ us[m] = 0
  BY <1>1 DEF Peeled
<1>5. d = [k \in 1 .. m |-> Zero + t[m + 1 - k]]
  BY <1>1, <1>2 DEF Backwards
<1>6. ASSUME NEW k \in 1 .. m
      PROVE  d[k] \in Zero .. Zero + 9
  <2>1. m + 1 - k \in 1 .. m
    OBVIOUS
  <2>2. PICK c \in 0 .. 9 : d[k] = Zero + c
    BY <1>3, <1>5, <2>1
  <2> QED
    BY <2>2 DEF Zero
<1>7. d \in Seq(Zero .. Zero + 9) /\ Len(d) = m
  BY <1>5, <1>6
<1>8. d \in Seq(Int)
  BY <1>7 DEF Zero
<1>9. /\ ValueTo(d, 0) = 0
      /\ \A k \in 1 .. m : ValueTo(d, k) = ValueTo(d, k - 1) * 10 + (d[k] - Zero)
  BY <1>7, <1>8, ValueIs
<1>10. \A k \in Nat : k <= m => ValueTo(d, k) = us[m - k]
  <2> DEFINE Good == {k \in Nat : k <= m => ValueTo(d, k) = us[m - k]}
  <2>1. 0 \in Good
    BY <1>4, <1>9
  <2>2. ASSUME NEW k \in Nat, k \in Good
        PROVE  k + 1 \in Good
    <3> SUFFICES ASSUME k + 1 <= m PROVE ValueTo(d, k + 1) = us[m - (k + 1)]
      OBVIOUS
    <3>1. /\ k + 1 \in 1 .. m /\ (k + 1) - 1 = k /\ m - k \in 1 .. m /\ (m - k) - 1 = m - (k + 1)
          /\ m + 1 - (k + 1) = m - k
      OBVIOUS
    <3>2. ValueTo(d, k + 1) = us[m - k] * 10 + (d[k + 1] - Zero)
      BY <1>9, <2>2, <3>1
    <3>3. d[k + 1] = Zero + t[m - k]
      BY <1>5, <3>1
    <3>4. us[m - (k + 1)] = us[m - k] * 10 + t[m - k] /\ t[m - k] \in 0 .. 9
      BY <1>3, <3>1
    <3>5. PICK b \in Nat : b = us[m - k]
      BY <1>4, <3>1
    <3>6. PICK c \in 0 .. 9 : c = t[m - k]
      BY <3>4
    <3>7. ValueTo(d, k + 1) = b * 10 + ((Zero + c) - Zero)
      BY <3>2, <3>3, <3>5, <3>6, Zenon
    <3>8. (Zero + c) - Zero = c
      BY DEF Zero
    <3> QED
      BY <3>4, <3>5, <3>6, <3>7, <3>8, Zenon
  <2> HIDE DEF Good
  <2>3. Nat \subseteq Good
    BY <2>1, <2>2, Induction
  <2> QED
    BY <2>3 DEF Good
<1>11. ValueTo(d, m) = n
  BY <1>4, <1>10
<1>12. m = 0 <=> n = 0
  BY <1>3, <1>4
<1>13. n # 0 => Head(d) # Zero
  <2> SUFFICES ASSUME n # 0 PROVE Head(d) # Zero
    OBVIOUS
  <2>1. m >= 1 /\ m \in 1 .. m /\ 1 \in 1 .. m
    BY <1>12
  <2>2. t[m] # 0 /\ t[m] \in 0 .. 9
    BY <1>3, <1>4, <2>1
  <2>3. d[1] = Zero + t[m] /\ Head(d) = d[1]
    BY <1>5, <1>7, <2>1
  <2> QED
    BY <2>2, <2>3 DEF Zero
<1> QED
  BY <1>1, <1>2, <1>7, <1>11, <1>12, <1>13

LEMMA StoiWritesKeepsDecimal ==
  ASSUME IntMax \in Widths, DecimalInv, StoiWrites
  PROVE  DecimalInv'
<1> DEFINE b == Backwards(text)
<1>1. /\ callee = "stoi" /\ callee' = "stoi" /\ arg' = arg /\ arg \in Ints /\ IntMax \in Nat /\ IntMax >= 127
      /\ intsPc = "loop" /\ intsPc' = "done" /\ u = 0
      /\ text' = (IF arg < 0 THEN <<Minus>> ELSE <<>>) \o b
  BY IntMaxAssumption DEF StoiWrites, DecimalInv, Returns
<1>2. ASSUME b \in Seq(Int)
      PROVE  /\ arg < 0 => Tail(text') = b /\ Head(text') = Minus
             /\ ~(arg < 0) => text' = b
  <2>1. CASE arg < 0
    <3>1. text' = <<Minus>> \o b
      BY <1>1, <2>1
    <3>2. PICK c \in Seq(Int) : c = b
      BY <1>2
    <3>3. Tail(<<Minus>> \o c) = c /\ Head(<<Minus>> \o c) = Minus
      BY DEF Minus
    <3> QED
      BY <2>1, <3>1, <3>2, <3>3
  <2>2. CASE ~(arg < 0)
    <3>1. text' = <<>> \o b
      BY <1>1, <2>2
    <3>2. PICK c \in Seq(Int) : c = b
      BY <1>2
    <3>3. <<>> \o c = c
      OBVIOUS
    <3> QED
      BY <2>2, <3>1, <3>2, <3>3
  <2> QED
    BY <2>1, <2>2
<1>3. CASE arg = -IntMax - 1
  <2>1. text \in Seq(-8 .. 0)
    BY <1>1, <1>3 DEF DecimalInv
  <2>2. PICK m \in Nat : m = Len(text)
    BY <2>1
  <2>3. b = [k \in 1 .. m |-> Zero + text[m + 1 - k]]
    BY <2>1, <2>2 DEF Backwards
  <2>4. ASSUME NEW k \in 1 .. m
        PROVE  b[k] \in Zero - 8 .. Zero
    <3>1. m + 1 - k \in 1 .. m
      OBVIOUS
    <3>2. text[m + 1 - k] \in -8 .. 0
      BY <2>1, <2>2, <3>1
    <3>3. b[k] = Zero + text[m + 1 - k]
      BY <2>3
    <3> QED
      BY <3>2, <3>3 DEF Zero
  <2> HIDE DEF b
  <2>5. b \in Seq(Zero - 8 .. Zero) /\ DOMAIN b = 1 .. m
    BY <2>3, <2>4
  <2>6. b \in Seq(Int)
    BY <2>5 DEF Zero
  <2>7. Tail(text') = b /\ Head(text') = Minus /\ arg < 0 /\ arg # 0
    BY <1>1, <1>2, <1>3, <2>6
  <2>8. DecimalRight'
    BY <1>1, <1>3, <2>4, <2>5, <2>7 DEF DecimalRight
  <2> QED
    BY <1>1, <2>8 DEF DecimalInv, Ints
<1>4. CASE arg # -IntMax - 1
  <2> DEFINE n == Sign(arg) * arg
  <2>1. text \in Seq(Int) /\ \E us : Peeled(us, n, text, 0)
    BY <1>1, <1>4 DEF DecimalInv, PeeledFrom
  <2>2. PICK us : Peeled(us, n, text, 0)
    BY <2>1
  <2>3. /\ b \in Seq(Zero .. Zero + 9) /\ Len(b) = Len(text)
        /\ ValueTo(b, Len(text)) = n
        /\ Len(text) = 0 <=> n = 0
        /\ n # 0 => Head(b) # Zero
    BY <2>1, <2>2, DigitsAreNumber
  <2> HIDE DEF b
  <2>4. b \in Seq(Int) /\ \A k \in DOMAIN b : b[k] \in Zero .. Zero + 9
    BY <2>3 DEF Zero
  <2>5. n = 0 <=> arg = 0
    BY <1>1 DEF Sign, Ints
  <2>6. CASE arg = 0
    <3>1. text' = <<>>
      BY <1>1, <1>2, <2>3, <2>4, <2>5, <2>6
    <3>2. DecimalRight'
      BY <1>1, <2>6, <3>1 DEF DecimalRight
    <3> QED
      BY <1>1, <3>2 DEF DecimalInv, Ints
  <2>7. CASE arg # 0
    <3> DEFINE wrote == IF arg < 0 THEN Tail(text') ELSE text'
    <3>1. wrote = b /\ (arg < 0 => Head(text') = Minus)
      BY <1>2, <2>4
    <3>2. b # <<>> /\ Head(b) # Zero /\ ValueTo(b, Len(b)) = n
      BY <2>1, <2>3, <2>5, <2>7
    <3> HIDE DEF n
    <3>3. DecimalRight' = (LET ds == wrote
                           IN  /\ arg < 0 => Head(text') = Minus
                               /\ ds # <<>> /\ Head(ds) # Zero
                               /\ \A k \in DOMAIN ds : ds[k] \in Zero .. Zero + 9
                               /\ ValueTo(ds, Len(ds)) = n)
      BY <1>1, <1>4, <2>7, Zenon DEF DecimalRight, n
    <3>4. DecimalRight'
      BY <2>4, <3>1, <3>2, <3>3, Zenon
    <3> QED
      BY <1>1, <3>4 DEF DecimalInv, Ints
  <2> QED
    BY <2>6, <2>7
<1> QED
  BY <1>3, <1>4

-----------------------------------------------------------------------------
(* atoi: the value of the digits taken, as long as it is an int.           *)

Digits(k) == \A j \in 1 .. k : IsDigit(arg[j])

Taken(k) ==
  /\ Digits(k)
  /\ ValueTo(arg, k) \in Nat
  /\ ValueTo(arg, k) <= IntMax => res = ValueTo(arg, k)
  /\ overflowed <=> (k > 0 /\ ValueTo(arg, k) > IntMax - Zero)

Rest(k) == text \in Seq(Int) /\ Len(text) = Len(arg) - k /\ \A j \in 1 .. Len(text) : text[j] = arg[k + j]

AtoiInv ==
  callee = "atoi" =>
    /\ arg \in Texts /\ res \in Int
    /\ intsPc = "loop" => \E k \in 0 .. Len(arg) : Taken(k) /\ Rest(k)
    /\ AtoiRight

LEMMA SeqWider ==
  ASSUME NEW S, NEW W, S \subseteq W, NEW s \in Seq(S)
  PROVE  s \in Seq(W)
OBVIOUS

LEMMA UptoAreInts ==
  ASSUME NEW n \in Int
  PROVE  0 .. n \subseteq Int
OBVIOUS

\* The characters of a text are numbers.
LEMMA TextIsInts ==
  ASSUME NEW t \in Texts
  PROVE  t \in Seq(Int)
<1>1. 127 \in Int
  OBVIOUS
<1>2. 0 .. 127 \subseteq Int
  BY <1>1, UptoAreInts, Zenon
<1>3. t \in Seq(0 .. 127)
  BY CallsAssumption, Zenon
<1> QED
  BY <1>2, <1>3, SeqWider, Zenon

LEMMA InitAtoi ==
  ASSUME IntsInit
  PROVE  AtoiInv
<1> SUFFICES ASSUME callee = "atoi"
             PROVE  AtoiInv
  BY DEF AtoiInv
<1>1. arg \in Texts /\ text = arg /\ res = 0 /\ overflowed = FALSE /\ intsPc = "loop"
  BY DEF IntsInit
<1>2. arg \in Seq(Int)
  BY <1>1, TextIsInts
<1>3. ValueTo(arg, 0) = 0
  BY <1>2, ValueIs
<1>4. Taken(0)
  BY <1>1, <1>3, IntMaxAssumption DEF Taken, Digits
<1>5. Rest(0)
  BY <1>1, <1>2 DEF Rest
<1>6. 0 \in 0 .. Len(arg)
  BY <1>2
<1>7. AtoiRight
  BY <1>1 DEF AtoiRight
<1>8. \E k \in 0 .. Len(arg) : Taken(k) /\ Rest(k)
  BY <1>4, <1>5, <1>6
<1>9. arg \in Texts /\ res \in Int
  BY <1>1
<1> QED
  BY <1>7, <1>8, <1>9, Zenon DEF AtoiInv

LEMMA OnceRound ==
  ASSUME NEW c \in Nat, NEW r \in Nat, r < c
  PROVE  (c + r) % c = r /\ (r - c) % c = r
OBVIOUS

\* An int that wraps once round, in the product's sum or when '0' is subtracted.
LEMMA WrapsBack ==
  ASSUME NEW v \in Nat, v <= IntMax, v > IntMax - Zero
  PROVE  /\ Wrapped(v + Zero) = v + Zero - 2 * (IntMax + 1)
         /\ Wrapped(v - 2 * (IntMax + 1)) = v
<1>1. PICK h \in Nat : h = IntMax + 1 /\ h > 127 /\ IntMax \in Nat
  BY IntMaxAssumption
<1>2. Wrapped(v + Zero) = v + Zero - 2 * h
  <2>1. PICK r \in Nat : r = v + Zero - h /\ r < 2 * h
    BY <1>1 DEF Zero
  <2>2. v + Zero \notin Ints /\ v + Zero + IntMax + 1 = 2 * h + r
    BY <1>1, <2>1 DEF Ints, Zero
  <2>3. (2 * h + r) % (2 * h) = r
    BY <1>1, <2>1, OnceRound
  <2>4. Wrapped(v + Zero) = r - IntMax - 1
    BY <1>1, <2>2, <2>3 DEF Wrapped
  <2> QED
    BY <1>1, <2>1, <2>4 DEF Zero
<1>3. Wrapped(v - 2 * h) = v
  <2>1. PICK r \in Nat : r = v + h /\ r < 2 * h
    BY <1>1
  <2>2. v - 2 * h \notin Ints /\ v - 2 * h + IntMax + 1 = r - 2 * h
    BY <1>1, <2>1 DEF Ints
  <2>3. (r - 2 * h) % (2 * h) = r
    BY <1>1, <2>1, OnceRound
  <2>4. Wrapped(v - 2 * h) = r - IntMax - 1
    BY <1>1, <2>2, <2>3 DEF Wrapped
  <2> QED
    BY <1>1, <2>1, <2>4
<1> QED
  BY <1>1, <1>2, <1>3

\* One digit of the text, of which the value so far is v.
LEMMA DigitAdded ==
  ASSUME NEW v \in Nat, v <= IntMax, NEW ch \in Zero .. Zero + 9,
         NEW next, next = v * 10 + (ch - Zero)
  PROVE  LET product == v * 10
             sum     == Wrapped(product) + ch
         IN  /\ next <= IntMax => Wrapped(Wrapped(sum) - Zero) = next
             /\ ({product, sum, Wrapped(sum) - Zero} \ Ints # {}) <=> next > IntMax - Zero
<1> DEFINE product == v * 10
           sum     == Wrapped(product) + ch
<1>1. IntMax \in Nat /\ IntMax >= 127 /\ product \in Nat /\ next \in Nat /\ ch \in Nat /\ next = product + (ch - Zero)
  BY IntMaxAssumption DEF Zero
<1> HIDE DEF product
<1>2. CASE product > IntMax
  <2>1. product \notin Ints /\ next > IntMax
    BY <1>1, <1>2 DEF Ints, Zero
  <2> QED
    BY <1>1, <2>1 DEF Zero, product
<1>3. CASE product <= IntMax
  <2>1. product \in Ints /\ sum = product + ch /\ sum = next + Zero /\ sum \in Nat
    BY <1>1, <1>3 DEF Ints, Wrapped, Zero
  <2> HIDE DEF sum
  <2>2. CASE sum <= IntMax
    <3>1. sum \in Ints /\ Wrapped(sum) = sum /\ sum - Zero = next /\ next \in Ints /\ Wrapped(next) = next
      BY <1>1, <2>1, <2>2 DEF Ints, Wrapped, Zero
    <3>2. ~(next > IntMax - Zero) /\ {product, sum, Wrapped(sum) - Zero} \ Ints = {}
      BY <1>1, <2>1, <2>2, <3>1 DEF Zero
    <3> QED
      BY <3>1, <3>2 DEF product, sum
  <2>3. CASE sum > IntMax
    <3>1. sum \notin Ints /\ next > IntMax - Zero
      BY <1>1, <2>1, <2>3 DEF Ints, Zero
    <3>2. next <= IntMax => Wrapped(Wrapped(sum) - Zero) = next
      <4> SUFFICES ASSUME next <= IntMax PROVE Wrapped(Wrapped(sum) - Zero) = next
        OBVIOUS
      <4>1. Wrapped(sum) = next + Zero - 2 * (IntMax + 1) /\ Wrapped(next - 2 * (IntMax + 1)) = next
        BY <1>1, <2>1, <3>1, WrapsBack
      <4>2. Wrapped(sum) - Zero = next - 2 * (IntMax + 1)
        BY <1>1, <4>1 DEF Zero
      <4> QED
        BY <4>1, <4>2, Zenon
    <3> QED
      BY <3>1, <3>2 DEF product, sum
  <2> QED
    BY <1>1, <2>1, <2>2, <2>3
<1> QED
  BY <1>1, <1>2, <1>3

LEMMA Between ==
  ASSUME NEW ch \in Int, NEW z \in Int
  PROVE  ch \in z .. z + 9 <=> (ch >= z /\ ch <= z + 9)
OBVIOUS

LEMMA DigitIs ==
  ASSUME NEW ch \in Int
  PROVE  IsDigit(ch) <=> ch \in Zero .. Zero + 9
<1>1. Zero \in Int
  BY DEF Zero
<1> HIDE DEF Zero
<1> QED
  BY <1>1, Between DEF IsDigit

\* The digits taken are all there are before the end, or before another character.
LEMMA AtoiReturns ==
  ASSUME callee = "atoi", arg \in Texts, res \in Int, NEW k \in 0 .. Len(arg),
         Taken(k), Rest(k), ~(text # <<>> /\ IsDigit(Head(text))),
         callee' = callee, arg' = arg, res' = res, overflowed' = overflowed
  PROVE  AtoiRight'
<1>1. arg \in Seq(Int)
  BY TextIsInts
<1>2. \A j \in 1 .. Len(arg) : arg[j] \in Int /\ (IsDigit(arg[j]) <=> arg[j] \in Zero .. Zero + 9)
  <2>1. \A j \in 1 .. Len(arg) : arg[j] \in Int
    BY <1>1
  <2> QED
    BY <2>1, DigitIs, Zenon
<1>3. k < Len(arg) => ~IsDigit(arg[k + 1])
  <2> SUFFICES ASSUME k < Len(arg) PROVE ~IsDigit(arg[k + 1])
    OBVIOUS
  <2>1. Len(text) >= 1 /\ text \in Seq(Int) /\ 1 \in 1 .. Len(text)
    BY <1>1 DEF Rest
  <2>2. text # <<>> /\ Head(text) = text[1] /\ text[1] = arg[k + 1]
    BY <2>1 DEF Rest
  <2> QED
    BY <2>2
<1> DEFINE Front(m) == /\ \A j \in 1 .. m : arg[j] \in Zero .. Zero + 9
                       /\ m < Len(arg) => arg[m + 1] \notin Zero .. Zero + 9
<1>4. Front(k)
  <2>1. Len(arg) \in Nat /\ k \in Nat /\ k <= Len(arg) /\ (k < Len(arg) => k + 1 \in 1 .. Len(arg))
    BY <1>1
  <2>2. \A j \in 1 .. k : j \in 1 .. Len(arg)
    BY <2>1
  <2>3. \A j \in 1 .. k : IsDigit(arg[j])
    BY DEF Taken, Digits
  <2> QED
    BY <1>2, <1>3, <2>1, <2>2, <2>3
<1>5. ASSUME NEW m \in 0 .. Len(arg), Front(m)
      PROVE  m = k
  <2>1. Len(arg) \in Nat /\ m \in Nat /\ k \in Nat /\ k <= Len(arg) /\ m <= Len(arg)
    BY <1>1
  <2>2. CASE m < k
    <3>1. m + 1 \in 1 .. k /\ m < Len(arg)
      BY <2>1, <2>2
    <3> QED
      BY <1>4, <1>5, <3>1
  <2>3. CASE k < m
    <3>1. k + 1 \in 1 .. m /\ k < Len(arg)
      BY <2>1, <2>3
    <3> QED
      BY <1>4, <1>5, <3>1
  <2> QED
    BY <2>1, <2>2, <2>3
<1> HIDE DEF Front
<1>6. (CHOOSE m \in 0 .. Len(arg) : Front(m)) = k
  BY <1>4, <1>5
<1>7. AtoiRight' = (intsPc' = "done" /\ callee = "atoi" =>
                      LET front == CHOOSE m \in 0 .. Len(arg) : Front(m)
                          value == ValueTo(arg, front)
                      IN  /\ value <= IntMax => res = value
                          /\ overflowed <=> (front > 0 /\ value > IntMax - Zero))
  BY Zenon DEF AtoiRight, Front
<1>8. /\ ValueTo(arg, k) <= IntMax => res = ValueTo(arg, k)
      /\ overflowed <=> (k > 0 /\ ValueTo(arg, k) > IntMax - Zero)
  BY DEF Taken
<1> QED
  BY <1>6, <1>7, <1>8, Zenon

LEMMA AtoiTakesDigit ==
  ASSUME callee = "atoi", arg \in Texts, res \in Int, NEW k \in 0 .. Len(arg),
         Taken(k), Rest(k), text # <<>>, IsDigit(Head(text)), AtoiStep
  PROVE  res' \in Int /\ arg' = arg /\ \E m \in 0 .. Len(arg) : (Taken(m) /\ Rest(m))'
<1>1. arg \in Seq(Int)
  BY TextIsInts
<1>2. text \in Seq(Int) /\ Len(text) = Len(arg) - k /\ \A j \in 1 .. Len(text) : text[j] = arg[k + j]
  BY DEF Rest
<1>3. Len(arg) \in Nat /\ k \in Nat /\ Len(text) \in Nat /\ Len(text) >= 1 /\ 1 \in 1 .. Len(text)
  BY <1>1, <1>2
<1>4. k + 1 \in 1 .. Len(arg) /\ k + 1 \in 0 .. Len(arg) /\ (k + 1) - 1 = k
  BY <1>2, <1>3
<1>5. Head(text) = arg[k + 1]
  BY <1>2, <1>3
<1>6. PICK ch \in Zero .. Zero + 9 : ch = Head(text)
  <2>1. Head(text) \in Int
    BY <1>2, <1>3
  <2>2. Head(text) \in Zero .. Zero + 9
    BY <2>1, DigitIs, Zenon
  <2> QED
    BY <2>2, Zenon
<1>7. PICK v \in Nat : v = ValueTo(arg, k)
  BY DEF Taken
<1>8. PICK next : next = v * 10 + (ch - Zero)
  OBVIOUS
<1>9. ValueTo(arg, k + 1) = next
  BY <1>1, <1>4, <1>5, <1>6, <1>7, <1>8, ValueIs
<1>10. next \in Nat /\ next >= v
  <2>1. PICK e \in Nat : e = ch - Zero
    <3>1. Zero \in Int /\ Zero + 9 \in Int
      BY DEF Zero
    <3> HIDE DEF Zero
    <3> QED
      BY <3>1
  <2>2. next = v * 10 + e
    BY <1>8, <2>1, Zenon
  <2> QED
    BY <2>2
<1> DEFINE product == res * 10
           sum     == Wrapped(product) + ch
           over    == {product, sum, Wrapped(sum) - Zero} \ Ints # {}
<1>11. /\ res' = Wrapped(Wrapped(sum) - Zero) /\ overflowed' = (overflowed \/ over)
       /\ text' = Tail(text) /\ arg' = arg
  BY <1>6 DEF AtoiStep, Advanced
<1>12. IntMax \in Nat /\ IntMax >= 127 /\ Zero = 48
  BY IntMaxAssumption DEF Zero
<1>13. \A n \in Int : Wrapped(n) \in Int
  BY <1>12 DEF Wrapped
<1>14. res' \in Int
  <2>1. product \in Int /\ ch \in Int
    BY <1>6, <1>12
  <2> HIDE DEF product
  <2>2. Wrapped(product) \in Int
    BY <1>13, <2>1
  <2>3. Wrapped(product) + ch \in Int
    BY <2>1, <2>2
  <2>4. Wrapped(sum) \in Int
    BY <1>13, <2>3
  <2> HIDE DEF sum
  <2>5. Wrapped(sum) - Zero \in Int
    BY <1>12, <2>4
  <2> QED
    BY <1>11, <1>13, <2>5
<1>15. /\ v <= IntMax => res = v
       /\ overflowed <=> (k > 0 /\ v > IntMax - Zero)
  BY <1>7 DEF Taken
<1>16. /\ next <= IntMax => res' = next
       /\ overflowed' <=> next > IntMax - Zero
  <2>1. CASE v <= IntMax
    <3>1. res = v
      BY <1>15, <2>1
    <3>2. (next <= IntMax => Wrapped(Wrapped(sum) - Zero) = next) /\ (over <=> next > IntMax - Zero)
      BY <1>8, <2>1, <3>1, DigitAdded
    <3>3. overflowed => next > IntMax - Zero
      BY <1>10, <1>12, <1>15
    <3> HIDE DEF sum, over
    <3> QED
      BY <1>11, <3>2, <3>3
  <2>2. CASE ~(v <= IntMax)
    <3>1. next > IntMax /\ next > IntMax - Zero /\ v > IntMax - Zero
      BY <1>10, <1>12, <2>2
    <3>2. k > 0
      <4>1. v # 0
        BY <1>12, <2>2
      <4>2. ValueTo(arg, 0) = 0
        BY <1>1, ValueIs
      <4> QED
        BY <1>3, <1>7, <4>1, <4>2
    <3>3. overflowed
      BY <1>15, <3>1, <3>2
    <3> HIDE DEF sum, over
    <3>4. ~(next <= IntMax)
      BY <1>10, <1>12, <3>1
    <3> QED
      BY <1>11, <3>1, <3>3, <3>4
  <2> QED
    BY <2>1, <2>2
<1>17. ASSUME NEW j \in 1 .. k + 1
       PROVE  IsDigit(arg[j])
  <2>1. j = k + 1 \/ j \in 1 .. k
    BY <1>3
  <2> QED
    BY <1>5, <2>1 DEF Taken, Digits
<1>18. Taken(k + 1)'
  <2>1. k + 1 > 0
    BY <1>3
  <2> QED
    BY <1>9, <1>10, <1>11, <1>16, <1>17, <2>1 DEF Taken, Digits
<1>19. Rest(k + 1)'
  <2>1. text' \in Seq(Int) /\ Len(text') = Len(text) - 1 /\ \A j \in 1 .. Len(text') : text'[j] = text[j + 1]
    BY <1>2, <1>3, <1>11
  <2>2. ASSUME NEW j \in 1 .. Len(text')
        PROVE  text'[j] = arg[k + 1 + j]
    <3>1. j + 1 \in 1 .. Len(text) /\ k + (j + 1) = k + 1 + j
      BY <1>3, <2>1
    <3> QED
      BY <1>2, <2>1, <3>1
  <2>3. Len(text') = Len(arg) - (k + 1)
    BY <1>2, <1>3, <2>1
  <2> QED
    BY <1>11, <2>1, <2>2, <2>3 DEF Rest
<1> QED
  BY <1>4, <1>11, <1>14, <1>18, <1>19

LEMMA AtoiKeepsValue ==
  ASSUME AtoiInv, AtoiStep
  PROVE  AtoiInv'
<1>1. callee = "atoi" /\ callee' = callee /\ intsPc = "loop" /\ arg \in Texts /\ res \in Int /\ arg' = arg
  BY DEF AtoiStep, AtoiInv
<1>2. PICK k \in 0 .. Len(arg) : Taken(k) /\ Rest(k)
  BY <1>1 DEF AtoiInv
<1>3. CASE text # <<>> /\ IsDigit(Head(text))
  <2>1. intsPc' = "loop"
    BY <1>1, <1>3 DEF AtoiStep
  <2>2. AtoiRight'
    BY <2>1 DEF AtoiRight
  <2>3. res' \in Int /\ arg' = arg /\ \E m \in 0 .. Len(arg) : (Taken(m) /\ Rest(m))'
    BY <1>1, <1>2, <1>3, AtoiTakesDigit
  <2> QED
    BY <1>1, <2>2, <2>3 DEF AtoiInv
<1>4. CASE ~(text # <<>> /\ IsDigit(Head(text)))
  <2>1. intsPc' = "done" /\ res' = res /\ overflowed' = overflowed
    BY <1>1, <1>4 DEF AtoiStep, Returns
  <2>2. AtoiRight'
    BY <1>1, <1>2, <1>4, <2>1, AtoiReturns
  <2> QED
    BY <1>1, <2>1, <2>2 DEF AtoiInv
<1> QED
  BY <1>3, <1>4

-----------------------------------------------------------------------------

LEMMA StepResults ==
  ASSUME IntMax \in Widths,
         ReversalInv /\ DecimalInv /\ AtoiInv /\ ReverseInv /\ Reverse1Inv, [IntsNext]_intsVars
  PROVE  (ReversalInv /\ DecimalInv /\ AtoiInv /\ ReverseInv /\ Reverse1Inv)'
<1>1. ReverseInv' /\ Reverse1Inv'
  BY NextReverse, NextReverse1
<1>2. CASE UNCHANGED intsVars
  <2>1. ReversalInv'
    BY <1>2 DEF intsVars, ReversalInv, SameReversal, ReversalRight
  <2>2. DecimalInv'
    BY <1>2 DEF intsVars, DecimalInv, PeeledFrom, DecimalRight
  <2>3. AtoiInv'
    BY <1>2 DEF intsVars, AtoiInv, Taken, Digits, Rest, AtoiRight
  <2> QED
    BY <1>1, <2>1, <2>2, <2>3
<1>3. ASSUME callee' = callee, callee \notin {"reverse", "reverse1"}
      PROVE  ReversalInv'
  BY <1>3 DEF ReversalInv
<1>4. ASSUME callee' = callee, callee # "stoi"
      PROVE  DecimalInv'
  BY <1>4 DEF DecimalInv
<1>5. ASSUME callee' = callee, callee # "atoi"
      PROVE  AtoiInv'
  BY <1>5 DEF AtoiInv
<1>6. CASE ReverseStep
  <2>1. callee = "reverse" /\ callee' = callee
    BY <1>6 DEF ReverseStep
  <2> QED
    BY <1>1, <1>4, <1>5, <1>6, <2>1, ReverseKeepsReversal
<1>7. CASE Reverse1Step
  <2>1. callee = "reverse1" /\ callee' = callee
    BY <1>7 DEF Reverse1Step
  <2> QED
    BY <1>1, <1>4, <1>5, <1>7, <2>1, Reverse1KeepsReversal
<1>8. CASE StoiDigit \/ StoiWrites
  <2>1. callee = "stoi" /\ callee' = callee
    BY <1>8 DEF StoiDigit, StoiWrites
  <2> QED
    BY <1>1, <1>3, <1>5, <1>8, <2>1, StoiDigitKeepsDecimal, StoiWritesKeepsDecimal
<1>9. CASE AtoiStep
  <2>1. callee = "atoi" /\ callee' = callee
    BY <1>9 DEF AtoiStep
  <2> QED
    BY <1>1, <1>3, <1>4, <1>9, <2>1, AtoiKeepsValue
<1> QED
  BY <1>2, <1>6, <1>7, <1>8, <1>9 DEF IntsNext

\* For ints of 16 and of 32 bits: reverse and reverse1 return the number with its
\* digits in reverse if that is an int and 0 if not; stoi writes the digits of
\* every number but 0 and the smallest; atoi returns the value of the digits it
\* finds if that is an int, and overflows for the last 48 (reverse.c, stoi.c, atoi.c).
THEOREM ResultsAreRight ==
  ASSUME IntMax \in Widths
  PROVE  IntsSafety => []ResultsRight
<1> DEFINE Inv == ReversalInv /\ DecimalInv /\ AtoiInv /\ ReverseInv /\ Reverse1Inv
<1>1. IntsInit => Inv
  BY InitReversal, InitDecimal, InitAtoi, InitReverse, InitReverse1
<1>2. Inv /\ [IntsNext]_intsVars => Inv'
  BY StepResults
<1>3. Inv => ResultsRight
  <2>1. ReversalInv => ReversalRight
    BY DEF ReversalInv, ReversalRight
  <2>2. DecimalInv => DecimalRight
    BY DEF DecimalInv, DecimalRight
  <2>3. AtoiInv => AtoiRight
    BY DEF AtoiInv, AtoiRight
  <2> QED
    BY <2>1, <2>2, <2>3 DEF ResultsRight
<1> QED
  BY <1>1, <1>2, <1>3, PTL DEF IntsSafety

-----------------------------------------------------------------------------
(* The types of the four functions.  Of stoi what is left and the digits    *)
(* written are bounded together: each digit leaves at most a tenth.         *)

DigitsInv ==
  intsPc = "loop" => /\ text \in Seq(Int) /\ u \in Ints
                     /\ text = <<>> \/ (Len(text) + u <= IntMax - 2 /\ Len(text) - u <= IntMax - 2)

TypesInv ==
  /\ IntsTypeOK
  /\ callee \in {"reverse", "reverse1"} => u \in 0 .. IntMax + 1
  /\ callee = "stoi" => DigitsInv
  /\ callee = "atoi" => u = 0

LEMMA InitTypes ==
  ASSUME IntsInit
  PROVE  TypesInv
<1>1. res = 0 /\ overflowed = FALSE /\ intsPc = "loop" /\ 0 \in Ints /\ IntMax \in Nat
  BY IntMaxAssumption DEF IntsInit, Ints
<1>2. CASE callee \in {"reverse", "reverse1"}
  <2>1. arg \in Ints /\ u = Unsigned(Abs(arg))
    BY <1>2, CallsAssumption DEF IntsInit
  <2>2. u \in 0 .. IntMax + 1
    BY <2>1, UnsignedIsNat
  <2>3. u \in -IntMax - 1 .. 2 * IntMax + 1
    BY <1>1, <2>2
  <2> QED
    BY <1>1, <1>2, <2>1, <2>2, <2>3, Zenon DEF TypesInv, IntsTypeOK
<1>3. CASE callee = "stoi"
  <2>1. arg \in Ints /\ u = Abs(arg) /\ text = <<>>
    BY <1>3, CallsAssumption DEF IntsInit
  <2>2. u \in Ints /\ text \in Seq(Int)
    BY <1>1, <2>1 DEF Abs, Ints
  <2>3. DigitsInv
    BY <2>1, <2>2 DEF DigitsInv
  <2>4. u \in -IntMax - 1 .. 2 * IntMax + 1
    BY <1>1, <2>2 DEF Ints
  <2>5. callee \notin {"reverse", "reverse1"} /\ callee # "atoi"
    BY <1>3
  <2> QED
    BY <1>1, <1>3, <2>1, <2>3, <2>4, <2>5, Zenon DEF TypesInv, IntsTypeOK
<1>4. CASE callee = "atoi"
  <2>1. arg \in Texts /\ u = 0 /\ callee \notin {"reverse", "reverse1"} /\ callee # "stoi"
    BY <1>4 DEF IntsInit
  <2>2. 0 \in -IntMax - 1 .. 2 * IntMax + 1 /\ 0 \in Ints
    BY <1>1
  <2> QED
    BY <1>1, <1>4, <2>1, <2>2 DEF TypesInv, IntsTypeOK
<1> QED
  BY <1>2, <1>3, <1>4 DEF IntsInit

\* What is left of an int is at most a tenth of it, towards 0.
IsTenth(n, q) == (n > 0 => 0 <= q /\ 10 * q <= n) /\ (n < 0 => q <= 0 /\ n <= 10 * q)

LEMMA TenthIs ==
  ASSUME NEW n \in Ints, n # 0
  PROVE  \E q \in Ints, d \in Int : q = Quotient(n, 10) /\ d = Remainder(n, 10) /\ IsTenth(n, q)
<1>0. IntMax \in Nat /\ n \in Int
  BY IntMaxAssumption DEF Ints
<1>1. CASE n > 0
  <2>1. PICK q \in Int : q = n \div 10 /\ 0 <= q /\ 10 * q <= n
    BY <1>0, <1>1
  <2>2. Quotient(n, 10) = q /\ Remainder(n, 10) = n - 10 * q
    BY <1>0, <1>1, <2>1 DEF Quotient, Remainder, Sign
  <2> QED
    BY <1>0, <1>1, <2>1, <2>2 DEF Ints, IsTenth
<1>2. CASE n < 0
  <2>1. PICK m \in Int : m = -n /\ m > 0
    BY <1>0, <1>2
  <2>2. PICK q \in Int : q = m \div 10 /\ 0 <= q /\ 10 * q <= m
    BY <2>1
  <2>3. Quotient(n, 10) = -q /\ Remainder(n, 10) = n + 10 * q
    BY <1>0, <1>2, <2>1, <2>2 DEF Quotient, Remainder, Sign
  <2> QED
    BY <1>0, <1>2, <2>1, <2>2, <2>3 DEF Ints, IsTenth
<1> QED
  BY <1>0, <1>1, <1>2

LEMMA WrappedIsInt ==
  ASSUME NEW n \in Int
  PROVE  Wrapped(n) \in Ints
<1>1. IntMax \in Nat
  BY IntMaxAssumption
<1>2. PICK c \in Nat : c = 2 * (IntMax + 1) /\ c > 0
  BY <1>1
<1>3. (n + IntMax + 1) % c \in 0 .. c - 1
  BY <1>1, <1>2
<1>4. PICK r \in Int : r = (n + IntMax + 1) % c /\ 0 <= r /\ r < c
  BY <1>2, <1>3
<1> QED
  BY <1>1, <1>2, <1>4 DEF Wrapped, Ints

LEMMA StepTypes ==
  ASSUME IntMax \in Widths, TypesInv, ReverseInv, Reverse1Inv, AtoiInv, [IntsNext]_intsVars
  PROVE  TypesInv'
<1>0. /\ IntMax \in Nat /\ IntMax >= 127 /\ 0 \in Ints
      /\ callee \in {"reverse", "reverse1", "stoi", "atoi"} /\ res \in Ints /\ overflowed \in BOOLEAN
  BY IntMaxAssumption DEF TypesInv, IntsTypeOK, Ints
<1>1. CASE UNCHANGED intsVars
  BY <1>1 DEF TypesInv, IntsTypeOK, DigitsInv, intsVars
<1>2. CASE ReverseStep
  <2>1. /\ intsPc = "loop" /\ callee = "reverse" /\ callee' = "reverse" /\ arg' = arg
        /\ u \in 0 .. IntMax + 1 /\ res \in 0 .. IntMax /\ arg \in Ints
    BY <1>2 DEF ReverseStep, ReverseInv, TypesInv, IntsTypeOK
  <2>2. Sign(arg) * res \in Ints
    BY <1>0, <2>1 DEF Sign, Ints
  <2> DEFINE ost == u % 10
  <2>3. CASE u = 0 \/ NoRoom(ost)
    <3>1. u' = u /\ overflowed' = overflowed /\ res' \in Ints /\ intsPc' = "done"
      BY <1>0, <1>2, <2>1, <2>2, <2>3 DEF ReverseStep, Returns
    <3> QED
      BY <1>0, <2>1, <3>1 DEF TypesInv, IntsTypeOK
  <2>4. CASE u # 0 /\ ~NoRoom(ost)
    <3>1. ost \in 0 .. 9 /\ (u - ost) \div 10 \in 0 .. IntMax + 1
      BY <1>0, <2>1
    <3>2. /\ res' = Wrapped(res * 10 + ost) /\ u' = (u - ost) \div 10 /\ intsPc' = "loop"
          /\ overflowed' = (overflowed \/ res * 10 + ost \notin Ints)
      BY <1>2, <2>1, <2>4 DEF ReverseStep
    <3>3. res' \in Ints
      BY <2>1, <3>1, <3>2, WrappedIsInt
    <3>4. overflowed' \in BOOLEAN
      BY <1>0, <3>2
    <3> QED
      BY <1>0, <2>1, <3>1, <3>2, <3>3, <3>4 DEF TypesInv, IntsTypeOK
  <2> QED
    BY <2>3, <2>4
<1>3. CASE Reverse1Step
  <2>1. /\ intsPc = "loop" /\ callee = "reverse1" /\ callee' = "reverse1" /\ arg' = arg
        /\ u \in 0 .. IntMax + 1 /\ res \in Nat /\ arg \in Ints
    BY <1>3 DEF Reverse1Step, Reverse1Inv, TypesInv, IntsTypeOK
  <2>2. PICK power \in Powers : Progress(res, u, power)
    BY <2>1 DEF Reverse1Inv
  <2> DEFINE cdig == u % 10
             rest == (u - cdig) \div 10
  <2>3. CASE NoRoom1
    <3>1. u' = u /\ overflowed' = overflowed /\ res' = 0 /\ intsPc' = "done"
      BY <1>3, <2>3 DEF Reverse1Step, Returns
    <3> QED
      BY <1>0, <2>1, <3>1 DEF TypesInv, IntsTypeOK
  <2>4. CASE ~NoRoom1
    <3>1. cdig \in 0 .. 9 /\ rest \in 0 .. IntMax + 1 /\ u = rest * 10 + cdig
      BY <1>0, <2>1
    <3>2. /\ overflowed' = (overflowed \/ res * 10 + cdig \notin Ints) /\ u' = rest
          /\ \/ res' = Sign(arg) * Wrapped(res * 10 + cdig) /\ intsPc' = "done"
             \/ res' = Wrapped(res * 10 + cdig) /\ intsPc' = "loop"
      BY <1>3, <2>1, <2>4 DEF Reverse1Step, Returns
    <3> HIDE DEF cdig, rest
    <3>3. res <= IntMax \div 10
      BY <2>4, <1>0, <2>1 DEF NoRoom1
    <3>4. Progress(res, rest * 10 + cdig, power)
      BY <2>2, <3>1
    <3>5. res * 10 + cdig <= IntMax
      <4>1. rest \in Nat /\ IntMax \in Nat
        BY <1>0, <3>1
      <4> QED
        BY <2>1, <3>1, <3>3, <3>4, <4>1, SumIsInt
    <3>6. PICK sum \in 0 .. IntMax : sum = res * 10 + cdig
      BY <1>0, <2>1, <3>1, <3>5
    <3>7. sum \in Ints /\ Wrapped(sum) = sum /\ Sign(arg) * sum \in Ints
      BY <1>0, <2>1, <3>6 DEF Wrapped, Sign, Ints
    <3>8. res' \in Ints /\ overflowed' \in BOOLEAN
      BY <1>0, <3>2, <3>6, <3>7
    <3> QED
      BY <1>0, <2>1, <3>1, <3>2, <3>8 DEF TypesInv, IntsTypeOK
  <2> QED
    BY <2>3, <2>4
<1>4. CASE StoiDigit
  <2>1. /\ intsPc = "loop" /\ callee = "stoi" /\ u # 0 /\ u \in Ints /\ text \in Seq(Int) /\ arg \in Ints
        /\ text = <<>> \/ (Len(text) + u <= IntMax - 2 /\ Len(text) - u <= IntMax - 2)
        /\ text' = Append(text, Remainder(u, 10)) /\ u' = Quotient(u, 10)
        /\ callee' = callee /\ arg' = arg /\ res' = res /\ overflowed' = overflowed /\ intsPc' = intsPc
    BY <1>4 DEF StoiDigit, TypesInv, DigitsInv, IntsTypeOK
  <2>2. PICK q \in Ints, d \in Int : q = Quotient(u, 10) /\ d = Remainder(u, 10) /\ IsTenth(u, q)
    BY <2>1, TenthIs
  <2>3. text' \in Seq(Int) /\ Len(text') = Len(text) + 1 /\ u' = q
    BY <2>1, <2>2
  <2>4. PICK n \in Nat : n = Len(text) /\ (text = <<>> => n = 0)
    BY <2>1
  <2>5. u \in Int /\ -IntMax - 1 <= u /\ u <= IntMax /\ q \in Int
    BY <1>0, <2>1, <2>2 DEF Ints
  <2>6. (n + 1) + q <= IntMax - 2 /\ (n + 1) - q <= IntMax - 2
    <3>1. n = 0 \/ (n + u <= IntMax - 2 /\ n - u <= IntMax - 2)
      BY <2>1, <2>4
    <3>2. CASE u > 0
      BY <1>0, <2>2, <2>4, <2>5, <3>1, <3>2, SMTT(40) DEF IsTenth
    <3>3. CASE u < 0
      BY <1>0, <2>2, <2>4, <2>5, <3>1, <3>3 DEF IsTenth
    <3> QED
      BY <2>1, <2>5, <3>2, <3>3
  <2>7. DigitsInv'
    BY <2>2, <2>3, <2>4, <2>6 DEF DigitsInv
  <2>8. u' \in -IntMax - 1 .. 2 * IntMax + 1
    BY <1>0, <2>2, <2>3 DEF Ints
  <2> QED
    BY <1>0, <2>1, <2>7, <2>8 DEF TypesInv, IntsTypeOK
<1>5. CASE StoiWrites
  <2>1. /\ callee = "stoi" /\ u = 0 /\ text \in Seq(Int) /\ arg \in Ints
        /\ text = <<>> \/ (Len(text) + u <= IntMax - 2 /\ Len(text) - u <= IntMax - 2)
        /\ text' = (IF arg < 0 THEN <<Minus>> ELSE <<>>) \o Backwards(text)
        /\ res' = Len(text') /\ intsPc' = "done"
        /\ callee' = callee /\ arg' = arg /\ u' = u /\ overflowed' = overflowed
    BY <1>5 DEF StoiWrites, Returns, TypesInv, DigitsInv, IntsTypeOK
  <2>2. PICK n \in Nat : n = Len(text) /\ n <= IntMax - 2
    <3>1. text = <<>> => Len(text) = 0
      OBVIOUS
    <3>2. Len(text) \in Nat
      BY <2>1
    <3> QED
      BY <1>0, <2>1, <3>1, <3>2
  <2>3. PICK b : b = Backwards(text)
    OBVIOUS
  <2>4. b \in Seq(Int) /\ Len(b) = n
    <3>1. \A k \in 1 .. n : n + 1 - k \in 1 .. n
      BY <2>2
    <3>2. \A k \in 1 .. n : text[n + 1 - k] \in Int
      BY <2>1, <2>2, <3>1
    <3>3. b = [k \in 1 .. n |-> Zero + text[n + 1 - k]]
      BY <2>1, <2>2, <2>3, SMTT(40) DEF Backwards
    <3>4. \A k \in 1 .. n : Zero + text[n + 1 - k] \in Int
      BY <3>2 DEF Zero
    <3> QED
      BY <2>2, <3>3, <3>4
  <2>5. PICK s : s = (IF arg < 0 THEN <<Minus>> ELSE <<>>)
    OBVIOUS
  <2>6. s \in Seq(Int) /\ Len(s) <= 1 /\ Len(s) \in Nat
    BY <2>5 DEF Minus
  <2>7. text' = s \o b
    BY <2>1, <2>3, <2>5
  <2>8. Len(text') = Len(s) + Len(b)
    BY <2>4, <2>6, <2>7
  <2>9. res' \in Ints
    BY <1>0, <2>1, <2>2, <2>4, <2>6, <2>8 DEF Ints
  <2>10. u' = 0 /\ 0 \in -IntMax - 1 .. 2 * IntMax + 1
    BY <1>0, <2>1
  <2> QED
    BY <1>0, <2>1, <2>9, <2>10 DEF TypesInv, IntsTypeOK, DigitsInv
<1>6. CASE AtoiStep
  <2>1. /\ intsPc = "loop" /\ callee = "atoi" /\ callee' = callee /\ arg' = arg /\ arg \in Texts
        /\ u = 0 /\ u' = u
    BY <1>6 DEF AtoiStep, TypesInv, IntsTypeOK
  <2>2. 0 \in -IntMax - 1 .. 2 * IntMax + 1
    BY <1>0
  <2>3. text \in Seq(Int)
    BY <2>1 DEF AtoiInv, Rest
  <2>4. CASE text # <<>> /\ IsDigit(Head(text))
    <3>1. PICK ch \in Int : ch = Head(text)
      BY <2>3, <2>4
    <3>2. PICK product \in Int : product = res * 10
      BY <1>0 DEF Ints
    <3>3. Wrapped(product) \in Int
      BY <1>0, <3>2, WrappedIsInt DEF Ints
    <3>4. PICK sum \in Int : sum = Wrapped(product) + ch
      BY <3>1, <3>3
    <3>5. Wrapped(sum) - Zero \in Int
      <4>1. Wrapped(sum) \in Int
        BY <1>0, <3>4, WrappedIsInt DEF Ints
      <4> QED
        BY <4>1 DEF Zero
    <3>6. /\ res' = Wrapped(Wrapped(sum) - Zero) /\ intsPc' = "loop"
          /\ overflowed' = (overflowed \/ {product, sum, Wrapped(sum) - Zero} \ Ints # {})
      BY <1>6, <2>1, <2>4, <3>1, <3>2, <3>4 DEF AtoiStep
    <3>7. res' \in Ints
      BY <3>5, <3>6, WrappedIsInt
    <3>8. overflowed' \in BOOLEAN
      BY <1>0, <3>6
    <3> QED
      BY <2>1, <2>2, <3>6, <3>7, <3>8 DEF TypesInv, IntsTypeOK
  <2>5. CASE ~(text # <<>> /\ IsDigit(Head(text)))
    <3>1. res' = res /\ intsPc' = "done" /\ overflowed' = overflowed
      BY <1>6, <2>5 DEF AtoiStep, Returns
    <3> QED
      BY <1>0, <2>1, <2>2, <3>1 DEF TypesInv, IntsTypeOK
  <2> QED
    BY <2>4, <2>5
<1> QED
  BY <1>1, <1>2, <1>3, <1>4, <1>5, <1>6 DEF IntsNext

\* Whatever int of 16 or of 32 bits the functions are called with, what they return is
\* one, the length that stoi returns with the others (reverse.c, stoi.c, atoi.c).
THEOREM IntsTyped ==
  ASSUME IntMax \in Widths
  PROVE  IntsSafety => []IntsTypeOK
<1> DEFINE Inv == /\ ReversalInv /\ DecimalInv /\ AtoiInv /\ ReverseInv /\ Reverse1Inv
                  /\ TypesInv
<1>1. IntsInit => Inv
  BY InitReversal, InitDecimal, InitAtoi, InitReverse, InitReverse1, InitTypes
<1>2. Inv /\ [IntsNext]_intsVars => Inv'
  BY StepResults, StepTypes
<1>3. Inv => IntsTypeOK
  BY DEF TypesInv
<1> QED
  BY <1>1, <1>2, <1>3, PTL DEF IntsSafety

-----------------------------------------------------------------------------
(* KernelStart.  What the start writes, for every text, every layout of the *)
(* sections and whatever RAM holds at reset.                                *)

\* One word was copied, and no other changed.
FirstWordCopied ==
  /\ \A cell \in RamCells \ {_sdata} : ram[cell] = reset[cell]
  /\ ram[_sdata] = IF data = <<>> THEN Erased ELSE data[1]

SectionsTyped ==
  /\ data \in DataValues /\ bss \in BssSizes
  /\ reset \in [RamCells -> {0, Junk}] /\ DOMAIN ram = RamCells
  /\ divided \in BOOLEAN

\* What holds at each label: the loops leave a0 and a1 to the code behind them.
StartInv ==
  /\ SectionsTyped
  /\ label \in {"print", "bss_init", "data_init", "main", "returned"}
  /\ label = "print" => a0 = UART /\ a1 \in str .. str + Len(Text)
                     /\ ram = reset /\ ~divided /\ uart = SubSeq(Text, 1, a1 - 1)
  /\ label = "bss_init" => a0 = UART /\ a1 = str + Len(Text)
                        /\ ram = reset /\ ~divided /\ uart = Text
  /\ label = "data_init" => a0 = _sdata /\ a1 = _sidata
                         /\ ram = reset /\ ~divided /\ uart = Text
  /\ label = "main" => FirstWordCopied /\ a1 = _sidata + 1 /\ ~divided /\ uart = Text
  /\ label = "returned" => FirstWordCopied /\ a1 = _sidata + 1 /\ uart = Text

-----------------------------------------------------------------------------
(* The memory.                                                             *)

LEMMA TextLength == Text \in Seq(Int \ {0}) /\ Len(Text) \in Nat
BY LayoutAssumption

LEMMA DataLength ==
  ASSUME data \in DataValues
  PROVE  data \in Seq(Int) /\ Len(data) \in Nat
BY LayoutAssumption

\* RAM lies behind the image and before the UART.
LEMMA Layout ==
  ASSUME data \in DataValues, bss \in BssSizes
  PROVE  /\ _sidata = Len(Text) + 3 /\ _sidata \in Nat
         /\ _sidata + Len(data) < _sdata
         /\ _sdata <= _end /\ _end \in Nat /\ _sdata \in Nat /\ _end < UART /\ UART \in Nat
         /\ _sdata \in RamCells
BY LayoutAssumption, TextLength, DataLength
   DEF str, _sidata, _sdata, _bss_start, _bss_end, _end, RamCells

\* A load from the text.
LEMMA LoadText ==
  ASSUME data \in DataValues, NEW cell \in str .. str + Len(Text)
  PROVE  Load(cell) = IF cell < str + Len(Text) THEN Text[cell] ELSE 0
BY TextLength, DataLength DEF Load, FLASH, str, _sidata

\* The text ends at its first zero.
LEMMA TextHasNoZero ==
  ASSUME NEW cell \in 1 .. Len(Text)
  PROVE  Text[cell] # 0
BY TextLength

\* A load of the first word of .data, or of what is behind an image without one.
LEMMA LoadData ==
  ASSUME data \in DataValues, bss \in BssSizes
  PROVE  Load(_sidata) = IF data = <<>> THEN Erased ELSE data[1]
<1>1. CASE data = <<>>
  <2>1. Len(data) = 0
    BY <1>1
  <2>2. _sidata \notin DOMAIN FLASH /\ _sidata \notin RamCells
    BY <2>1, Layout, TextLength DEF FLASH, str, _sidata, _sdata, RamCells
  <2> QED
    BY <1>1, <2>2 DEF Load
<1>2. CASE data # <<>>
  <2>1. Len(data) >= 1
    BY <1>2, DataLength
  <2>2. _sidata \in DOMAIN FLASH /\ ~(_sidata < str + Len(Text)) /\ ~(_sidata < _sidata)
    BY <2>1, DataLength, TextLength DEF FLASH, str, _sidata
  <2>3. FLASH[_sidata] = data[1]
    BY <2>2, TextLength DEF FLASH, str, _sidata
  <2> QED
    BY <1>2, <2>2, <2>3 DEF Load
<1> QED
  BY <1>1, <1>2

-----------------------------------------------------------------------------
(* The invariant.                                                          *)

LEMMA InitHolds ==
  ASSUME StartInit
  PROVE  StartInv
<1>1. SectionsTyped
  BY DEF StartInit, SectionsTyped
<1>2. a1 \in str .. str + Len(Text) /\ uart = SubSeq(Text, 1, a1 - 1)
  BY TextLength DEF StartInit, str
<1> QED
  BY <1>1, <1>2 DEF StartInit, StartInv

LEMMA PrintCharKeeps ==
  ASSUME StartInv, PrintChar
  PROVE  StartInv'
<1> USE DEF PrintChar, AtEnd
<1>1. SectionsTyped'
  BY DEF StartInv, SectionsTyped, RamCells, _sdata, _bss_start, _bss_end, _end
<1>2. a1 < str + Len(Text) /\ Load(a1) = Text[a1]
  BY LoadText DEF StartInv, SectionsTyped
<1>3. a1' \in str .. str + Len(Text)
  BY <1>2, TextLength DEF StartInv, str
<1>4. uart' = SubSeq(Text, 1, a1' - 1)
  BY <1>2, TextLength DEF StartInv, str
<1> QED
  BY <1>1, <1>3, <1>4 DEF StartInv

LEMMA TextPrintedKeeps ==
  ASSUME StartInv, TextPrinted
  PROVE  StartInv'
<1> USE DEF TextPrinted, AtEnd
<1>1. SectionsTyped'
  BY DEF StartInv, SectionsTyped, RamCells, _sdata, _bss_start, _bss_end, _end
<1>2. a1 = str + Len(Text)
  <2>1. a1 \in str .. str + Len(Text) /\ Load(a1) = 0
    BY DEF StartInv
  <2>2. CASE a1 < str + Len(Text)
    BY <2>1, <2>2, LoadText, TextHasNoZero, TextLength DEF StartInv, SectionsTyped, str
  <2> QED
    BY <2>1, <2>2, TextLength DEF str
<1>3. uart = Text
  BY <1>2, TextLength DEF StartInv, str
<1> QED
  BY <1>1, <1>2, <1>3 DEF StartInv

\* The UART is behind all of the text, so no word of .bss is cleared.
LEMMA BssInitKeeps ==
  ASSUME StartInv, BssInit
  PROVE  StartInv'
<1> USE DEF BssInit
<1>1. ~(a0 < a1)
  BY Layout, TextLength DEF StartInv, SectionsTyped, str, _sidata
<1>2. ram' = ram
  BY <1>1
<1>3. SectionsTyped' /\ _sdata' = _sdata /\ _sidata' = _sidata
  BY <1>2 DEF StartInv, SectionsTyped, RamCells, _sdata, _bss_start, _bss_end, _end, _sidata, str
<1> QED
  BY <1>2, <1>3 DEF StartInv

\* The flash is before RAM, so a word is copied whatever .data is.
LEMMA DataInitKeeps ==
  ASSUME StartInv, DataInit
  PROVE  StartInv'
<1> USE DEF DataInit
<1>1. a1 < _end /\ a0 = _sdata /\ a1 = _sidata /\ a0 \in DOMAIN ram
  BY Layout, DataLength DEF StartInv, SectionsTyped
<1>2. ram' = [ram EXCEPT ![_sdata] = Load(_sidata)] /\ a1' = _sidata + 1 /\ label' = "main"
  BY <1>1 DEF AfterData
<1>3. SectionsTyped' /\ RamCells' = RamCells /\ _sdata' = _sdata /\ _sidata' = _sidata
  BY <1>2 DEF StartInv, SectionsTyped, RamCells, _sdata, _bss_start, _bss_end, _end, _sidata, str
<1>4. ram'[_sdata] = Load(_sidata)
  BY <1>1, <1>2
<1>5. \A cell \in RamCells \ {_sdata} : ram'[cell] = reset'[cell]
  BY <1>2 DEF StartInv, SectionsTyped
<1>6. FirstWordCopied'
  BY <1>3, <1>4, <1>5, LoadData DEF FirstWordCopied, StartInv, SectionsTyped
<1> QED
  BY <1>2, <1>3, <1>6 DEF StartInv

LEMMA MainReturnsKeeps ==
  ASSUME StartInv, MainReturns
  PROVE  StartInv'
<1> USE DEF MainReturns
<1>1. SectionsTyped' /\ FirstWordCopied' = FirstWordCopied /\ _sidata' = _sidata
  BY DEF StartInv, SectionsTyped, FirstWordCopied, RamCells, _sdata, _bss_start, _bss_end, _end, _sidata, str
<1> QED
  BY <1>1 DEF StartInv

LEMMA StutterKeeps ==
  ASSUME StartInv, UNCHANGED startVars
  PROVE  StartInv'
<1>1. SectionsTyped' /\ FirstWordCopied' = FirstWordCopied /\ _sidata' = _sidata /\ _sdata' = _sdata
  BY DEF startVars, StartInv, SectionsTyped, FirstWordCopied, RamCells, _sdata, _bss_start, _bss_end, _end, _sidata, str
<1> QED
  BY <1>1 DEF startVars, StartInv

LEMMA StartInvariance == StartSafety => []StartInv
<1>1. StartInv /\ [StartNext]_startVars => StartInv'
  BY PrintCharKeeps, TextPrintedKeeps, BssInitKeeps, DataInitKeeps, MainReturnsKeeps, StutterKeeps DEF StartNext
<1> QED
  BY InitHolds, <1>1, PTL DEF StartSafety

-----------------------------------------------------------------------------

\* Every variable keeps its type.
THEOREM TypeCorrectness == StartSafety => []StartTypeOK
<1>1. StartInv => StartTypeOK
  <2> SUFFICES ASSUME StartInv PROVE StartTypeOK
    OBVIOUS
  <2>1. a1 \in str .. _end
    BY Layout, DataLength, TextLength DEF StartInv, SectionsTyped, str
  <2>2. divided \in BOOLEAN
    BY DEF StartInv, SectionsTyped
  <2> QED
    BY <2>1, <2>2 DEF StartTypeOK, StartInv, SectionsTyped
<1> QED
  BY StartInvariance, <1>1, PTL

\* main finds RAM as it was at reset but for one word (startup.S:16-40).
THEOREM OneWordIsCopied == StartSafety => []OneWordChanges
<1>1. StartInv => OneWordChanges
  BY DEF StartInv, FirstWordCopied, OneWordChanges
<1> QED
  BY StartInvariance, <1>1, PTL

\* What goes to the UART is the text, all of it before the divider is set
\* (startup.S:9-14, uart.c:3-6).
THEOREM TextIsWritten == StartSafety => []TextBeforeDivider
<1>1. StartInv => TextBeforeDivider
  <2> SUFFICES ASSUME StartInv PROVE TextBeforeDivider
    OBVIOUS
  <2>1. \A n \in 0 .. Len(Text) : SubSeq(Text, 1, n) = SubSeq(Text, 1, Len(SubSeq(Text, 1, n)))
    BY TextLength
  <2>2. Text = SubSeq(Text, 1, Len(Text))
    BY TextLength
  <2>3. CASE label = "print"
    <3>1. a1 - 1 \in 0 .. Len(Text)
      BY <2>3, TextLength DEF StartInv, str
    <3> QED
      BY <2>1, <2>3, <3>1 DEF StartInv, TextBeforeDivider
  <2>4. CASE label # "print"
    BY <2>2, <2>4 DEF StartInv, TextBeforeDivider
  <2> QED
    BY <2>3, <2>4
<1> QED
  BY StartInvariance, <1>1, PTL

\* Whatever the sections, the text and RAM at reset: what main finds in RAM, and
\* what the UART was given before main (startup.S:9-40).
THEOREM MainFindsOneWord == StartSafety => []MainFinds
<1>1. OneWordChanges /\ TextBeforeDivider => MainFinds
  BY DEF MainFinds
<1> QED
  BY <1>1, OneWordIsCopied, TextIsWritten, PTL

-----------------------------------------------------------------------------
(* Characteristics.  The table keeps its length and its set of names, so   *)
(* that a name it was made of is found where it is first; and a check is   *)
(* that of its step.                                                       *)

Characteristic == [name : Names, value : -BOUND .. BOUND]

\* The steps, whoever calls.
TableSafety == TableInit /\ [][TableNext]_tableVars

TableInv ==
  /\ names \in Seq(Names)
  /\ CharcVector \in [1 .. Len(names) -> Characteristic]
  /\ CharcNameSet = NameSet(names)
  /\ reading \in 0 .. Len(names) /\ typed \in {"name", "end"}
  /\ added \subseteq 1 .. Len(names)
  /\ OutOfRangeOnlyByAdd

\* What operator [] finds is the first of a name.
LEMMA FoundIsFirst ==
  ASSUME TableInv, NEW k \in 1 .. Len(names), NEW name, CharcVector[k].name = name, Known(name)
  PROVE  /\ Found(name) \in 1 .. Len(names) /\ Found(name) <= k
         /\ CharcVector[Found(name)].name = name
<1>1. DOMAIN CharcVector = 1 .. Len(names) /\ Len(names) \in Nat
  BY DEF TableInv
<1> DEFINE S == {j \in 1 .. Len(names) : CharcVector[j].name = name}
<1>2. k \in S /\ S \subseteq Nat
  BY <1>1
<1> HIDE DEF S
<1>3. PICK m \in S : \A j \in S : m <= j
  BY <1>2, LeastElement
<1>4. m \in 1 .. Len(names) /\ CharcVector[m].name = name /\ m <= k
  BY <1>2, <1>3 DEF S
<1>5. ASSUME NEW j \in 1 .. m - 1
      PROVE  CharcVector[j].name # name
  <2>1. j \in 1 .. Len(names) /\ j < m /\ j \in Nat /\ m \in Nat
    BY <1>1, <1>4
  <2>2. j \notin S
    BY <1>3, <2>1
  <2> QED
    BY <2>1, <2>2 DEF S
<1> DEFINE First(n) == CharcVector[n].name = name /\ \A j \in 1 .. n - 1 : CharcVector[j].name # name
<1>6. First(m) /\ m \in DOMAIN CharcVector
  BY <1>1, <1>4, <1>5
<1>7. ASSUME NEW n \in DOMAIN CharcVector, First(n)
      PROVE  n = m
  <2>1. n \in Nat /\ m \in Nat /\ n \in S /\ m <= n
    BY <1>1, <1>3, <1>4, <1>7 DEF S
  <2>2. CASE m < n
    <3>1. m \in 1 .. n - 1
      BY <1>4, <2>1, <2>2
    <3> QED
      BY <1>4, <1>7, <3>1
  <2> QED
    BY <2>1, <2>2
<1> HIDE DEF First
<1>8. (CHOOSE n \in DOMAIN CharcVector : First(n)) = m
  BY <1>6, <1>7
<1>9. FirstNamed(name) = m
  BY <1>8, Zenon DEF FirstNamed, First
<1>10. HasName(name)
  BY <1>1 DEF HasName
<1>11. Found(name) = m
  BY <1>9, <1>10, Zenon DEF Found
<1> QED
  BY <1>4, <1>11

\* A client that was not given the end was given an element.
LEMMA FoundIsElement ==
  ASSUME TableInv, NEW name, Found(name) # End
  PROVE  Found(name) \in 1 .. Len(names)
<1>1. Known(name) /\ HasName(name)
  BY Zenon DEF Found
<1>2. PICK k \in DOMAIN CharcVector : CharcVector[k].name = name
  BY <1>1 DEF HasName
<1>3. k \in 1 .. Len(names)
  BY <1>2 DEF TableInv
<1> QED
  BY <1>1, <1>2, <1>3, FoundIsFirst

LEMMA InitTable ==
  ASSUME TableInit
  PROVE  TableInv
<1>1. names \in Seq(Names) /\ Len(names) \in Nat /\ BOUND \in Nat /\ BOUND >= 20
  BY TablesAssumption, NumbersAssumption DEF TableInit
<1>2. CharcVector = [k \in 1 .. Len(names) |-> [name |-> names[k], value |-> 1]]
  BY <1>1 DEF TableInit
<1>3. CharcVector \in [1 .. Len(names) -> Characteristic]
  BY <1>1, <1>2 DEF Characteristic
<1>4. OutOfRangeOnlyByAdd
  BY <1>1, <1>2 DEF OutOfRangeOnlyByAdd, Valid
<1> QED
  BY <1>1, <1>3, <1>4 DEF TableInv, TableInit

\* The steps that change an element.
LEMMA ElementChanges ==
  ASSUME TableInv, UNCHANGED <<names, CharcNameSet>>,
         NEW k \in 1 .. Len(names), NEW new \in Characteristic,
         CharcVector' = [CharcVector EXCEPT ![k] = new],
         reading' \in 0 .. Len(names), typed' \in {"name", "end"},
         added' \subseteq 1 .. Len(names), added \ {k} \subseteq added',
         Valid(new.value) \/ k \in added'
  PROVE  TableInv'
<1>1. CharcVector' \in [1 .. Len(names) -> Characteristic]
  BY DEF TableInv
<1>2. OutOfRangeOnlyByAdd'
  <2> SUFFICES ASSUME NEW j \in 1 .. Len(names), ~Valid(CharcVector'[j].value)
               PROVE  j \in added'
    BY <1>1 DEF OutOfRangeOnlyByAdd, Valid
  <2>1. CASE j = k
    <3>1. CharcVector'[j] = new
      BY <2>1 DEF TableInv
    <3> QED
      BY <2>1, <3>1
  <2>2. CASE j # k
    <3>1. CharcVector'[j] = CharcVector[j]
      BY <2>2 DEF TableInv
    <3>2. j \in added
      BY <3>1 DEF TableInv, OutOfRangeOnlyByAdd
    <3> QED
      BY <2>2, <3>2
  <2> QED
    BY <2>1, <2>2
<1> QED
  BY <1>1, <1>2 DEF TableInv, NameSet

LEMMA NothingChanges ==
  ASSUME TableInv, UNCHANGED <<names, CharcNameSet, CharcVector, added>>,
         reading' \in 0 .. Len(names), typed' \in {"name", "end"}
  PROVE  TableInv'
BY DEF TableInv, OutOfRangeOnlyByAdd, NameSet

LEMMA StepTable ==
  ASSUME TableInv, [TableNext]_tableVars
  PROVE  TableInv'
<1>1. BOUND \in Nat /\ BOUND >= 20 /\ Len(names) \in Nat /\ CharcVector \in [1 .. Len(names) -> Characteristic]
  BY NumbersAssumption DEF TableInv
<1>2. reading \in 0 .. Len(names) /\ typed \in {"name", "end"} /\ added \subseteq 1 .. Len(names)
  BY DEF TableInv
<1>3. CASE UNCHANGED tableVars
  BY <1>2, <1>3, NothingChanges DEF tableVars
<1>4. ASSUME NEW name \in Names, GetMissing(name)
      PROVE  TableInv'
  BY <1>2, <1>4, NothingChanges DEF GetMissing
<1>5. ASSUME NEW name \in Names, ReadBegins(name)
      PROVE  TableInv'
  <2>1. reading' \in 0 .. Len(names) /\ typed' = "name"
    BY <1>1, <1>5, FoundIsElement DEF ReadBegins
  <2> QED
    BY <1>5, <2>1, NothingChanges DEF ReadBegins
<1>6. ASSUME NEW name \in Names, NEW newName \in Names, SetName(name, newName)
      PROVE  TableInv'
  <2>1. PICK k \in 1 .. Len(names) : k = Found(name)
    BY <1>6, FoundIsElement DEF SetName
  <2>2. PICK new \in Characteristic : new = [name |-> newName, value |-> CharcVector[k].value]
    BY <1>1 DEF Characteristic
  <2>3. CharcVector' = [CharcVector EXCEPT ![k] = new]
    <3>1. CharcVector' = [CharcVector EXCEPT ![k] = [CharcVector[k] EXCEPT !.name = newName]]
      BY <1>6, <2>1 DEF SetName
    <3>2. [CharcVector[k] EXCEPT !.name = newName] = new
      BY <1>1, <2>2 DEF Characteristic
    <3> QED
      BY <3>1, <3>2
  <2>4. Valid(new.value) \/ k \in added
    BY <1>1, <2>2 DEF TableInv, OutOfRangeOnlyByAdd
  <2> QED
    BY <1>2, <1>6, <2>3, <2>4, ElementChanges DEF SetName
<1>7. ASSUME NEW name \in Names, NEW newValue \in Values, SetValue(name, newValue)
      PROVE  TableInv'
  <2>1. PICK k \in 1 .. Len(names) : k = Found(name)
    BY <1>7, FoundIsElement DEF SetValue
  <2>2. newValue \in 1 .. 20 /\ newValue \in -BOUND .. BOUND
    BY <1>1, <1>7 DEF SetValue, Accepted, Valid
  <2>3. PICK new \in Characteristic : new = [name |-> CharcVector[k].name, value |-> newValue]
    BY <1>1, <2>2 DEF Characteristic
  <2>4. CharcVector' = [CharcVector EXCEPT ![k] = new]
    <3>1. CharcVector' = [CharcVector EXCEPT ![k] = [CharcVector[k] EXCEPT !.value = newValue]]
      BY <1>7, <2>1 DEF SetValue
    <3>2. [CharcVector[k] EXCEPT !.value = newValue] = new
      BY <1>1, <2>3 DEF Characteristic
    <3> QED
      BY <3>1, <3>2
  <2>5. Valid(new.value) /\ added' = added \ {k}
    BY <1>7, <2>1, <2>2, <2>3 DEF Valid, SetValue
  <2> QED
    BY <1>2, <1>7, <2>4, <2>5, ElementChanges DEF SetValue
<1>8. ASSUME NEW name \in Names, NEW delta \in Deltas, Add(name, delta)
      PROVE  TableInv'
  <2>1. PICK k \in 1 .. Len(names) : k = Found(name)
    BY <1>8, FoundIsElement DEF Add
  <2>2. CharcVector[k].value + delta \in -BOUND .. BOUND /\ added' = added \cup {k}
    BY <1>8, <2>1 DEF Add
  <2>3. PICK new \in Characteristic : new = [name |-> CharcVector[k].name, value |-> CharcVector[k].value + delta]
    BY <1>1, <2>2 DEF Characteristic
  <2>4. CharcVector' = [CharcVector EXCEPT ![k] = new]
    <3>1. CharcVector' = [CharcVector EXCEPT ![k] =
            [CharcVector[k] EXCEPT !.value = CharcVector[k].value + delta]]
      BY <1>1, <1>8, <2>1 DEF Add
    <3>2. [CharcVector[k] EXCEPT !.value = CharcVector[k].value + delta] = new
      BY <1>1, <2>3 DEF Characteristic
    <3> QED
      BY <3>1, <3>2
  <2> QED
    BY <1>2, <1>8, <2>2, <2>4, ElementChanges DEF Add
<1>9. ASSUME NEW newName \in Names, NEW newValue \in Values, ReadPair(newName, newValue)
      PROVE  TableInv'
  <2>1. PICK k \in 1 .. Len(names) : k = reading
    BY <1>1, <1>2, <1>9 DEF ReadPair
  <2>2. PICK new : new = [name |-> newName,
                          value |-> IF Accepted(newValue) THEN newValue ELSE CharcVector[k].value]
    OBVIOUS
  <2>3. new \in Characteristic
    <3>1. CharcVector[k].value \in -BOUND .. BOUND
      BY <1>1 DEF Characteristic
    <3>2. Accepted(newValue) => newValue \in -BOUND .. BOUND
      BY <1>1 DEF Accepted, Valid
    <3>3. (IF Accepted(newValue) THEN newValue ELSE CharcVector[k].value) \in -BOUND .. BOUND
      BY <3>1, <3>2, Zenon
    <3> QED
      BY <2>2, <3>3, Zenon DEF Characteristic
  <2>4. CharcVector' = [CharcVector EXCEPT ![k] = new]
    <3>1. CharcVector' = [CharcVector EXCEPT ![k] =
            [name |-> newName, value |-> IF Accepted(newValue) THEN newValue ELSE CharcVector[k].value]]
      BY <1>1, <1>9, <2>1 DEF ReadPair
    <3> QED
      BY <2>2, <3>1
  <2>5. CASE Accepted(newValue)
    <3>1. Valid(new.value) /\ added' = added \ {k} /\ reading' = 0 /\ typed' = typed
      BY <1>9, <2>1, <2>2, <2>5 DEF ReadPair, Accepted
    <3>2. /\ reading' \in 0 .. Len(names) /\ typed' \in {"name", "end"}
          /\ added' \subseteq 1 .. Len(names) /\ added \ {k} \subseteq added'
      BY <1>1, <1>2, <3>1
    <3>3. UNCHANGED <<names, CharcNameSet>>
      BY <1>9 DEF ReadPair
    <3> QED
      BY <2>3, <2>4, <3>1, <3>2, <3>3, ElementChanges
  <2>6. CASE ~Accepted(newValue)
    <3>1. added' = added /\ reading' = reading /\ typed' = typed
      BY <1>9, <2>1, <2>6 DEF ReadPair
    <3>2. Valid(new.value) \/ k \in added
      BY <1>1, <2>2, <2>6 DEF TableInv, OutOfRangeOnlyByAdd
    <3> QED
      BY <1>2, <1>9, <2>3, <2>4, <3>1, <3>2, ElementChanges DEF ReadPair
  <2> QED
    BY <2>5, <2>6
<1>10. ASSUME ReadAtEnd
       PROVE  TableInv'
  BY <1>2, <1>10, NothingChanges DEF ReadAtEnd
<1>11. ASSUME NEW name \in Names, NEW mode \in checkType, NEW hardness \in Hardness,
              NEW first \in Rolls, NEW second \in Rolls, Check(name, mode, hardness, first, second)
       PROVE  TableInv'
  BY <1>2, <1>11, NothingChanges DEF Check
<1> QED
  BY <1>3, <1>4, <1>5, <1>6, <1>7, <1>8, <1>9, <1>10, <1>11 DEF TableNext

LEMMA TableInvariance == TableSafety => []TableInv
BY InitTable, StepTable, PTL DEF TableSafety

\* The better or the worse of two rolls.
LEMMA PassedByRoll ==
  ASSUME NEW mode \in checkType, NEW value \in Int, NEW hardness \in Int,
         NEW first \in 1 .. 20, NEW second \in 1 .. 20,
         NEW roll \in {first, second},
         mode = "NORMAL" => roll = first,
         mode = "ADVANTAGE" => roll >= first /\ roll >= second,
         mode = "DISADVANTAGE" => roll <= first /\ roll <= second
  PROVE  Passed(mode, value, hardness, first, second) <=>
           roll = 20 \/ (roll # 1 /\ value + roll > hardness)
<1> DEFINE Good(r) == r = 20 \/ (r # 1 /\ value + r > hardness)
<1>1. \A r \in 1 .. 20 : abilityCheck(value, hardness, r) <=> Good(r)
  BY DEF abilityCheck
<1>2. ASSUME NEW r \in 1 .. 20, NEW s \in 1 .. 20, r <= s, Good(r)
      PROVE  Good(s)
  BY <1>2
<1>3. CASE mode = "NORMAL"
  BY <1>1, <1>3 DEF Passed
<1>4. CASE mode = "ADVANTAGE"
  <2>1. Passed(mode, value, hardness, first, second) <=> Good(first) \/ Good(second)
    BY <1>1, <1>4 DEF Passed
  <2> HIDE DEF Good
  <2>2. Good(roll) <=> Good(first) \/ Good(second)
    BY <1>2, <1>4
  <2> QED
    BY <2>1, <2>2 DEF Good
<1>5. CASE mode = "DISADVANTAGE"
  <2>1. Passed(mode, value, hardness, first, second) <=> Good(first) /\ Good(second)
    BY <1>1, <1>5 DEF Passed
  <2> HIDE DEF Good
  <2>2. Good(roll) <=> Good(first) /\ Good(second)
    BY <1>2, <1>5
  <2> QED
    BY <2>1, <2>2 DEF Good
<1> QED
  BY <1>3, <1>4, <1>5 DEF checkType

\* A check is that of its step.
LEMMA CheckOfStep ==
  ASSUME TableInv, NEW name, NEW mode \in checkType, NEW hardness \in Hardness,
         NEW first \in Rolls, NEW second \in Rolls, Check(name, mode, hardness, first, second)
  PROVE  BetterOrWorseRoll'
<1>1. PICK value \in Int :
        check' = [mode |-> mode, value |-> value, hardness |-> hardness, rolls |-> {first, second},
                  first |-> first, passed |-> Passed(mode, value, hardness, first, second)]
  <2>1. Found(name) \in 1 .. Len(names)
    BY FoundIsElement DEF Check
  <2>2. CharcVector[Found(name)].value \in Int
    BY <2>1, NumbersAssumption DEF TableInv, Characteristic
  <2> QED
    BY <2>2 DEF Check
<1>2. /\ check'.mode = mode /\ check'.value = value /\ check'.hardness = hardness
      /\ check'.rolls = {first, second} /\ check'.first = first
      /\ check'.passed = Passed(mode, value, hardness, first, second)
  BY <1>1, Zenon
<1>3. first \in 1 .. 20 /\ second \in 1 .. 20 /\ hardness \in Int
  BY NumbersAssumption
<1> DEFINE Low(r) == \A s \in {first, second} : r <= s
           High(r) == \A s \in {first, second} : r >= s
           low == CHOOSE r \in {first, second} : Low(r)
           high == CHOOSE r \in {first, second} : High(r)
           roll == CASE mode = "NORMAL" -> first
                     [] mode = "ADVANTAGE" -> high
                     [] mode = "DISADVANTAGE" -> low
<1>4. (\E r \in {first, second} : Low(r)) /\ (\E r \in {first, second} : High(r))
  BY <1>3
<1>5. low \in {first, second} /\ Low(low) /\ high \in {first, second} /\ High(high)
  <2> HIDE DEF Low, High
  <2> QED
    BY <1>4, Zenon
<1>6. /\ roll \in {first, second}
      /\ mode = "NORMAL" => roll = first
      /\ mode = "ADVANTAGE" => roll >= first /\ roll >= second
      /\ mode = "DISADVANTAGE" => roll <= first /\ roll <= second
  <2> HIDE DEF low, high
  <2> QED
    BY <1>5 DEF checkType
<1> HIDE DEF roll
<1>7. Passed(mode, value, hardness, first, second) <=> roll = 20 \/ (roll # 1 /\ value + roll > hardness)
  BY <1>1, <1>3, <1>6, PassedByRoll
<1>8. BetterOrWorseRoll' <=>
        (check' # NoCheck => (check'.passed <=> roll = 20 \/ (roll # 1 /\ value + roll > hardness)))
  BY <1>2, Zenon DEF BetterOrWorseRoll, roll
<1> QED
  BY <1>2, <1>7, <1>8, Zenon

LEMMA StepBetterOrWorse ==
  ASSUME TableInv, BetterOrWorseRoll, [TableNext]_tableVars
  PROVE  BetterOrWorseRoll'
<1>1. CASE UNCHANGED tableVars
  BY <1>1, Zenon DEF tableVars, BetterOrWorseRoll
<1>2. ASSUME check' = NoCheck
      PROVE  BetterOrWorseRoll'
  BY <1>2, Zenon DEF BetterOrWorseRoll, NoCheck
<1>3. ASSUME NEW name \in Names, NEW mode \in checkType, NEW hardness \in Hardness,
             NEW first \in Rolls, NEW second \in Rolls, Check(name, mode, hardness, first, second)
      PROVE  BetterOrWorseRoll'
  BY <1>3, CheckOfStep
<1> QED
  BY <1>1, <1>2, <1>3
     DEF TableNext, GetMissing, ReadBegins, SetName, SetValue, Add, ReadPair, ReadAtEnd

LEMMA FoundWhereKept == TableInv => FoundIfKept
<1> SUFFICES ASSUME TableInv, NEW k \in 1 .. Len(names), CharcVector[k].name = names[k]
             PROVE  \/ Found(names[k]) = k
                    \/ Found(names[k]) < k /\ CharcVector[Found(names[k])].name = names[k]
  BY DEF FoundIfKept, TableInv
<1>1. Known(names[k])
  BY DEF Known, TableInv, NameSet
<1>2. /\ Found(names[k]) \in 1 .. Len(names) /\ Found(names[k]) <= k
      /\ CharcVector[Found(names[k])].name = names[k]
  BY <1>1, FoundIsFirst
<1>3. Len(names) \in Nat
  BY DEF TableInv
<1> QED
  BY <1>2, <1>3

\* However the table is changed it keeps its length, and the set the names it was
\* made with (CharacteristicTable.hpp, CharacteristicTable.cpp:5-50).
THEOREM TableTyped == TableSafety => []TableTypeOK
<1>1. TableInv => TableTypeOK
  <2> SUFFICES ASSUME TableInv
               PROVE  TableTypeOK
    OBVIOUS
  <2>1. /\ CharcVector \in [1 .. Len(names) -> Characteristic] /\ Len(names) \in Nat
        /\ DOMAIN names = 1 .. Len(names) /\ DOMAIN CharcVector = 1 .. Len(names)
    BY DEF TableInv
  <2>2. Len(CharcVector) = Len(names)
    BY <2>1
  <2>3. \A k \in DOMAIN CharcVector :
          CharcVector[k].name \in Names /\ CharcVector[k].value \in -BOUND .. BOUND
    BY <2>1 DEF Characteristic
  <2> QED
    BY <2>1, <2>2, <2>3 DEF TableInv, TableTypeOK, NameSet
<1> QED
  BY <1>1, TableInvariance, PTL

\* For every table, and every value, addition and roll: only += takes a value out of
\* 1 .. 20; what kept its name is found by it, unless an earlier one has taken the
\* name; and a check goes by the better or the worse of two rolls
\* (Characteristic.cpp:30-92, CharacteristicTable.cpp:32-50).
THEOREM TableIsRight == TableSafety => []TableRight
<1>1. TableInit => BetterOrWorseRoll
  BY Zenon DEF TableInit, BetterOrWorseRoll
<1>2. TableInv => OutOfRangeOnlyByAdd
  BY DEF TableInv
<1> QED
  BY <1>1, <1>2, TableInvariance, StepBetterOrWorse, FoundWhereKept, PTL DEF TableSafety, TableRight

-----------------------------------------------------------------------------
(* Sums of one number after another.                                       *)

\* What the elements 0 .. idx of own come to, for every idx.
Sums(own, n, sum) ==
  /\ sum \in [0 .. n -> Int]
  /\ sum[0] = own[0] /\ \A idx \in 1 .. n : sum[idx] = own[idx] + sum[idx - 1]

LEMMA SumsExist ==
  ASSUME NEW n \in Nat, NEW own \in [0 .. n -> Int]
  PROVE  \E sum : /\ sum = [idx \in 0 .. n |-> IF idx = 0 THEN own[idx] ELSE own[idx] + sum[idx - 1]]
<1> DEFINE next == [q \in Nat \X Int |-> (IF q[1] < n THEN own[q[1] + 1] ELSE 0) + q[2]]
<1>1. next \in [Nat \X Int -> Int] /\ own[0] \in Int
  OBVIOUS
<1> HIDE DEF next
<1>2. PICK phi : Iterates(phi, Int, own[0], next)
  BY <1>1, Iterated
<1>3. PICK sum : sum = [idx \in 0 .. n |-> phi[idx]]
  OBVIOUS
<1>4. ASSUME NEW idx \in 0 .. n
      PROVE  sum[idx] = IF idx = 0 THEN own[idx] ELSE own[idx] + sum[idx - 1]
  <2>1. CASE idx = 0
    BY <1>2, <1>3, <2>1 DEF Iterates
  <2>2. CASE idx # 0
    <3>0. idx - 1 \in Nat /\ idx - 1 \in 0 .. n /\ idx - 1 < n /\ (idx - 1) + 1 = idx
      BY <2>2
    <3>1. PICK m \in Nat : m = idx - 1 /\ m \in 0 .. n /\ m < n /\ m + 1 = idx
      BY <3>0
    <3>2. phi[m + 1] = next[<<m, phi[m]>>] /\ phi[m] \in Int
      BY <1>2 DEF Iterates
    <3>3. next[<<m, phi[m]>>] = own[m + 1] + phi[m]
      BY <3>1, <3>2 DEF next
    <3>4. sum[idx] = phi[m + 1] /\ sum[idx - 1] = phi[m]
      BY <1>3, <3>1
    <3> QED
      BY <2>2, <3>1, <3>2, <3>3, <3>4
  <2> QED
    BY <2>1, <2>2
<1>5. sum = [idx \in 0 .. n |-> sum[idx]]
  BY <1>3
<1> QED
  BY <1>4, <1>5

LEMMA SumsAre ==
  ASSUME NEW n \in Nat, NEW own \in [0 .. n -> Int], NEW sum,
         sum = [idx \in 0 .. n |-> IF idx = 0 THEN own[idx] ELSE own[idx] + sum[idx - 1]]
  PROVE  Sums(own, n, sum)
<1>1. PICK g : g = [idx \in 0 .. n |-> IF idx = 0 THEN own[idx] ELSE own[idx] + sum[idx - 1]]
  OBVIOUS
<1>2. sum = g
  BY <1>1, Zenon
<1>3. g[0] = own[0] /\ \A idx \in 1 .. n : g[idx] = own[idx] + sum[idx - 1]
  BY ONLY <1>1, n \in Nat
<1>4. sum[0] = own[0] /\ \A idx \in 1 .. n : sum[idx] = own[idx] + sum[idx - 1]
  BY <1>2, <1>3, Zenon
<1>5. \A idx \in 0 .. n : sum[idx] \in Int
  <2> DEFINE Good == {idx \in Nat : idx <= n => sum[idx] \in Int}
  <2>1. 0 \in Good
    BY <1>4
  <2>2. ASSUME NEW idx \in Nat, idx \in Good
        PROVE  idx + 1 \in Good
    <3> SUFFICES ASSUME idx + 1 <= n PROVE sum[idx + 1] \in Int
      OBVIOUS
    <3>1. idx + 1 \in 1 .. n /\ idx + 1 \in 0 .. n /\ sum[idx] \in Int /\ (idx + 1) - 1 = idx
      BY <2>2
    <3>2. sum[idx + 1] = own[idx + 1] + sum[idx] /\ own[idx + 1] \in Int
      BY <1>4, <3>1
    <3> QED
      BY <3>1, <3>2
  <2> HIDE DEF Good
  <2>3. Nat \subseteq Good
    BY <2>1, <2>2, Induction
  <2> QED
    BY ONLY <2>3, n \in Nat DEF Good
<1>6. \A idx \in 0 .. n : (IF idx = 0 THEN own[idx] ELSE own[idx] + sum[idx - 1]) \in Int
  <2> TAKE idx \in 0 .. n
  <2>1. idx # 0 => idx \in 1 .. n
    OBVIOUS
  <2>2. IF idx = 0 THEN sum[idx] = own[idx] ELSE sum[idx] = own[idx] + sum[idx - 1]
    BY <1>4, <2>1, Zenon
  <2> QED
    BY ONLY <1>5, <2>2, idx \in 0 .. n
<1>7. g \in [0 .. n -> Int]
  BY ONLY <1>1, <1>6
<1>8. sum \in [0 .. n -> Int]
  BY <1>2, <1>7, Zenon
<1> QED
  BY <1>4, <1>8 DEF Sums

\* Every element of the second is at most that of the first, but for one.
RisesAt(n, own, other, q, d) ==
  \A idx \in 0 .. n : other[idx] <= own[idx] + IF idx = q THEN d ELSE 0

\* Of two sums the second is larger by no more than one of its elements is.
LEMMA SumRises ==
  ASSUME NEW n \in Nat, NEW own \in [0 .. n -> Int], NEW other \in [0 .. n -> Int],
         NEW sum, NEW sum2, Sums(own, n, sum), Sums(other, n, sum2),
         NEW q \in 0 .. n, NEW d \in Int, RisesAt(n, own, other, q, d)
  PROVE  sum2[n] <= sum[n] + d
<1> DEFINE Rises == {idx \in Nat : idx <= n => sum2[idx] <= sum[idx] + IF idx < q THEN 0 ELSE d}
<1>1. 0 \in Rises
  <2>1. sum[0] = own[0] /\ sum2[0] = other[0] /\ 0 \in 0 .. n
    BY DEF Sums
  <2>2. other[0] <= own[0] + IF 0 < q THEN 0 ELSE d
    BY <2>1 DEF RisesAt
  <2> QED
    BY <2>1, <2>2
<1>2. ASSUME NEW idx \in Nat, idx \in Rises
      PROVE  idx + 1 \in Rises
  <2> SUFFICES ASSUME idx + 1 <= n
               PROVE  sum2[idx + 1] <= sum[idx + 1] + IF idx + 1 < q THEN 0 ELSE d
    OBVIOUS
  <2>1. idx + 1 \in 1 .. n /\ idx + 1 \in 0 .. n /\ idx \in 0 .. n /\ (idx + 1) - 1 = idx
    OBVIOUS
  <2>2. /\ sum[idx + 1] = own[idx + 1] + sum[idx] /\ sum2[idx + 1] = other[idx + 1] + sum2[idx]
        /\ sum[idx] \in Int /\ sum2[idx] \in Int /\ own[idx + 1] \in Int /\ other[idx + 1] \in Int
    BY <2>1 DEF Sums
  <2>3. sum2[idx] <= sum[idx] + IF idx < q THEN 0 ELSE d
    BY <1>2, <2>1
  <2>4. other[idx + 1] <= own[idx + 1] + IF idx + 1 = q THEN d ELSE 0
    BY <2>1 DEF RisesAt
  <2> QED
    <3>1. PICK v \in Int, b \in Int, x \in Int, y \in Int :
            v = sum[idx] /\ b = sum2[idx] /\ x = own[idx + 1] /\ y = other[idx + 1]
      BY <2>2, Zenon
    <3>2. sum[idx + 1] = x + v /\ sum2[idx + 1] = y + b
      BY <2>2, <3>1, Zenon
    <3>3. b <= v + (IF idx < q THEN 0 ELSE d) /\ y <= x + (IF idx + 1 = q THEN d ELSE 0)
      BY <2>3, <2>4, <3>1, Zenon
    <3>4. y + b <= x + v + (IF idx + 1 < q THEN 0 ELSE d)
      BY ONLY <3>3, v \in Int, b \in Int, x \in Int, y \in Int, idx \in Nat, d \in Int, q \in 0 .. n, n \in Nat
    <3> QED
      BY <3>2, <3>4, Zenon
<1> HIDE DEF Rises
<1>3. n \in Rises
  BY <1>1, <1>2, Induction
<1> QED
  BY ONLY <1>3, n \in Nat, q \in 0 .. n DEF Rises

\* The sum of elements each in bounds.
LEMMA SumBetween ==
  ASSUME NEW n \in Nat, NEW own \in [0 .. n -> Int], NEW sum, Sums(own, n, sum),
         NEW low \in [0 .. n -> Int], NEW high \in [0 .. n -> Int],
         low[0] <= own[0] /\ own[0] <= high[0],
         \A idx \in 1 .. n : low[idx] <= own[idx] + low[idx - 1] /\ own[idx] + high[idx - 1] <= high[idx]
  PROVE  low[n] <= sum[n] /\ sum[n] <= high[n]
<1> DEFINE In == {idx \in Nat : idx <= n => low[idx] <= sum[idx] /\ sum[idx] <= high[idx]}
<1>1. 0 \in In
  BY DEF Sums
<1>2. ASSUME NEW idx \in Nat, idx \in In
      PROVE  idx + 1 \in In
  <2> SUFFICES ASSUME idx + 1 <= n
               PROVE  low[idx + 1] <= sum[idx + 1] /\ sum[idx + 1] <= high[idx + 1]
    OBVIOUS
  <2>1. idx + 1 \in 1 .. n /\ idx + 1 \in 0 .. n /\ idx \in 0 .. n /\ (idx + 1) - 1 = idx
    OBVIOUS
  <2>2. /\ sum[idx + 1] = own[idx + 1] + sum[idx] /\ sum[idx] \in Int /\ own[idx + 1] \in Int
        /\ low[idx] \in Int /\ low[idx + 1] \in Int /\ high[idx] \in Int /\ high[idx + 1] \in Int
    BY <2>1 DEF Sums
  <2>3. low[idx + 1] <= own[idx + 1] + low[idx] /\ own[idx + 1] + high[idx] <= high[idx + 1]
    BY <2>1
  <2>4. low[idx] <= sum[idx] /\ sum[idx] <= high[idx]
    BY <1>2, <2>1
  <2> QED
    <3>1. PICK v \in Int, x \in Int, l \in Int, h \in Int :
            v = sum[idx] /\ x = own[idx + 1] /\ l = low[idx] /\ h = high[idx]
      BY <2>2, Zenon
    <3>2. l <= v /\ v <= h /\ low[idx + 1] <= x + l /\ x + h <= high[idx + 1] /\ sum[idx + 1] = x + v
      BY <2>2, <2>3, <2>4, <3>1, Zenon
    <3>3. low[idx + 1] \in Int /\ high[idx + 1] \in Int
      BY <2>2, Zenon
    <3> QED
      BY ONLY <3>2, <3>3, v \in Int, x \in Int, l \in Int, h \in Int
<1> HIDE DEF In
<1>3. n \in In
  BY <1>1, <1>2, Induction
<1> QED
  BY ONLY <1>3, n \in Nat DEF In

-----------------------------------------------------------------------------
(* Forks.  A task of each process that is there is what bounds the forks.  *)

Line == {<<"thread", pid, k, made>> : pid \in Nat, k \in Nat, made \in BOOLEAN}
          \cup {<<"failed", k>> : k \in Nat}
          \cup {<<"memory", pid, k, mem>> : pid \in Nat, k \in Nat, mem \in Locals}

Process == [pc : Points, tried : Nat, threads : Nat, mem : Locals, buf : Seq(Line)]

\* The steps, whoever runs.
ForksSafety == ForksInit /\ [][ForksNext]_forksVars

RunInv ==
  /\ program \in Forking /\ limit \in Limits /\ tty \in BOOLEAN
  /\ forks \in 0 .. Children /\ exitStatus \in {-1, 0, 1}
  /\ proc \in [Pids -> Process]
  /\ out \in Seq(Line)

\* main and its children.
ProcessesInv ==
  /\ proc[Parent].pc \in {"fork", "last", "parent", "wait", "again", "exit", "gone"}
  /\ proc[Parent].tried \in {0, 1} /\ proc[Parent].threads <= proc[Parent].tried
  /\ proc[Parent].pc \in {"fork", "last"} => proc[Parent].tried = 0
  /\ program # "fork" => proc[Parent].pc \in {"fork", "last", "exit", "gone"}
  /\ \A pid \in 1 .. MaxForks :
       /\ proc[pid].tried <= PerChild /\ proc[pid].threads <= proc[pid].tried
       /\ pid > forks => proc[pid].pc = "none"
       /\ pid <= forks => proc[pid].pc \in {"create", "child", "exit", "zombie", "gone"}
       /\ program # "fork" /\ proc[pid].pc = "gone" => proc[Parent].pc = "gone"

\* How far main came.
ForkingInv ==
  program # "fork" =>
    /\ proc[Parent].pc = "last" => forks = Children
    /\ proc[Parent].pc = "gone" <=> exitStatus # -1 /\ proc[Parent].pc # "exit"
    /\ proc[Parent].pc \in {"fork", "last"} => exitStatus = -1
    /\ exitStatus = -1 /\ proc[Parent].pc = "exit" => forks = Children
    /\ exitStatus = 0 => forks = Children
    /\ exitStatus = 1 => forks < Children /\ 1 + forks * (1 + PerChild) >= limit
    /\ forks < limit

\* The tasks are no more than the kernel allows.
Bounded == TasksUpTo[MaxForks] <= limit

ForksInv == RunInv /\ ProcessesInv /\ ForkingInv /\ Bounded

Counts(pid) == IF Alive(pid) THEN 1 + proc[pid].threads ELSE IF proc[pid].pc = "zombie" THEN 1 ELSE 0

LEMMA ForkNumbers ==
  ASSUME program \in Forking
  PROVE  /\ Children \in Nat /\ PerChild \in Nat /\ MaxForks \in Nat /\ Children <= MaxForks
         /\ Pids = 0 .. MaxForks /\ Parent = 0 /\ MaxForks >= 1
<1>1. program \in {"allocStacksTest1", "allocStacksTest", "fork"}
  BY ForksAssumption
<1>2. FORKS \in Nat /\ FORKS >= 1 /\ THREADS1 \in Nat /\ THREADS \in Nat
  BY ForksAssumption
<1> QED
  BY <1>1, <1>2 DEF Children, PerChild, MaxForks, Pids, Parent

\* What is counted is a sum.
LEMMA TasksAreSums ==
  RunInv => /\ [pid \in 0 .. MaxForks |-> Counts(pid)] \in [0 .. MaxForks -> Int]
            /\ Sums([pid \in 0 .. MaxForks |-> Counts(pid)], MaxForks, TasksUpTo)
<1> SUFFICES ASSUME RunInv
             PROVE  /\ [pid \in 0 .. MaxForks |-> Counts(pid)] \in [0 .. MaxForks -> Int]
                    /\ Sums([pid \in 0 .. MaxForks |-> Counts(pid)], MaxForks, TasksUpTo)
  OBVIOUS
<1>1. MaxForks \in Nat /\ Pids = 0 .. MaxForks
  BY ForkNumbers DEF RunInv
<1>2. PICK own : own = [pid \in 0 .. MaxForks |-> Counts(pid)]
  OBVIOUS
<1>3. own \in [0 .. MaxForks -> Int]
  BY <1>1, <1>2 DEF Counts, RunInv, Process
<1>4. \A pid \in 0 .. MaxForks : own[pid] = Counts(pid)
  BY <1>2
<1> DEFINE Is(sum) == sum = [pid \in Pids |->
             LET mine == IF Alive(pid) THEN 1 + proc[pid].threads
                         ELSE IF proc[pid].pc = "zombie" THEN 1 ELSE 0
             IN  IF pid = 0 THEN mine ELSE mine + sum[pid - 1]]
<1>5. \A sum : Is(sum) <=> sum = [pid \in 0 .. MaxForks |-> IF pid = 0 THEN own[pid] ELSE own[pid] + sum[pid - 1]]
  <2> TAKE sum
  <2>1. [pid \in Pids |-> LET mine == IF Alive(pid) THEN 1 + proc[pid].threads
                                    ELSE IF proc[pid].pc = "zombie" THEN 1 ELSE 0
                        IN  IF pid = 0 THEN mine ELSE mine + sum[pid - 1]]
          = [pid \in 0 .. MaxForks |-> IF pid = 0 THEN own[pid] ELSE own[pid] + sum[pid - 1]]
    BY <1>1, <1>4 DEF Counts
  <2> QED
    BY <2>1, Zenon
<1>6. TasksUpTo = CHOOSE sum : Is(sum)
  BY Zenon DEF TasksUpTo
<1>7. \E sum : Is(sum)
  <2>1. \E sum : sum = [pid \in 0 .. MaxForks |-> IF pid = 0 THEN own[pid] ELSE own[pid] + sum[pid - 1]]
    BY <1>1, <1>3, SumsExist
  <2> HIDE DEF Is
  <2> QED
    BY <1>5, <2>1, Zenon
<1>8. Is(TasksUpTo)
  <2> HIDE DEF Is
  <2> QED
    BY <1>6, <1>7, Zenon
<1>9. TasksUpTo = [pid \in 0 .. MaxForks |-> IF pid = 0 THEN own[pid] ELSE own[pid] + TasksUpTo[pid - 1]]
  <2> HIDE DEF Is
  <2> QED
    BY <1>5, <1>8, Zenon
<1>10. Sums(own, MaxForks, TasksUpTo)
  BY <1>1, <1>3, <1>9, SumsAre, Zenon
<1> QED
  BY <1>2, <1>3, <1>10, Zenon

\* While main is there it counts, and so does each of its children.
LEMMA TasksAtLeast ==
  ASSUME ForksInv, program # "fork", Alive(Parent)
  PROVE  TasksUpTo[MaxForks] >= 1 + forks
<1>1. /\ MaxForks \in Nat /\ Pids = 0 .. MaxForks /\ Parent = 0 /\ forks \in 0 .. MaxForks
      /\ proc \in [Pids -> Process]
  BY ForkNumbers DEF ForksInv, RunInv
<1>2. PICK own : own = [pid \in 0 .. MaxForks |-> Counts(pid)]
  OBVIOUS
<1>3. own \in [0 .. MaxForks -> Int] /\ Sums(own, MaxForks, TasksUpTo)
  BY <1>2, TasksAreSums DEF ForksInv
<1>4. PICK low : low = [pid \in 0 .. MaxForks |-> IF pid <= forks THEN 1 + pid ELSE 1 + forks]
  OBVIOUS
<1>5. PICK high : high = [pid \in 0 .. MaxForks |-> TasksUpTo[pid]]
  OBVIOUS
<1>6. low \in [0 .. MaxForks -> Int] /\ high \in [0 .. MaxForks -> Int]
  BY <1>1, <1>3, <1>4, <1>5 DEF Sums
<1>7. \A pid \in 0 .. MaxForks : own[pid] \in Nat /\ (pid <= forks => own[pid] >= 1)
  <2> TAKE pid \in 0 .. MaxForks
  <2>1. own[pid] = Counts(pid) /\ proc[pid].threads \in Nat
    BY <1>1, <1>2 DEF Process
  <2>2. pid <= forks /\ ~Alive(pid) => proc[pid].pc = "zombie"
    <3>1. CASE pid = 0
      BY <1>1, <3>1
    <3>2. CASE pid # 0 /\ pid <= forks
      <4>1. pid \in 1 .. MaxForks
        BY <3>2
      <4>2. proc[pid].pc \in {"create", "child", "exit", "zombie", "gone"}
        BY <3>2, <4>1 DEF ForksInv, ProcessesInv
      <4>3. proc[pid].pc # "gone"
        BY <4>1 DEF ForksInv, ProcessesInv, Alive
      <4> QED
        BY <4>2, <4>3 DEF Alive
    <3> QED
      BY <3>1, <3>2
  <2> QED
    BY <2>1, <2>2 DEF Counts
<1>8. low[0] <= own[0] /\ own[0] <= high[0]
  <2>1. high[0] = own[0] /\ 0 \in 0 .. MaxForks
    BY <1>1, <1>3, <1>5 DEF Sums
  <2> QED
    BY <1>1, <1>4, <1>7, <2>1
<1>9. \A pid \in 1 .. MaxForks : low[pid] <= own[pid] + low[pid - 1] /\ own[pid] + high[pid - 1] <= high[pid]
  <2> TAKE pid \in 1 .. MaxForks
  <2>1. pid \in 0 .. MaxForks /\ pid - 1 \in 0 .. MaxForks
    BY <1>1
  <2>2. own[pid] + high[pid - 1] = high[pid] /\ high[pid] \in Int
    BY <1>3, <1>5, <2>1 DEF Sums
  <2>3. low[pid] <= own[pid] + low[pid - 1]
    BY <1>1, <1>4, <1>7, <2>1
  <2> QED
    BY <2>2, <2>3
<1>10. low[MaxForks] <= TasksUpTo[MaxForks]
  BY <1>1, <1>3, <1>6, <1>8, <1>9, SumBetween
<1> QED
  BY <1>1, <1>3, <1>4, <1>10 DEF Sums

\* They count no more than all of their threads.
LEMMA TasksAtMost ==
  ASSUME ForksInv, program # "fork", proc[Parent].pc = "fork"
  PROVE  TasksUpTo[MaxForks] <= 1 + forks * (1 + PerChild)
<1>1. /\ MaxForks \in Nat /\ Pids = 0 .. MaxForks /\ Parent = 0 /\ forks \in 0 .. MaxForks
      /\ proc \in [Pids -> Process] /\ PerChild \in Nat
  BY ForkNumbers DEF ForksInv, RunInv
<1>2. PICK own : own = [pid \in 0 .. MaxForks |-> Counts(pid)]
  OBVIOUS
<1>3. own \in [0 .. MaxForks -> Int] /\ Sums(own, MaxForks, TasksUpTo)
  BY <1>2, TasksAreSums DEF ForksInv
<1>4. PICK each \in Nat : each = 1 + PerChild
  BY <1>1
<1>5. PICK high : high = [pid \in 0 .. MaxForks |-> IF pid <= forks THEN 1 + pid * each ELSE 1 + forks * each]
  OBVIOUS
<1>6. PICK low : low = [pid \in 0 .. MaxForks |-> TasksUpTo[pid]]
  OBVIOUS
<1>7. low \in [0 .. MaxForks -> Int] /\ high \in [0 .. MaxForks -> Int]
  <2>1. \A pid \in 0 .. MaxForks : pid * each \in Int
    BY <1>1, <1>4
  <2> QED
    BY <1>1, <1>3, <1>5, <1>6, <2>1 DEF Sums
<1>8. own[0] <= 1
  <2>1. proc[0].threads = 0 /\ 0 \in 0 .. MaxForks
    BY <1>1 DEF ForksInv, ProcessesInv, Process
  <2> QED
    BY <1>2, <2>1 DEF Counts
<1>9. \A pid \in 1 .. MaxForks : IF pid <= forks THEN own[pid] <= each ELSE own[pid] = 0
  <2> TAKE pid \in 1 .. MaxForks
  <2>1. own[pid] = Counts(pid) /\ proc[pid].threads \in Nat /\ proc[pid].tried \in Nat
    BY <1>1, <1>2 DEF Process
  <2>2. /\ proc[pid].tried <= PerChild /\ proc[pid].threads <= proc[pid].tried
        /\ pid > forks => proc[pid].pc = "none"
    BY DEF ForksInv, ProcessesInv
  <2>3. own[pid] <= each
    BY <1>1, <1>4, <2>1, <2>2 DEF Counts
  <2>4. pid > forks => own[pid] = 0
    BY <2>1, <2>2 DEF Counts, Alive
  <2> QED
    BY <1>1, <2>3, <2>4
<1>10. low[0] <= own[0] /\ own[0] <= high[0]
  <2>1. low[0] = own[0] /\ 0 \in 0 .. MaxForks /\ own[0] \in Int
    BY <1>1, <1>3, <1>6 DEF Sums
  <2>2. high[0] = 1
    BY <1>1, <1>4, <1>5, <2>1
  <2> QED
    BY <1>8, <2>1, <2>2
<1>11. \A pid \in 1 .. MaxForks : low[pid] <= own[pid] + low[pid - 1] /\ own[pid] + high[pid - 1] <= high[pid]
  <2> TAKE pid \in 1 .. MaxForks
  <2>1. pid \in 0 .. MaxForks /\ pid - 1 \in 0 .. MaxForks
    BY <1>1
  <2>2. own[pid] + low[pid - 1] = low[pid] /\ low[pid] \in Int /\ own[pid] \in Int
    BY <1>3, <1>6, <2>1 DEF Sums
  <2>3. own[pid] + high[pid - 1] <= high[pid]
    <3>1. CASE pid <= forks
      <4>1. high[pid] = 1 + pid * each /\ high[pid - 1] = 1 + (pid - 1) * each
        BY <1>1, <1>5, <2>1, <3>1
      <4>2. PICK m \in Nat : m = pid - 1
        BY <2>1
      <4>3. pid * each = m * each + each
        BY <1>4, <4>2
      <4>4. m * each \in Int /\ high[pid - 1] = 1 + m * each /\ own[pid] <= each
        BY <1>4, <1>9, <3>1, <4>1, <4>2
      <4> QED
        BY <1>4, <2>2, <4>1, <4>3, <4>4
    <3>2. CASE pid > forks
      <4>1. high[pid] = 1 + forks * each /\ high[pid - 1] = 1 + forks * each
        <5>1. CASE pid - 1 = forks
          BY <1>1, <1>5, <2>1, <3>2, <5>1
        <5>2. CASE pid - 1 # forks
          BY <1>1, <1>5, <2>1, <3>2, <5>2
        <5> QED
          BY <5>1, <5>2
      <4>2. own[pid] = 0 /\ high[pid] \in Int
        BY <1>1, <1>7, <1>9, <2>1, <3>2
      <4> QED
        BY <4>1, <4>2
    <3> QED
      BY <1>1, <3>1, <3>2
  <2> QED
    BY <2>2, <2>3
<1>12. TasksUpTo[MaxForks] <= high[MaxForks]
  BY <1>1, <1>3, <1>7, <1>10, <1>11, SumBetween
<1>13. high[MaxForks] = 1 + forks * each
  BY <1>1, <1>5
<1> QED
  BY <1>4, <1>12, <1>13

-----------------------------------------------------------------------------
(* The calls.                                                              *)

LEMMA LineWritten ==
  ASSUME RunInv, NEW r \in Process, NEW line \in Line
  PROVE  /\ WithLine(r, line) \in Process /\ Shown(line) \in Seq(Line)
         /\ WithLine(r, line).pc = r.pc /\ WithLine(r, line).tried = r.tried
         /\ WithLine(r, line).threads = r.threads /\ WithLine(r, line).mem = r.mem
         /\ WithLine(r, line).buf = IF tty THEN r.buf ELSE Append(r.buf, line)
<1>1. Append(r.buf, line) \in Seq(Line) /\ Append(out, line) \in Seq(Line)
  BY DEF Process, RunInv
<1>2. CASE tty
  BY <1>1, <1>2 DEF WithLine, Shown, Process, RunInv
<1>3. CASE ~tty
  BY <1>1, <1>3 DEF WithLine, Shown, Process, RunInv
<1> QED
  BY <1>2, <1>3

LEMMA ThreadTried ==
  ASSUME NEW r \in Process
  PROVE  /\ WithThread(r) \in Process
         /\ WithThread(r).pc = r.pc /\ WithThread(r).tried = r.tried + 1
         /\ WithThread(r).threads = (IF HasRoom THEN r.threads + 1 ELSE r.threads)
         /\ WithThread(r).mem = r.mem /\ WithThread(r).buf = r.buf
<1>1. PICK tried \in Nat : tried = r.tried + 1
  BY DEF Process
<1>2. PICK threads \in Nat : threads = IF HasRoom THEN r.threads + 1 ELSE r.threads
  BY DEF Process
<1>3. WithThread(r) = [r EXCEPT !.tried = tried, !.threads = threads]
  BY <1>1, <1>2, Zenon DEF WithThread
<1> QED
  BY <1>1, <1>2, <1>3 DEF Process

LEMMA PcMoved ==
  ASSUME NEW r \in Process, NEW point \in Points
  PROVE  /\ [r EXCEPT !.pc = point] \in Process
         /\ [r EXCEPT !.pc = point].pc = point /\ [r EXCEPT !.pc = point].tried = r.tried
         /\ [r EXCEPT !.pc = point].threads = r.threads /\ [r EXCEPT !.pc = point].mem = r.mem
         /\ [r EXCEPT !.pc = point].buf = r.buf
BY DEF Process

LEMMA MemChanged ==
  ASSUME NEW r \in Process, NEW mem \in Locals
  PROVE  /\ [r EXCEPT !.mem = mem] \in Process
         /\ [r EXCEPT !.mem = mem].pc = r.pc /\ [r EXCEPT !.mem = mem].tried = r.tried
         /\ [r EXCEPT !.mem = mem].threads = r.threads /\ [r EXCEPT !.mem = mem].mem = mem
         /\ [r EXCEPT !.mem = mem].buf = r.buf
BY DEF Process

LEMMA EndOf ==
  ASSUME NEW r \in Process
  PROVE  /\ Ended(r) \in Process
         /\ Ended(r).pc = "zombie" /\ Ended(r).tried = r.tried /\ Ended(r).threads = 0
         /\ Ended(r).mem = r.mem /\ Ended(r).buf = <<>>
<1>1. "zombie" \in Points /\ <<>> \in Seq(Line) /\ 0 \in Nat
  BY DEF Points
<1> QED
  BY <1>1 DEF Ended, Process

\* One process changes.
LEMMA OneProcess ==
  ASSUME RunInv, NEW pid \in Pids, NEW r \in Process, proc' = [proc EXCEPT ![pid] = r]
  PROVE  /\ proc' \in [Pids -> Process] /\ proc'[pid] = r
         /\ \A q \in Pids : q # pid => proc'[q] = proc[q]
BY DEF RunInv

-----------------------------------------------------------------------------
(* The steps.                                                              *)

\* How the tasks change with the process q.
LEMMA TasksRise ==
  ASSUME RunInv, RunInv', UNCHANGED limit, Bounded, NEW q \in Pids, NEW d \in {0, 1},
         d = 1 => HasRoom,
         \A pid \in Pids : Counts(pid)' <= Counts(pid) + IF pid = q THEN d ELSE 0
  PROVE  Bounded'
<1>1. MaxForks \in Nat /\ Pids = 0 .. MaxForks /\ limit \in Nat
  BY ForkNumbers, ForksAssumption DEF RunInv
<1>2. PICK own : own = [pid \in 0 .. MaxForks |-> Counts(pid)]
  OBVIOUS
<1>3. PICK own2 : own2 = [pid \in 0 .. MaxForks |-> Counts(pid)]'
  OBVIOUS
<1>4. own \in [0 .. MaxForks -> Int] /\ Sums(own, MaxForks, TasksUpTo)
  BY <1>2, TasksAreSums
<1>5. (RunInv => /\ [pid \in 0 .. MaxForks |-> Counts(pid)] \in [0 .. MaxForks -> Int]
                 /\ Sums([pid \in 0 .. MaxForks |-> Counts(pid)], MaxForks, TasksUpTo))'
  BY TasksAreSums, PTL
<1>6. own2 \in [0 .. MaxForks -> Int] /\ Sums(own2, MaxForks, TasksUpTo')
  BY <1>3, <1>5, Zenon
<1>7. RisesAt(MaxForks, own, own2, q, d)
  BY <1>1, <1>2, <1>3 DEF RisesAt
<1>8. TasksUpTo'[MaxForks] <= TasksUpTo[MaxForks] + d
  <2>1. q \in 0 .. MaxForks /\ d \in Int
    BY <1>1
  <2> QED
    BY <1>1, <1>4, <1>6, <1>7, <2>1, SumRises, Zenon
<1>9. TasksUpTo[MaxForks] \in Int /\ TasksUpTo'[MaxForks] \in Int
  BY <1>1, <1>4, <1>6 DEF Sums
<1>10. TasksUpTo[MaxForks] + d <= limit
  BY <1>1, <1>9 DEF Bounded, HasRoom
<1> QED
  BY <1>1, <1>8, <1>9, <1>10 DEF Bounded

\* What main, and a child, may become in a step that starts at most one thread.
MainTo(r) ==
  /\ proc[Parent].pc # "gone"
  /\ r.pc \in {"fork", "last", "parent", "wait", "again", "exit"}
  /\ r.tried \in {0, 1} /\ r.threads <= r.tried
  /\ r.pc \in {"fork", "last"} => r.tried = 0
  /\ program # "fork" => r.pc \in {"fork", "last", "exit"}
  /\ r.threads <= proc[Parent].threads \/ (r.threads = proc[Parent].threads + 1 /\ HasRoom)

ChildTo(pid, r) ==
  /\ Alive(pid)
  /\ r.pc \in {"create", "child", "exit", "zombie", "gone"}
  /\ r.tried <= PerChild /\ r.threads <= r.tried
  /\ program # "fork" /\ r.pc = "gone" => proc[Parent].pc = "gone"
  /\ r.threads <= proc[pid].threads \/ (r.threads = proc[pid].threads + 1 /\ HasRoom)

\* The steps of main that change nothing of the children.
LEMMA MainChanges ==
  ASSUME RunInv, ProcessesInv, Bounded, UNCHANGED <<program, limit, tty, forks>>,
         NEW r \in Process, proc' = [proc EXCEPT ![Parent] = r],
         exitStatus' \in {-1, 0, 1}, out' \in Seq(Line),
         MainTo(r)
  PROVE  RunInv' /\ ProcessesInv' /\ Bounded' /\ proc'[Parent] = r
<1> USE DEF MainTo
<1>0. program' = program /\ Parent \in Pids /\ program \in Forking
  <2>1. program \in Forking
    BY DEF RunInv
  <2>2. MaxForks \in Nat /\ Pids = 0 .. MaxForks /\ Parent = 0
    BY <2>1, ForkNumbers
  <2> QED
    BY <2>1, <2>2
<1>1. /\ MaxForks \in Nat /\ Pids = 0 .. MaxForks /\ Parent = 0 /\ Parent \in Pids
      /\ Children' = Children /\ PerChild' = PerChild
  <2>1. Children' = Children /\ PerChild' = PerChild
    BY <1>0, Zenon DEF Children, PerChild
  <2> QED
    BY <1>0, <2>1, ForkNumbers
<1>2. /\ proc' \in [Pids -> Process] /\ proc'[Parent] = r
      /\ \A q \in Pids : q # Parent => proc'[q] = proc[q]
  BY <1>1, OneProcess
<1>3. RunInv'
  BY <1>1, <1>2 DEF RunInv
<1>4. ProcessesInv'
  <2>1. \A q \in 1 .. MaxForks : proc'[q] = proc[q]
    BY <1>1, <1>2
  <2>2. \A q \in 1 .. MaxForks : program # "fork" => proc[q].pc # "gone"
    BY DEF ProcessesInv
  <2> QED
    BY <1>1, <1>2, <2>1, <2>2 DEF ProcessesInv
<1>5. \A q \in Pids : q # Parent => Counts(q)' = Counts(q) /\ Counts(q) \in Int
  BY <1>2 DEF Counts, Alive, RunInv, Process
<1>6. Counts(Parent) = 1 + proc[Parent].threads /\ proc[Parent].threads \in Nat
  BY <1>1 DEF Counts, Alive, ProcessesInv, RunInv, Process
<1>7. Counts(Parent)' = 1 + r.threads /\ r.threads \in Nat
  BY <1>1, <1>2 DEF Counts, Alive, Process
<1>8. CASE r.threads <= proc[Parent].threads
  <2>1. \A q \in Pids : Counts(q)' <= Counts(q) + IF q = Parent THEN 0 ELSE 0
    BY <1>5, <1>6, <1>7, <1>8
  <2> QED
    BY <1>1, <1>2, <1>3, <1>4, <2>1, TasksRise
<1>9. CASE r.threads = proc[Parent].threads + 1 /\ HasRoom
  <2>1. \A q \in Pids : Counts(q)' <= Counts(q) + IF q = Parent THEN 1 ELSE 0
    BY <1>5, <1>6, <1>7, <1>9
  <2> QED
    BY <1>1, <1>2, <1>3, <1>4, <1>9, <2>1, TasksRise
<1> QED
  BY <1>8, <1>9

\* The steps of one child.
LEMMA ChildChanges ==
  ASSUME ForksInv, UNCHANGED <<program, limit, tty, forks, exitStatus>>,
         NEW pid \in 1 .. forks, NEW r \in Process, proc' = [proc EXCEPT ![pid] = r],
         out' \in Seq(Line), ChildTo(pid, r)
  PROVE  ForksInv'
<1> USE DEF ChildTo
<1>1. /\ MaxForks \in Nat /\ Pids = 0 .. MaxForks /\ Parent = 0 /\ Parent \in Pids
      /\ Children' = Children /\ PerChild' = PerChild /\ forks \in 0 .. MaxForks
      /\ pid \in Pids /\ pid # Parent /\ pid \in 1 .. MaxForks
  <2>1. Children' = Children /\ PerChild' = PerChild
    BY Zenon DEF Children, PerChild
  <2>2. program \in Forking /\ forks \in 0 .. Children
    BY DEF ForksInv, RunInv
  <2>3. /\ MaxForks \in Nat /\ Pids = 0 .. MaxForks /\ Parent = 0
        /\ Children \in Nat /\ Children <= MaxForks
    BY <2>2, ForkNumbers
  <2> QED
    BY <2>1, <2>2, <2>3
<1>2. /\ proc' \in [Pids -> Process] /\ proc'[pid] = r
      /\ \A q \in Pids : q # pid => proc'[q] = proc[q]
  BY <1>1, OneProcess DEF ForksInv
<1>3. RunInv'
  BY <1>1, <1>2 DEF ForksInv, RunInv
<1>4. proc'[Parent] = proc[Parent]
  BY <1>1, <1>2
<1>5. ProcessesInv'
  <2>1. \A q \in 1 .. MaxForks :
          /\ proc'[q].tried <= PerChild /\ proc'[q].threads <= proc'[q].tried
          /\ q > forks => proc'[q].pc = "none"
          /\ q <= forks => proc'[q].pc \in {"create", "child", "exit", "zombie", "gone"}
          /\ program # "fork" /\ proc'[q].pc = "gone" => proc[Parent].pc = "gone"
    <3> TAKE q \in 1 .. MaxForks
    <3>1. CASE q = pid
      BY <1>1, <1>2, <3>1
    <3>2. CASE q # pid
      <4>1. proc'[q] = proc[q]
        BY <1>1, <1>2, <3>2
      <4> QED
        BY <4>1 DEF ForksInv, ProcessesInv
    <3> QED
      BY <3>1, <3>2
  <2> QED
    BY <1>1, <1>4, <2>1 DEF ForksInv, ProcessesInv
<1>6. ForkingInv'
  BY <1>1, <1>4 DEF ForksInv, ForkingInv
<1>7. \A q \in Pids : q # pid => Counts(q)' = Counts(q) /\ Counts(q) \in Int
  BY <1>2 DEF Counts, Alive, ForksInv, RunInv, Process
<1>8. Counts(pid) = 1 + proc[pid].threads /\ proc[pid].threads \in Nat
  BY <1>1 DEF Counts, ForksInv, RunInv, Process
<1>9. Counts(pid)' <= 1 + r.threads /\ Counts(pid)' \in Int /\ r.threads \in Nat
  BY <1>2 DEF Counts, Process
<1>10. CASE r.threads <= proc[pid].threads
  <2>1. \A q \in Pids : Counts(q)' <= Counts(q) + IF q = pid THEN 0 ELSE 0
    BY <1>7, <1>8, <1>9, <1>10
  <2> QED
    BY <1>1, <1>3, <1>5, <1>6, <2>1, TasksRise DEF ForksInv
<1>11. CASE r.threads = proc[pid].threads + 1 /\ HasRoom
  <2>1. \A q \in Pids : Counts(q)' <= Counts(q) + IF q = pid THEN 1 ELSE 0
    BY <1>7, <1>8, <1>9, <1>11
  <2> QED
    BY <1>1, <1>3, <1>5, <1>6, <1>11, <2>1, TasksRise DEF ForksInv
<1> QED
  BY <1>10, <1>11

\* What is known before every step.
LEMMA ForksKnown ==
  ASSUME ForksInv
  PROVE  /\ program \in {"allocStacksTest1", "allocStacksTest", "fork"} /\ program \in Forking
         /\ limit \in Nat /\ forks \in Nat /\ forks <= Children
         /\ Children \in Nat /\ PerChild \in Nat /\ MaxForks \in Nat /\ Children <= MaxForks
         /\ Pids = 0 .. MaxForks /\ Parent = 0 /\ Parent \in Pids
         /\ \A pid \in Pids : proc[pid] \in Process
         /\ proc[Parent].tried \in Nat /\ proc[Parent].threads \in Nat
<1>1. program \in Forking /\ forks \in 0 .. Children /\ limit \in Limits /\ proc \in [Pids -> Process]
  BY DEF ForksInv, RunInv
<1>2. /\ Children \in Nat /\ PerChild \in Nat /\ MaxForks \in Nat /\ Children <= MaxForks
      /\ Pids = 0 .. MaxForks /\ Parent = 0
  BY <1>1, ForkNumbers
<1>3. program \in {"allocStacksTest1", "allocStacksTest", "fork"} /\ limit \in Nat
  BY <1>1, ForksAssumption
<1>4. Parent \in Pids /\ forks \in Nat /\ forks <= Children
  BY <1>1, <1>2
<1>5. \A pid \in Pids : proc[pid] \in Process
  BY <1>1
<1>6. proc[Parent].tried \in Nat /\ proc[Parent].threads \in Nat
  BY <1>4, <1>5 DEF Process
<1> QED
  BY <1>1, <1>2, <1>3, <1>4, <1>5, <1>6, Zenon

LEMMA ForkShape ==
  ASSUME ForksInv, Fork
  PROVE  /\ forks + 1 \in 1 .. MaxForks /\ forks' = forks + 1 /\ forks + 1 <= Children
         /\ proc' \in [Pids -> Process]
         /\ proc'[Parent].pc = (IF program = "fork" THEN "parent" ELSE "fork")
         /\ proc'[forks + 1].pc = (IF program = "fork" THEN "child" ELSE "create")
         /\ \A pid \in {Parent, forks + 1} :
              /\ proc'[pid].tried = proc[Parent].tried /\ proc'[pid].threads = proc[Parent].threads
              /\ proc'[pid].mem = proc[Parent].mem /\ proc'[pid].buf = proc[Parent].buf
         /\ \A pid \in Pids : pid \notin {Parent, forks + 1} => proc'[pid] = proc[pid]
<1>1. /\ MaxForks \in Nat /\ Pids = 0 .. MaxForks /\ Parent = 0 /\ Parent \in Pids /\ forks \in Nat
      /\ forks + 1 <= Children /\ Children \in Nat /\ Children <= MaxForks /\ proc \in [Pids -> Process]
      /\ proc[Parent] \in Process
  BY ForksKnown DEF Fork, ForksInv, RunInv
<1>2. forks + 1 \in Pids /\ forks + 1 # Parent /\ forks + 1 \in 1 .. MaxForks
  BY <1>1
<1>3. PICK point \in Points : point = IF program = "fork" THEN "child" ELSE "create"
  BY DEF Points
<1>4. PICK to \in Points : to = IF program = "fork" THEN "parent" ELSE "fork"
  BY DEF Points
<1>5. PICK r : r = [proc[Parent] EXCEPT !.pc = point]
  OBVIOUS
<1>6. PICK r0 : r0 = [proc[Parent] EXCEPT !.pc = to]
  OBVIOUS
<1>7. proc' = [proc EXCEPT ![forks + 1] = r, ![Parent] = r0]
  <2>1. proc' = [proc EXCEPT ![forks + 1] = r, ![Parent].pc = to]
    BY <1>3, <1>4, <1>5, Zenon DEF Fork, ChildOf
  <2> QED
    BY <1>1, <1>2, <1>6, <2>1
<1>8. /\ r \in Process /\ r.pc = point /\ r.tried = proc[Parent].tried /\ r.threads = proc[Parent].threads
      /\ r.mem = proc[Parent].mem /\ r.buf = proc[Parent].buf
  BY <1>1, <1>5, PcMoved, Zenon
<1>9. /\ r0 \in Process /\ r0.pc = to /\ r0.tried = proc[Parent].tried /\ r0.threads = proc[Parent].threads
      /\ r0.mem = proc[Parent].mem /\ r0.buf = proc[Parent].buf
  BY <1>1, <1>6, PcMoved, Zenon
<1>10. /\ proc' \in [Pids -> Process] /\ proc'[Parent] = r0 /\ proc'[forks + 1] = r
       /\ \A pid \in Pids : pid \notin {Parent, forks + 1} => proc'[pid] = proc[pid]
  BY <1>1, <1>2, <1>7, <1>8, <1>9
<1> QED
  BY <1>1, <1>2, <1>3, <1>4, <1>8, <1>9, <1>10 DEF Fork

\* Where there is room there are fewer forks than tasks allowed.
LEMMA ForkKeeps ==
  ASSUME ForksInv, Fork
  PROVE  ForksInv'
<1>1. /\ program \in Forking /\ limit \in Nat /\ forks \in Nat /\ forks <= Children
      /\ Children \in Nat /\ PerChild \in Nat /\ MaxForks \in Nat /\ Children <= MaxForks
      /\ Pids = 0 .. MaxForks /\ Parent = 0 /\ Parent \in Pids
      /\ proc[Parent].tried \in Nat /\ proc[Parent].threads \in Nat
  BY ForksKnown
<1>2. /\ forks + 1 \in 1 .. MaxForks /\ forks' = forks + 1 /\ forks + 1 <= Children
      /\ proc' \in [Pids -> Process]
      /\ proc'[Parent].pc = (IF program = "fork" THEN "parent" ELSE "fork")
      /\ proc'[forks + 1].pc = (IF program = "fork" THEN "child" ELSE "create")
      /\ \A pid \in {Parent, forks + 1} :
           proc'[pid].tried = proc[Parent].tried /\ proc'[pid].threads = proc[Parent].threads
      /\ \A pid \in Pids : pid \notin {Parent, forks + 1} => proc'[pid] = proc[pid]
  BY ForkShape
<1>3. /\ UNCHANGED <<program, limit, tty, exitStatus, out>> /\ HasRoom
      /\ proc[Parent].pc = "fork" /\ Children' = Children /\ PerChild' = PerChild
  BY Zenon DEF Fork, Children, PerChild
<1>4. proc[Parent].tried = 0 /\ proc[Parent].threads = 0
  BY <1>1, <1>3 DEF ForksInv, ProcessesInv
<1>5. RunInv'
  BY <1>1, <1>2, <1>3 DEF ForksInv, RunInv
<1>6. ProcessesInv'
  <2>1. \A q \in 1 .. MaxForks :
          /\ proc'[q].tried <= PerChild /\ proc'[q].threads <= proc'[q].tried
          /\ q > forks + 1 => proc'[q].pc = "none"
          /\ q <= forks + 1 => proc'[q].pc \in {"create", "child", "exit", "zombie", "gone"}
          /\ program # "fork" => proc'[q].pc # "gone"
    <3> TAKE q \in 1 .. MaxForks
    <3>1. CASE q = forks + 1
      BY <1>1, <1>2, <1>4, <3>1
    <3>2. CASE q # forks + 1
      <4>1. proc'[q] = proc[q] /\ (q > forks + 1 => q > forks) /\ (q <= forks + 1 => q <= forks)
        BY <1>1, <1>2, <3>2
      <4> QED
        BY <1>3, <4>1 DEF ForksInv, ProcessesInv
    <3> QED
      BY <3>1, <3>2
  <2>2. /\ proc'[Parent].pc \in {"fork", "parent"} /\ proc'[Parent].tried = 0 /\ proc'[Parent].threads = 0
        /\ program # "fork" => proc'[Parent].pc = "fork"
    BY <1>2, <1>4
  <2> QED
    BY <1>2, <1>3, <2>1, <2>2 DEF ProcessesInv
<1>7. ForkingInv'
  <2> SUFFICES ASSUME program # "fork"
               PROVE  ForkingInv'
    BY <1>3 DEF ForkingInv
  <2>1. proc'[Parent].pc = "fork" /\ exitStatus' = -1
    BY <1>2, <1>3 DEF ForksInv, ForkingInv
  <2>2. Alive(Parent)
    BY <1>3 DEF Alive
  <2>3. forks + 1 < limit
    <3>1. TasksUpTo[MaxForks] >= 1 + forks /\ TasksUpTo[MaxForks] < limit
      BY <1>3, <2>2, TasksAtLeast DEF HasRoom
    <3>2. TasksUpTo[MaxForks] \in Int
      BY <1>1, TasksAreSums DEF ForksInv, Sums
    <3> QED
      BY <1>1, <3>1, <3>2
  <2> QED
    BY <1>2, <1>3, <2>1, <2>3 DEF ForkingInv
<1>8. Bounded'
  <2>1. \A q \in Pids : Counts(q)' <= Counts(q) + IF q = forks + 1 THEN 1 ELSE 0
    <3> TAKE q \in Pids
    <3>1. CASE q = forks + 1
      <4>1. Counts(q)' = 1
        BY <1>1, <1>2, <1>4, <3>1 DEF Counts, Alive
      <4>2. Counts(q) = 0
        BY <1>1, <1>2, <3>1 DEF Counts, Alive, ForksInv, ProcessesInv
      <4> QED
        BY <3>1, <4>1, <4>2
    <3>2. CASE q = Parent
      <4>1. Counts(q)' = 1 /\ Counts(q) = 1
        BY <1>2, <1>3, <1>4, <3>2 DEF Counts, Alive
      <4> QED
        BY <1>1, <1>2, <3>2, <4>1
    <3>3. CASE q \notin {Parent, forks + 1}
      <4>1. proc'[q] = proc[q]
        BY <1>2, <3>3
      <4>2. Counts(q)' = Counts(q) /\ Counts(q) \in Int
        BY <4>1 DEF Counts, Alive, ForksInv, RunInv, Process
      <4> QED
        BY <3>3, <4>2
    <3> QED
      BY <3>1, <3>2, <3>3
  <2>2. forks + 1 \in Pids
    BY <1>1, <1>2
  <2> QED
    BY <1>3, <1>5, <2>1, <2>2, TasksRise DEF ForksInv
<1> QED
  BY <1>5, <1>6, <1>7, <1>8 DEF ForksInv

\* The lines.
LEMMA LinesAre ==
  /\ \A pid \in Nat, k \in Nat, made \in BOOLEAN : ThreadLine(pid, k, made) \in Line
  /\ \A k \in Nat : FailedLine(k) \in Line
  /\ \A pid \in Nat, k \in Nat, mem \in Locals : MemoryLine(pid, k, mem) \in Line
BY DEF Line, ThreadLine, FailedLine, MemoryLine

\* Where there is no room main and its children are all there are.
LEMMA ForkFailsKeeps ==
  ASSUME ForksInv, ForkFails
  PROVE  ForksInv'
<1>1. /\ program \in Forking /\ limit \in Nat /\ forks \in Nat /\ PerChild \in Nat
      /\ Parent = 0 /\ Parent \in Pids /\ proc[Parent] \in Process
      /\ proc[Parent].tried \in Nat /\ proc[Parent].threads \in Nat /\ MaxForks \in Nat
  BY ForksKnown
<1>2. /\ UNCHANGED <<program, limit, tty, forks>> /\ ~HasRoom /\ forks < Children
      /\ proc[Parent].pc = "fork" /\ Children' = Children /\ PerChild' = PerChild
  BY Zenon DEF ForkFails, Children, PerChild
<1>3. /\ proc[Parent].tried = 0 /\ proc[Parent].threads = 0
      /\ proc \in [Pids -> Process] /\ out \in Seq(Line) /\ exitStatus \in {-1, 0, 1}
  BY <1>1, <1>2 DEF ForksInv, ProcessesInv, RunInv
<1>4. CASE program = "fork"
  <2>1. PICK r : r = [proc[Parent] EXCEPT !.pc = "parent"]
    OBVIOUS
  <2>2. /\ r \in Process /\ r.pc = "parent" /\ r.tried = 0 /\ r.threads = 0
    BY <1>1, <1>3, <2>1, PcMoved, "parent" \in Points DEF Points
  <2>3. proc' = [proc EXCEPT ![Parent] = r] /\ UNCHANGED <<exitStatus, out>>
    BY <1>1, <1>3, <1>4, <2>1 DEF ForkFails
  <2>4. RunInv' /\ ProcessesInv' /\ Bounded'
    <3>1. MainTo(r) /\ exitStatus' \in {-1, 0, 1} /\ out' \in Seq(Line)
      BY <1>2, <1>3, <1>4, <2>2, <2>3 DEF MainTo
    <3> QED
      BY <1>2, <2>2, <2>3, <3>1, MainChanges, Zenon DEF ForksInv
  <2> QED
    BY <1>2, <1>4, <2>4 DEF ForksInv, ForkingInv
<1>5. CASE program # "fork"
  <2>1. PICK line \in Line : line = FailedLine(forks)
    BY <1>1, LinesAre
  <2>2. PICK with \in Process :
          /\ with = WithLine(proc[Parent], line) /\ with.tried = 0 /\ with.threads = 0
    BY <1>1, <1>3, LineWritten DEF ForksInv
  <2>3. PICK r : r = [with EXCEPT !.pc = "exit"]
    OBVIOUS
  <2>4. /\ r \in Process /\ r.pc = "exit" /\ r.tried = 0 /\ r.threads = 0
    BY <2>2, <2>3, PcMoved, "exit" \in Points DEF Points
  <2>5. proc' = [proc EXCEPT ![Parent] = r] /\ exitStatus' = 1 /\ out' = Shown(line)
    BY <1>5, <2>1, <2>2, <2>3, Zenon DEF ForkFails
  <2>6. out' \in Seq(Line)
    BY <1>1, <2>1, <2>5, LineWritten DEF ForksInv
  <2>7. RunInv' /\ ProcessesInv' /\ Bounded' /\ proc'[Parent] = r
    <3>1. MainTo(r) /\ exitStatus' \in {-1, 0, 1}
      BY <1>2, <1>3, <1>5, <2>4, <2>5 DEF MainTo
    <3> QED
      BY <1>2, <2>4, <2>5, <2>6, <3>1, MainChanges, Zenon DEF ForksInv
  <2>8. 1 + forks * (1 + PerChild) >= limit
    <3>1. PICK all \in Int : all = forks * (1 + PerChild)
      BY <1>1
    <3>2. TasksUpTo[MaxForks] <= 1 + all
      BY <1>2, <1>5, <3>1, TasksAtMost
    <3>3. TasksUpTo[MaxForks] \in Int /\ ~(TasksUpTo[MaxForks] < limit)
      BY <1>1, <1>2, TasksAreSums DEF ForksInv, Sums, HasRoom
    <3> QED
      BY <1>1, <3>1, <3>2, <3>3
  <2>9. ForkingInv'
    BY <1>1, <1>2, <1>5, <2>4, <2>5, <2>7, <2>8 DEF ForksInv, ForkingInv
  <2> QED
    BY <2>7, <2>9 DEF ForksInv
<1> QED
  BY <1>4, <1>5

LEMMA ForksDoneKeeps ==
  ASSUME ForksInv, ForksDone
  PROVE  ForksInv'
<1>1. /\ program \in Forking /\ Parent = 0 /\ Parent \in Pids /\ proc[Parent] \in Process
      /\ proc[Parent].tried \in Nat /\ proc[Parent].threads \in Nat
  BY ForksKnown
<1>2. /\ UNCHANGED <<program, limit, tty, forks, exitStatus, out>> /\ forks = Children
      /\ proc[Parent].pc = "fork" /\ Children' = Children /\ PerChild' = PerChild
  BY Zenon DEF ForksDone, Children, PerChild
<1>3. /\ proc[Parent].tried = 0 /\ proc[Parent].threads = 0
      /\ proc \in [Pids -> Process] /\ out \in Seq(Line) /\ exitStatus \in {-1, 0, 1}
  BY <1>1, <1>2 DEF ForksInv, ProcessesInv, RunInv
<1>4. PICK to \in Points : to = IF program = "allocStacksTest" THEN "last" ELSE "exit"
  BY DEF Points
<1>5. PICK r : r = [proc[Parent] EXCEPT !.pc = to]
  OBVIOUS
<1>6. /\ r \in Process /\ r.pc = to /\ r.tried = 0 /\ r.threads = 0
  BY <1>1, <1>3, <1>5, PcMoved, Zenon
<1>7. proc' = [proc EXCEPT ![Parent] = r]
  BY <1>1, <1>3, <1>4, <1>5 DEF ForksDone
<1>8. RunInv' /\ ProcessesInv' /\ Bounded' /\ proc'[Parent] = r
  <2>1. r.pc \in {"last", "exit"}
    BY <1>4, <1>6
  <2>2. MainTo(r) /\ exitStatus' \in {-1, 0, 1} /\ out' \in Seq(Line)
    BY <1>2, <1>3, <1>6, <2>1 DEF MainTo
  <2> QED
    BY <1>2, <1>6, <1>7, <2>2, MainChanges, Zenon DEF ForksInv
<1>9. ForkingInv'
  BY <1>2, <1>4, <1>6, <1>8 DEF ForksInv, ForkingInv
<1> QED
  BY <1>8, <1>9 DEF ForksInv

LEMMA LastThreadKeeps ==
  ASSUME ForksInv, LastThread
  PROVE  ForksInv'
<1>1. /\ program \in Forking /\ Parent = 0 /\ Parent \in Pids /\ proc[Parent] \in Process
      /\ proc[Parent].tried \in Nat /\ proc[Parent].threads \in Nat
  BY ForksKnown
<1>2. /\ UNCHANGED <<program, limit, tty, forks, exitStatus>>
      /\ proc[Parent].pc = "last" /\ Children' = Children /\ PerChild' = PerChild
  BY Zenon DEF LastThread, Children, PerChild
<1>3. /\ proc[Parent].tried = 0 /\ proc[Parent].threads = 0
      /\ proc \in [Pids -> Process] /\ exitStatus \in {-1, 0, 1}
  BY <1>1, <1>2 DEF ForksInv, ProcessesInv, RunInv
<1>4. PICK line \in Line : line = ThreadLine(Parent, 0, HasRoom)
  <2>1. HasRoom \in BOOLEAN /\ Parent \in Nat /\ 0 \in Nat
    BY <1>1 DEF HasRoom
  <2> QED
    BY <2>1, LinesAre, Zenon
<1>5. PICK made \in Process :
        /\ made = WithThread(proc[Parent]) /\ made.tried = 1
        /\ made.threads = IF HasRoom THEN 1 ELSE 0
  <2>1. WithThread(proc[Parent]) \in Process /\ WithThread(proc[Parent]).tried = 0 + 1
        /\ WithThread(proc[Parent]).threads = IF HasRoom THEN 0 + 1 ELSE 0
    BY <1>1, <1>3, ThreadTried, Zenon
  <2> QED
    BY <2>1
<1>6. PICK with \in Process :
        /\ with = WithLine(made, line) /\ with.tried = 1 /\ with.threads = IF HasRoom THEN 1 ELSE 0
  <2>1. /\ WithLine(made, line) \in Process /\ WithLine(made, line).tried = made.tried
        /\ WithLine(made, line).threads = made.threads
    BY <1>4, <1>5, LineWritten, Zenon DEF ForksInv
  <2> QED
    BY <1>5, <2>1, Zenon
<1>7. PICK r : r = [with EXCEPT !.pc = "exit"]
  OBVIOUS
<1>8. /\ r \in Process /\ r.pc = "exit" /\ r.tried = 1 /\ r.threads = IF HasRoom THEN 1 ELSE 0
  <2>1. "exit" \in Points
    BY DEF Points
  <2> QED
    BY <1>6, <1>7, <2>1, PcMoved, Zenon
<1>9. proc' = [proc EXCEPT ![Parent] = r] /\ out' = Shown(line)
  BY <1>4, <1>5, <1>6, <1>7, Zenon DEF LastThread
<1>10. out' \in Seq(Line)
  BY <1>1, <1>4, <1>9, LineWritten, Zenon DEF ForksInv
<1>11. RunInv' /\ ProcessesInv' /\ Bounded' /\ proc'[Parent] = r
  <2>1. MainTo(r) /\ exitStatus' \in {-1, 0, 1}
    BY <1>2, <1>3, <1>8 DEF MainTo
  <2> QED
    BY <1>2, <1>8, <1>9, <1>10, <2>1, MainChanges, Zenon DEF ForksInv
<1>12. ForkingInv'
  BY <1>2, <1>8, <1>11 DEF ForksInv, ForkingInv
<1> QED
  BY <1>11, <1>12 DEF ForksInv

LEMMA ParentPrintsKeeps ==
  ASSUME ForksInv, ParentPrints
  PROVE  ForksInv'
<1>1. /\ program \in Forking /\ Parent = 0 /\ Parent \in Pids /\ proc[Parent] \in Process
      /\ proc[Parent].tried \in Nat /\ proc[Parent].threads \in Nat
  BY ForksKnown
<1>2. /\ UNCHANGED <<program, limit, tty, forks, exitStatus>>
      /\ proc[Parent].pc \in {"parent", "again"} /\ program = "fork"
  BY DEF ParentPrints, ForksInv, ProcessesInv
<1>3. /\ proc[Parent].tried \in {0, 1} /\ proc[Parent].threads <= proc[Parent].tried
      /\ proc \in [Pids -> Process] /\ exitStatus \in {-1, 0, 1}
  BY <1>1 DEF ForksInv, ProcessesInv, RunInv
<1>4. PICK line \in Line : line = MemoryLine(Parent, IF proc[Parent].pc = "parent" THEN 1 ELSE 2, proc[Parent].mem)
  <2>1. (IF proc[Parent].pc = "parent" THEN 1 ELSE 2) \in Nat /\ proc[Parent].mem \in Locals /\ Parent \in Nat
    BY <1>1 DEF Process
  <2> QED
    BY <2>1, LinesAre
<1>5. PICK with \in Process :
        /\ with = WithLine(proc[Parent], line) /\ with.tried = proc[Parent].tried
        /\ with.threads = proc[Parent].threads
  <2>1. /\ WithLine(proc[Parent], line) \in Process
        /\ WithLine(proc[Parent], line).tried = proc[Parent].tried
        /\ WithLine(proc[Parent], line).threads = proc[Parent].threads
    BY <1>1, <1>4, LineWritten DEF ForksInv
  <2> QED
    BY <2>1, Zenon
<1>6. PICK to \in Points : to = AfterLine(proc[Parent].pc = "parent") /\ to \in {"wait", "exit"}
  BY DEF Points, AfterLine
<1>7. PICK r : r = [with EXCEPT !.pc = to]
  OBVIOUS
<1>8. /\ r \in Process /\ r.pc = to /\ r.tried = proc[Parent].tried /\ r.threads = proc[Parent].threads
  BY <1>5, <1>7, PcMoved, Zenon
<1>9. proc' = [proc EXCEPT ![Parent] = r] /\ out' = Shown(line)
  BY <1>4, <1>5, <1>6, <1>7, Zenon DEF ParentPrints
<1>10. out' \in Seq(Line)
  BY <1>1, <1>4, <1>9, LineWritten, Zenon DEF ForksInv
<1>11. RunInv' /\ ProcessesInv' /\ Bounded'
  <2>1. MainTo(r) /\ exitStatus' \in {-1, 0, 1}
    BY <1>1, <1>2, <1>3, <1>6, <1>8 DEF MainTo
  <2> QED
    BY <1>2, <1>8, <1>9, <1>10, <2>1, MainChanges, Zenon DEF ForksInv
<1> QED
  BY <1>2, <1>11 DEF ForksInv, ForkingInv

\* A child that ended is waited for, and is no task any more.
LEMMA WaitKeeps ==
  ASSUME ForksInv, Wait
  PROVE  ForksInv'
<1>1. /\ program \in Forking /\ Parent = 0 /\ Parent \in Pids /\ proc[Parent] \in Process
      /\ Pids = 0 .. MaxForks /\ MaxForks \in Nat /\ forks \in Nat
      /\ proc[Parent].tried \in Nat /\ proc[Parent].threads \in Nat
  BY ForksKnown
<1>2. /\ UNCHANGED <<program, limit, tty, forks, exitStatus, out>>
      /\ proc[Parent].pc = "wait" /\ Children' = Children /\ PerChild' = PerChild
  BY Zenon DEF Wait, Children, PerChild
<1>3. program = "fork" /\ proc \in [Pids -> Process]
  BY <1>2 DEF ForksInv, ProcessesInv, RunInv
<1>4. PICK pid \in Pids :
        proc[pid].pc = "zombie" /\ proc' = [proc EXCEPT ![pid].pc = "gone", ![Parent].pc = "again"]
  BY Zenon DEF Wait, Waitable
<1>5. pid # Parent /\ pid \in 1 .. MaxForks
  <2>1. pid # Parent
    BY <1>2, <1>4
  <2> QED
    BY <1>1, <2>1
<1>6. PICK r : r = [proc[pid] EXCEPT !.pc = "gone"]
  OBVIOUS
<1>7. PICK r0 : r0 = [proc[Parent] EXCEPT !.pc = "again"]
  OBVIOUS
<1>8. "gone" \in Points /\ "again" \in Points /\ proc[pid] \in Process
  BY <1>3 DEF Points
<1>9. /\ r \in Process /\ r.pc = "gone" /\ r.tried = proc[pid].tried /\ r.threads = proc[pid].threads
  BY <1>6, <1>8, PcMoved, Zenon
<1>10. r0 \in Process /\ r0.pc = "again" /\ r0.tried = proc[Parent].tried
       /\ r0.threads = proc[Parent].threads
  BY <1>1, <1>7, <1>8, PcMoved, Zenon
<1>11. /\ proc' \in [Pids -> Process] /\ proc'[pid] = r /\ proc'[Parent] = r0
       /\ \A q \in Pids : q \notin {pid, Parent} => proc'[q] = proc[q]
  BY <1>1, <1>3, <1>4, <1>5, <1>6, <1>7, <1>9, <1>10
<1>12. RunInv'
  BY <1>2, <1>11 DEF ForksInv, RunInv
<1>13. ProcessesInv'
  <2>1. \A q \in 1 .. MaxForks :
          /\ proc'[q].tried <= PerChild /\ proc'[q].threads <= proc'[q].tried
          /\ q > forks => proc'[q].pc = "none"
          /\ q <= forks => proc'[q].pc \in {"create", "child", "exit", "zombie", "gone"}
    <3> TAKE q \in 1 .. MaxForks
    <3>1. CASE q = pid
      BY <1>4, <1>5, <1>9, <1>11, <3>1 DEF ForksInv, ProcessesInv
    <3>2. CASE q # pid
      <4>1. proc'[q] = proc[q]
        BY <1>1, <1>11, <3>2
      <4> QED
        BY <4>1 DEF ForksInv, ProcessesInv
    <3> QED
      BY <3>1, <3>2
  <2> QED
    BY <1>2, <1>3, <1>10, <1>11, <2>1 DEF ForksInv, ProcessesInv
<1>14. Bounded'
  <2>1. \A q \in Pids : Counts(q)' <= Counts(q) + IF q = pid THEN 0 ELSE 0
    <3> TAKE q \in Pids
    <3>1. CASE q = pid
      <4>1. Counts(q) = 1
        BY <1>4, <3>1 DEF Counts, Alive
      <4>2. Counts(q)' = 0
        BY <1>9, <1>11, <3>1 DEF Counts, Alive
      <4> QED
        BY <3>1, <4>1, <4>2
    <3>2. CASE q = Parent
      BY <1>1, <1>2, <1>10, <1>11, <3>2 DEF Counts, Alive
    <3>3. CASE q \notin {pid, Parent}
      <4>1. proc'[q] = proc[q]
        BY <1>11, <3>3
      <4> QED
        BY <1>3, <4>1 DEF Counts, Alive, Process
    <3> QED
      BY <3>1, <3>2, <3>3
  <2> QED
    BY <1>2, <1>12, <2>1, TasksRise DEF ForksInv
<1> QED
  BY <1>2, <1>3, <1>12, <1>13, <1>14 DEF ForksInv, ForkingInv

\* main ends, and those that ended leave the table.
LEMMA MainExitKeeps ==
  ASSUME ForksInv, MainExit
  PROVE  ForksInv'
<1>1. /\ program \in Forking /\ Parent = 0 /\ Parent \in Pids /\ proc[Parent] \in Process
      /\ Pids = 0 .. MaxForks /\ MaxForks \in Nat /\ forks \in Nat /\ limit \in Nat
  BY ForksKnown
<1>2. /\ UNCHANGED <<program, limit, tty, forks>> /\ exitStatus' = (IF exitStatus = -1 THEN 0 ELSE exitStatus)
      /\ proc[Parent].pc = "exit" /\ Children' = Children /\ PerChild' = PerChild
      /\ out' = out \o LeftToWrite(proc[Parent])
  BY Zenon DEF MainExit, Children, PerChild
<1>3. proc \in [Pids -> Process] /\ out \in Seq(Line) /\ exitStatus \in {-1, 0, 1}
  BY DEF ForksInv, RunInv
<1>4. "gone" \in Points
  BY DEF Points
<1>5. PICK r0 \in Process : /\ r0 = [Ended(proc[Parent]) EXCEPT !.pc = "gone"]
                            /\ r0.pc = "gone" /\ r0.tried = proc[Parent].tried /\ r0.threads = 0
  <2>1. PICK ended \in Process :
          /\ ended = Ended(proc[Parent]) /\ ended.tried = proc[Parent].tried /\ ended.threads = 0
    BY <1>1, EndOf
  <2>2. /\ [ended EXCEPT !.pc = "gone"] \in Process /\ [ended EXCEPT !.pc = "gone"].pc = "gone"
        /\ [ended EXCEPT !.pc = "gone"].tried = ended.tried
        /\ [ended EXCEPT !.pc = "gone"].threads = ended.threads
    BY <1>4, <2>1, PcMoved, Zenon
  <2> QED
    BY <2>1, <2>2, Zenon
<1>6. \A q \in Pids : [proc[q] EXCEPT !.pc = "gone"] \in Process
  BY <1>3, <1>4, PcMoved
<1>7. proc' = [q \in Pids |-> IF q = Parent THEN r0
                              ELSE IF proc[q].pc = "zombie" THEN [proc[q] EXCEPT !.pc = "gone"] ELSE proc[q]]
  BY <1>5 DEF MainExit
<1>8. /\ proc' \in [Pids -> Process] /\ proc'[Parent] = r0
      /\ \A q \in Pids : q # Parent =>
           proc'[q] = IF proc[q].pc = "zombie" THEN [proc[q] EXCEPT !.pc = "gone"] ELSE proc[q]
  BY <1>1, <1>3, <1>6, <1>7
<1>9. RunInv'
  <2>1. out' \in Seq(Line)
    BY <1>1, <1>2, <1>3 DEF LeftToWrite, Process
  <2>2. exitStatus' \in {-1, 0, 1}
    BY <1>2, <1>3
  <2> QED
    BY <1>2, <1>8, <2>1, <2>2 DEF ForksInv, RunInv
<1>10. \A q \in 1 .. MaxForks :
         /\ proc'[q].tried = proc[q].tried /\ proc'[q].threads = proc[q].threads
         /\ proc'[q].pc = IF proc[q].pc = "zombie" THEN "gone" ELSE proc[q].pc
  <2> TAKE q \in 1 .. MaxForks
  <2>1. q \in Pids /\ q # Parent /\ proc[q] \in Process
    BY <1>1, <1>3
  <2>2. CASE proc[q].pc = "zombie"
    <3>1. proc'[q] = [proc[q] EXCEPT !.pc = "gone"]
      BY <1>8, <2>1, <2>2
    <3>2. /\ [proc[q] EXCEPT !.pc = "gone"].pc = "gone"
          /\ [proc[q] EXCEPT !.pc = "gone"].tried = proc[q].tried
          /\ [proc[q] EXCEPT !.pc = "gone"].threads = proc[q].threads
      BY <1>4, <2>1, PcMoved, Zenon
    <3> QED
      BY <2>2, <3>1, <3>2, Zenon
  <2>3. CASE proc[q].pc # "zombie"
    BY <1>8, <2>1, <2>3
  <2> QED
    BY <2>2, <2>3
<1>11. ProcessesInv'
  <2>1. \A q \in 1 .. MaxForks :
          /\ proc'[q].tried <= PerChild /\ proc'[q].threads <= proc'[q].tried
          /\ q > forks => proc'[q].pc = "none"
          /\ q <= forks => proc'[q].pc \in {"create", "child", "exit", "zombie", "gone"}
    <3> TAKE q \in 1 .. MaxForks
    <3>1. /\ proc[q].tried <= PerChild /\ proc[q].threads <= proc[q].tried
          /\ q > forks => proc[q].pc = "none"
          /\ q <= forks => proc[q].pc \in {"create", "child", "exit", "zombie", "gone"}
      BY DEF ForksInv, ProcessesInv
    <3> QED
      BY <1>10, <3>1
  <2>2. proc[Parent].tried \in {0, 1} /\ 0 <= proc[Parent].tried
    BY DEF ForksInv, ProcessesInv
  <2> QED
    BY <1>2, <1>5, <1>8, <2>1, <2>2 DEF ProcessesInv
<1>12. ForkingInv'
  <2> SUFFICES ASSUME program # "fork"
               PROVE  ForkingInv'
    BY <1>2 DEF ForkingInv
  <2>1. /\ exitStatus = -1 => forks = Children
        /\ exitStatus = 0 => forks = Children
        /\ exitStatus = 1 => forks < Children /\ 1 + forks * (1 + PerChild) >= limit
        /\ forks < limit
    BY <1>2 DEF ForksInv, ForkingInv
  <2>2. proc'[Parent].pc = "gone" /\ exitStatus' # -1
    BY <1>2, <1>5, <1>8
  <2>3. exitStatus' = 0 => forks = Children
    BY <1>2, <2>1
  <2>4. exitStatus' = 1 => exitStatus = 1
    BY <1>2
  <2> QED
    BY <1>2, <2>1, <2>2, <2>3, <2>4 DEF ForkingInv
<1>13. Bounded'
  <2>1. \A q \in Pids : Counts(q)' <= Counts(q) + IF q = Parent THEN 0 ELSE 0
    <3> TAKE q \in Pids
    <3>1. CASE q = Parent
      BY <1>1, <1>2, <1>5, <1>8, <3>1 DEF Counts, Alive, Process
    <3>2. CASE q # Parent
      <4>1. q \in 1 .. MaxForks /\ proc[q].threads \in Nat
        BY <1>1, <1>3, <3>2 DEF Process
      <4>2. /\ proc'[q].threads = proc[q].threads
            /\ proc'[q].pc = IF proc[q].pc = "zombie" THEN "gone" ELSE proc[q].pc
        BY <1>10, <4>1
      <4> QED
        BY <4>1, <4>2 DEF Counts, Alive
    <3> QED
      BY <3>1, <3>2
  <2> QED
    BY <1>1, <1>2, <1>9, <2>1, TasksRise DEF ForksInv
<1> QED
  BY <1>9, <1>11, <1>12, <1>13 DEF ForksInv

\* What is at a point of the children is a child.
LEMMA IsChild ==
  ASSUME ForksInv, NEW pid \in Pids, pid # Parent \/ proc[pid].pc \in {"create", "child"}, proc[pid].pc # "none"
  PROVE  /\ pid \in 1 .. forks /\ pid \in 1 .. MaxForks /\ proc[pid] \in Process
         /\ proc[pid].tried <= PerChild /\ proc[pid].threads <= proc[pid].tried
<1>1. Parent = 0 /\ Pids = 0 .. MaxForks /\ MaxForks \in Nat /\ forks \in Nat /\ proc[pid] \in Process
  BY ForksKnown
<1>2. pid # Parent
  BY DEF ForksInv, ProcessesInv
<1>3. pid \in 1 .. MaxForks
  BY <1>1, <1>2
<1>4. /\ proc[pid].tried <= PerChild /\ proc[pid].threads <= proc[pid].tried
      /\ ~(pid > forks)
  BY <1>3 DEF ForksInv, ProcessesInv
<1> QED
  BY <1>1, <1>3, <1>4

LEMMA CreateThreadKeeps ==
  ASSUME ForksInv, NEW pid \in Pids, CreateThread(pid)
  PROVE  ForksInv'
<1>1. UNCHANGED <<program, limit, tty, forks, exitStatus>> /\ proc[pid].pc = "create"
  BY DEF CreateThread
<1>2. /\ pid \in 1 .. forks /\ pid \in 1 .. MaxForks /\ proc[pid] \in Process
      /\ proc[pid].tried <= PerChild /\ proc[pid].threads <= proc[pid].tried
  BY <1>1, IsChild
<1>3. RunInv /\ proc \in [Pids -> Process] /\ out \in Seq(Line) /\ PerChild \in Nat
  BY ForksKnown DEF ForksInv, RunInv
<1>4. CASE MoreToStart(proc[pid])
  <2>1. PICK line \in Line : line = ThreadLine(pid, proc[pid].tried, HasRoom)
    <3>1. HasRoom \in BOOLEAN /\ pid \in Nat /\ proc[pid].tried \in Nat
      BY <1>2 DEF HasRoom, Process
    <3> QED
      BY <3>1, LinesAre, Zenon
  <2>2. PICK made \in Process :
          /\ made = WithThread(proc[pid]) /\ made.pc = proc[pid].pc /\ made.tried = proc[pid].tried + 1
          /\ made.threads = IF HasRoom THEN proc[pid].threads + 1 ELSE proc[pid].threads
    BY <1>2, ThreadTried
  <2>3. PICK r \in Process :
          /\ r = WithLine(made, line) /\ r.pc = made.pc /\ r.tried = made.tried /\ r.threads = made.threads
    BY <1>3, <2>1, <2>2, LineWritten
  <2>4. proc' = [proc EXCEPT ![pid] = r] /\ out' = Shown(line)
    BY <1>4, <2>1, <2>2, <2>3, Zenon DEF CreateThread
  <2>5. out' \in Seq(Line)
    BY <1>3, <2>1, <2>2, <2>4, LineWritten, Zenon
  <2>6. ChildTo(pid, r)
    <3>1. proc[pid].tried < PerChild /\ proc[pid].tried \in Nat /\ proc[pid].threads \in Nat
      BY <1>2, <1>4 DEF MoreToStart, Process
    <3>2. /\ r.pc = "create" /\ r.tried = proc[pid].tried + 1
          /\ r.threads = IF HasRoom THEN proc[pid].threads + 1 ELSE proc[pid].threads
      BY <1>1, <2>2, <2>3
    <3> QED
      BY <1>1, <1>2, <1>3, <3>1, <3>2 DEF ChildTo, Alive
  <2> QED
    BY <1>1, <1>2, <2>4, <2>5, <2>6, ChildChanges, Zenon
<1>5. CASE ~MoreToStart(proc[pid])
  <2>1. PICK r : r = [proc[pid] EXCEPT !.pc = "exit"]
    OBVIOUS
  <2>2. /\ r \in Process /\ r.pc = "exit" /\ r.tried = proc[pid].tried /\ r.threads = proc[pid].threads
    BY <1>2, <2>1, PcMoved, "exit" \in Points DEF Points
  <2>3. proc' = [proc EXCEPT ![pid] = r] /\ out' = out
    BY <1>3, <1>5, <2>1 DEF CreateThread
  <2>4. ChildTo(pid, r)
    BY <1>1, <1>2, <2>2 DEF ChildTo, Alive, Process
  <2> QED
    BY <1>1, <1>2, <1>3, <2>2, <2>3, <2>4, ChildChanges, Zenon
<1> QED
  BY <1>4, <1>5

LEMMA ChildPrintsKeeps ==
  ASSUME ForksInv, NEW pid \in Pids, ChildPrints(pid)
  PROVE  ForksInv'
<1>1. UNCHANGED <<program, limit, tty, forks, exitStatus>> /\ proc[pid].pc = "child"
  BY DEF ChildPrints
<1>2. /\ pid \in 1 .. forks /\ pid \in 1 .. MaxForks /\ proc[pid] \in Process
      /\ proc[pid].tried <= PerChild /\ proc[pid].threads <= proc[pid].tried
  BY <1>1, IsChild
<1>3. RunInv
  BY DEF ForksInv
<1>4. PICK mem \in Locals : mem = [b |-> proc[pid].mem.b + 1, c |-> proc[pid].mem.c + 2]
  <2>1. proc[pid].mem.b \in Int /\ proc[pid].mem.c \in Int
    BY <1>2 DEF Process, Locals
  <2>2. proc[pid].mem.b + 1 \in Int /\ proc[pid].mem.c + 2 \in Int
    BY <2>1
  <2>3. [b |-> proc[pid].mem.b + 1, c |-> proc[pid].mem.c + 2] \in Locals
    BY <2>2 DEF Locals
  <2> QED
    BY <2>3, Zenon
<1>5. PICK line \in Line : line = MemoryLine(pid, 1, mem)
  BY <1>2, LinesAre
<1>6. PICK changed \in Process :
        /\ changed = [proc[pid] EXCEPT !.mem = mem]
        /\ changed.tried = proc[pid].tried /\ changed.threads = proc[pid].threads
  BY <1>2, MemChanged, Zenon
<1>7. PICK with \in Process :
        /\ with = WithLine(changed, line)
        /\ with.tried = proc[pid].tried /\ with.threads = proc[pid].threads
  <2>1. /\ WithLine(changed, line) \in Process /\ WithLine(changed, line).tried = changed.tried
        /\ WithLine(changed, line).threads = changed.threads
    BY <1>3, <1>5, <1>6, LineWritten, Zenon
  <2> QED
    BY <1>6, <2>1, Zenon
<1>8. PICK r : r = [with EXCEPT !.pc = "exit"]
  OBVIOUS
<1>9. /\ r \in Process /\ r.pc = "exit" /\ r.tried = proc[pid].tried /\ r.threads = proc[pid].threads
  <2>1. "exit" \in Points
    BY DEF Points
  <2> QED
    BY <1>7, <1>8, <2>1, PcMoved, Zenon
<1>10. proc' = [proc EXCEPT ![pid] = r] /\ out' = Shown(line)
  BY <1>4, <1>5, <1>6, <1>7, <1>8, Zenon DEF ChildPrints
<1>11. out' \in Seq(Line)
  BY <1>3, <1>5, <1>6, <1>10, LineWritten, Zenon
<1>12. ChildTo(pid, r)
  BY <1>1, <1>2, <1>9 DEF ChildTo, Alive, Process
<1> QED
  BY <1>1, <1>2, <1>9, <1>10, <1>11, <1>12, ChildChanges, Zenon

LEMMA ChildExitKeeps ==
  ASSUME ForksInv, NEW pid \in Pids, ChildExit(pid)
  PROVE  ForksInv'
<1>1. UNCHANGED <<program, limit, tty, forks, exitStatus>> /\ proc[pid].pc = "exit" /\ pid # Parent
  BY DEF ChildExit
<1>2. /\ pid \in 1 .. forks /\ pid \in 1 .. MaxForks /\ proc[pid] \in Process
      /\ proc[pid].tried <= PerChild /\ proc[pid].threads <= proc[pid].tried
  BY <1>1, IsChild
<1>3. RunInv /\ out \in Seq(Line) /\ Parent \in Pids
  BY ForksKnown DEF ForksInv, RunInv
<1>4. PICK ended \in Process :
        /\ ended = Ended(proc[pid]) /\ ended.pc = "zombie" /\ ended.tried = proc[pid].tried /\ ended.threads = 0
  BY <1>2, EndOf
<1>5. PICK r \in Process :
        /\ r = IF Alive(Parent) THEN ended ELSE [ended EXCEPT !.pc = "gone"]
        /\ r.pc = (IF Alive(Parent) THEN "zombie" ELSE "gone")
        /\ r.tried = proc[pid].tried /\ r.threads = 0
  <2>1. "gone" \in Points
    BY DEF Points
  <2>2. /\ [ended EXCEPT !.pc = "gone"] \in Process /\ [ended EXCEPT !.pc = "gone"].pc = "gone"
        /\ [ended EXCEPT !.pc = "gone"].tried = ended.tried
        /\ [ended EXCEPT !.pc = "gone"].threads = ended.threads
    BY <1>4, <2>1, PcMoved, Zenon
  <2> QED
    BY <1>4, <2>2, Zenon
<1>6. proc' = [proc EXCEPT ![pid] = r] /\ out' = out \o LeftToWrite(proc[pid])
  BY <1>4, <1>5, Zenon DEF ChildExit
<1>7. out' \in Seq(Line)
  BY <1>2, <1>3, <1>6 DEF LeftToWrite, Process
<1>8. ChildTo(pid, r)
  <2>1. ~Alive(Parent) => proc[Parent].pc = "gone"
    BY DEF Alive, ForksInv, ProcessesInv
  <2> QED
    BY <1>1, <1>2, <1>5, <2>1 DEF ChildTo, Alive, Process
<1> QED
  BY <1>1, <1>2, <1>6, <1>7, <1>8, ChildChanges, Zenon

-----------------------------------------------------------------------------
(* What holds of all of them.                                              *)

LEMMA InitForks ==
  ASSUME ForksInit
  PROVE  ForksInv
<1>1. program \in Forking /\ limit \in Limits /\ tty \in BOOLEAN /\ forks = 0 /\ exitStatus = -1 /\ out = <<>>
  BY DEF ForksInit
<1>2. /\ Children \in Nat /\ PerChild \in Nat /\ MaxForks \in Nat /\ Pids = 0 .. MaxForks
      /\ Parent = 0 /\ Parent \in Pids /\ limit \in Nat /\ limit >= 1
  BY <1>1, ForkNumbers, ForksAssumption
<1>3. PICK first : first = [NoProcess EXCEPT !.pc = "fork"]
  OBVIOUS
<1>4. NoProcess \in Process /\ NoProcess.pc = "none" /\ NoProcess.tried = 0 /\ NoProcess.threads = 0
  BY DEF NoProcess, Process, Points, Locals
<1>5. /\ first \in Process /\ first.pc = "fork" /\ first.tried = 0 /\ first.threads = 0
  BY <1>3, <1>4, PcMoved, "fork" \in Points DEF Points
<1>6. proc = [pid \in Pids |-> IF pid = Parent THEN first ELSE NoProcess]
  BY <1>3 DEF ForksInit
<1>7. /\ proc \in [Pids -> Process] /\ proc[Parent] = first
      /\ \A pid \in Pids : pid # Parent => proc[pid] = NoProcess
  BY <1>2, <1>4, <1>5, <1>6
<1>8. RunInv
  BY <1>1, <1>2, <1>7 DEF RunInv
<1>9. ProcessesInv
  <2>1. \A pid \in 1 .. MaxForks : proc[pid] = NoProcess
    BY <1>2, <1>7
  <2> QED
    BY <1>1, <1>2, <1>4, <1>5, <1>7, <2>1 DEF ProcessesInv
<1>10. ForkingInv
  BY <1>1, <1>2, <1>5, <1>7 DEF ForkingInv
<1>11. Bounded
  <2>1. PICK own : own = [pid \in 0 .. MaxForks |-> Counts(pid)]
    OBVIOUS
  <2>2. own \in [0 .. MaxForks -> Int] /\ Sums(own, MaxForks, TasksUpTo)
    BY <1>8, <2>1, TasksAreSums
  <2>3. \A pid \in 0 .. MaxForks : own[pid] = IF pid = 0 THEN 1 ELSE 0
    BY <1>2, <1>4, <1>5, <1>7, <2>1 DEF Counts, Alive
  <2>4. PICK one : one = [pid \in 0 .. MaxForks |-> 1]
    OBVIOUS
  <2>5. one \in [0 .. MaxForks -> Int] /\ \A pid \in 0 .. MaxForks : one[pid] = 1
    BY <2>4
  <2>6. one[0] <= own[0] /\ own[0] <= one[0]
    BY <1>2, <2>3, <2>5
  <2>7. \A pid \in 1 .. MaxForks : one[pid] <= own[pid] + one[pid - 1] /\ own[pid] + one[pid - 1] <= one[pid]
    BY <1>2, <2>3, <2>5
  <2>8. TasksUpTo[MaxForks] <= one[MaxForks]
    BY <1>2, <2>2, <2>5, <2>6, <2>7, SumBetween, Zenon
  <2>9. TasksUpTo[MaxForks] \in Int /\ one[MaxForks] = 1
    BY <1>2, <2>2, <2>5 DEF Sums
  <2> QED
    BY <1>2, <2>8, <2>9 DEF Bounded
<1> QED
  BY <1>8, <1>9, <1>10, <1>11 DEF ForksInv

LEMMA StepForks ==
  ASSUME ForksInv, [ForksNext]_forksVars
  PROVE  ForksInv'
<1>1. CASE UNCHANGED forksVars
  <2>1. /\ UNCHANGED <<program, limit, tty, forks, exitStatus, out, proc>>
        /\ \A pid : Counts(pid)' = Counts(pid)
    BY <1>1, Zenon DEF forksVars, Counts, Alive
  <2>2. RunInv' /\ ProcessesInv' /\ ForkingInv'
    BY <2>1, Zenon DEF ForksInv, RunInv, ProcessesInv, ForkingInv, Children, PerChild
  <2>3. \A pid \in Pids : Counts(pid)' <= Counts(pid) + IF pid = Parent THEN 0 ELSE 0
    <3> TAKE pid \in Pids
    <3>1. Counts(pid) \in Int
      BY DEF ForksInv, RunInv, Process, Counts
    <3> QED
      BY <2>1, <3>1
  <2>4. Parent \in Pids
    BY ForksKnown
  <2> QED
    BY <2>1, <2>2, <2>3, <2>4, TasksRise DEF ForksInv
<1>2. CASE ForksMain
  BY <1>2, ForkKeeps, ForkFailsKeeps, ForksDoneKeeps, LastThreadKeeps, ParentPrintsKeeps,
     WaitKeeps, MainExitKeeps DEF ForksMain
<1>3. ASSUME NEW pid \in Pids, ForksChild(pid)
      PROVE  ForksInv'
  BY <1>3, CreateThreadKeeps, ChildPrintsKeeps, ChildExitKeeps DEF ForksChild
<1> QED
  BY <1>1, <1>2, <1>3 DEF ForksNext

LEMMA ForksInvariance == ForksSafety => []ForksInv
BY InitForks, StepForks, PTL DEF ForksSafety

\* For every number of children and of threads, and every limit: main and its
\* children and their threads are never more tasks than the kernel allows, and no
\* child starts more threads than its loop has rounds (pthread/main.c:15-94).
THEOREM ForksTyped == ForksSafety => []ForksTypeOK
<1>1. ForksInv => ForksTypeOK
  <2> SUFFICES ASSUME ForksInv
               PROVE  ForksTypeOK
    OBVIOUS
  <2>1. \A pid \in Pids :
          /\ proc[pid].pc \in Points /\ proc[pid].mem \in Locals
          /\ proc[pid].threads <= proc[pid].tried
          /\ proc[pid].tried <= IF pid = Parent THEN 1 ELSE PerChild
    <3> TAKE pid \in Pids
    <3>1. proc[pid].pc \in Points /\ proc[pid].mem \in Locals
      BY DEF ForksInv, RunInv, Process
    <3>2. CASE pid = Parent
      BY <3>1, <3>2 DEF ForksInv, ProcessesInv
    <3>3. CASE pid # Parent
      <4>1. pid \in 1 .. MaxForks
        BY <3>3, ForksKnown
      <4> QED
        BY <3>1, <3>3, <4>1 DEF ForksInv, ProcessesInv
    <3> QED
      BY <3>2, <3>3
  <2> QED
    BY <2>1 DEF ForksTypeOK, ForksInv, RunInv, Bounded
<1> QED
  BY <1>1, ForksInvariance, PTL

\* For every number of children and of threads, and every limit: main comes through
\* its forks only where they are fewer than the tasks that the kernel allows, and a
\* fork fails only where all that can be there are there (pthread/main.c:79-94).
THEOREM EndedChildrenStay == ForksSafety => []EndedChildrenCount
<1>1. ForksInv => EndedChildrenCount
  BY DEF ForksInv, ForkingInv, EndedChildrenCount
<1> QED
  BY <1>1, ForksInvariance, PTL

-----------------------------------------------------------------------------
(* Forks: what is written.  A line is printed once, and is then in stdout   *)
(* or in the buffer of the process that printed it.                        *)

MemStart   == [b |-> 10, c |-> 0]
MemEnd     == [b |-> 11, c |-> 2]
ChildLine == MemoryLine(1, 1, MemEnd)

\* How many lines of fork.c pid has printed, and how many of a fork that failed.
MemoryLines(pid) ==
  IF program # "fork" THEN 0
  ELSE IF pid = Parent
    THEN IF proc[pid].pc \in {"fork", "parent"} THEN 0
         ELSE IF proc[pid].pc \in {"wait", "again"} THEN 1 ELSE 1 + forks
    ELSE IF proc[pid].pc \in {"exit", "zombie", "gone"} THEN 1 ELSE 0

FailedLines(pid) == IF pid = Parent /\ exitStatus = 1 THEN 1 ELSE 0

LineCount(pid) == proc[pid].tried + MemoryLines(pid) + FailedLines(pid)

\* A line that pid has printed.
Printed(pid, line) ==
  /\ line[1] = "thread" => line[2] = pid /\ line[3] < proc[pid].tried
  /\ line[1] = "memory" => /\ line[2] = pid /\ line[3] \in 1 .. MemoryLines(pid)
                           /\ line[4] = IF pid = Parent THEN MemStart ELSE MemEnd
  /\ line[1] = "failed" => pid = Parent /\ exitStatus = 1

WasPrinted(pid) == {line \in Line : Printed(pid, line)}

\* Of the lines that main prints in fork.c, the one after the wait.
AfterWait(line) == line[1] = "memory" /\ line[2] = Parent /\ line[3] = 2

Seen == \E j \in DOMAIN out : out[j] = ChildLine

\* How far each has come.
MainPath ==
  /\ proc[Parent].mem = MemStart
  /\ proc[Parent].pc \in {"fork", "gone"} => proc[Parent].buf = <<>>
  /\ proc[Parent].pc = "fork" => exitStatus = -1
  /\ proc[Parent].pc = "last" => program = "allocStacksTest"
  /\ program = "fork" =>
       /\ exitStatus # 1 /\ proc[Parent].tried = 0
       /\ proc[Parent].pc = "fork" => forks = 0
       /\ proc[Parent].pc \in {"wait", "again"} => forks = 1
       /\ proc[Parent].pc = "again" => proc[1].pc = "gone"
       /\ proc[Parent].pc \in {"exit", "gone"} /\ forks = 1 => proc[1].pc = "gone"
  /\ program # "fork" =>
       /\ exitStatus = 1 => proc[Parent].tried = 0
       /\ exitStatus # 1 /\ proc[Parent].pc \in {"exit", "gone"} =>
            proc[Parent].tried = IF program = "allocStacksTest" THEN 1 ELSE 0

ChildPath(pid) ==
  /\ proc[pid].pc = "child" => proc[pid].mem = MemStart /\ program = "fork"
  /\ proc[pid].pc = "create" => program # "fork"
  /\ proc[pid].pc \in {"exit", "zombie", "gone"} => proc[pid].tried = PerChild
  /\ proc[pid].pc = "none" => proc[pid].tried = 0
  /\ proc[pid].pc \in {"none", "zombie", "gone"} => proc[pid].buf = <<>>

PathInv == MainPath /\ \A pid \in 1 .. MaxForks : ChildPath(pid)

\* The child of fork.c has written its line when it has ended.
ChildSeen ==
  program = "fork" /\ forks = 1 =>
    /\ proc[1].pc \in {"zombie", "gone"} => Seen
    /\ proc[1].pc = "exit" => Seen \/ \E j \in DOMAIN proc[1].buf : proc[1].buf[j] = ChildLine

Unwritten == [pid \in 0 .. MaxForks |-> LineCount(pid) - Len(proc[pid].buf)]

All(t, S)   == \A k \in DOMAIN t : t[k] \in S
Once(t)     == \A j, k \in DOMAIN t : j # k => t[j] # t[k]
Apart(t, v) == \A j \in DOMAIN t, k \in DOMAIN v : t[j] # v[k]
Ordered(t)  == \A k \in DOMAIN t : AfterWait(t[k]) => \E j \in 1 .. k - 1 : t[j] = ChildLine

LinesPrinted == /\ All(out, UNION {WasPrinted(pid) : pid \in Pids})
                /\ \A pid \in Pids : All(proc[pid].buf, WasPrinted(pid))
OnceEach     == /\ Once(out)
                /\ \A pid \in Pids : Once(proc[pid].buf) /\ Apart(out, proc[pid].buf)
AllCounted   == \E sum : Sums(Unwritten, MaxForks, sum) /\ Len(out) = sum[MaxForks]

WrittenInv == LinesPrinted /\ OnceEach /\ AllCounted /\ Ordered(out)

LinesInv == PathInv /\ ChildSeen /\ WrittenInv

\* A sum of which one element changes.
LEMMA SumMoves ==
  ASSUME NEW n \in Nat, NEW own \in [0 .. n -> Int], NEW other \in [0 .. n -> Int],
         NEW sum, Sums(own, n, sum), NEW q \in 0 .. n, NEW d \in Int,
         other[q] = own[q] + d, \A pid \in 0 .. n : pid # q => other[pid] = own[pid]
  PROVE  \E sum2 : Sums(other, n, sum2) /\ sum2[n] = sum[n] + d
<1>1. PICK sum2 : Sums(other, n, sum2)
  <2>1. PICK sum2 : sum2 = [pid \in 0 .. n |-> IF pid = 0 THEN other[pid] ELSE other[pid] + sum2[pid - 1]]
    BY SumsExist
  <2>2. Sums(other, n, sum2)
    BY ONLY <2>1, SumsAre, n \in Nat, other \in [0 .. n -> Int]
  <2> QED
    BY <2>2
<1>2. RisesAt(n, own, other, q, d)
  BY DEF RisesAt
<1>0. PICK e \in Int : e = 0 - d
  OBVIOUS
<1>3. RisesAt(n, other, own, q, e)
  BY <1>0 DEF RisesAt
<1>4. sum2[n] <= sum[n] + d
  BY <1>1, <1>2, SumRises, Zenon
<1>5. sum[n] <= sum2[n] + e
  BY <1>1, <1>3, SumRises, Zenon
<1>6. PICK before \in Int, after \in Int : before = sum[n] /\ after = sum2[n]
  <2>1. sum[n] \in Int /\ sum2[n] \in Int
    BY <1>1 DEF Sums
  <2> QED
    BY <2>1, Zenon
<1>7. sum2[n] = sum[n] + d
  <2>1. after <= before + d /\ before <= after + e
    BY <1>4, <1>5, <1>6, Zenon
  <2>2. after = before + d
    BY ONLY <1>0, <2>1, before \in Int, after \in Int, d \in Int, e \in Int
  <2> QED
    BY <1>6, <2>2, Zenon
<1> QED
  BY <1>1, <1>7

\* What was printed by nobody is new.
LEMMA LinesTyped ==
  ASSUME RunInv
  PROVE  /\ MaxForks \in Nat /\ Pids = 0 .. MaxForks /\ Parent = 0
         /\ \A pid \in Pids : proc[pid] \in Process /\ proc[pid].buf \in Seq(Line)
         /\ \A pid \in Pids : LineCount(pid) \in Int
         /\ Unwritten \in [0 .. MaxForks -> Int]
<1>1. MaxForks \in Nat /\ Pids = 0 .. MaxForks /\ Parent = 0 /\ forks \in Nat
  <2>1. program \in Forking /\ forks \in 0 .. Children
    BY DEF RunInv
  <2> QED
    BY <2>1, ForkNumbers
<1>2. \A pid \in Pids : proc[pid] \in Process /\ proc[pid].buf \in Seq(Line) /\ proc[pid].tried \in Nat
  BY DEF RunInv, Process
<1>3. \A pid \in Pids : LineCount(pid) \in Int
  <2> TAKE pid \in Pids
  <2>1. MemoryLines(pid) \in Int
    BY <1>1 DEF MemoryLines
  <2>2. FailedLines(pid) \in Int
    BY DEF FailedLines
  <2> QED
    BY <1>2, <2>1, <2>2 DEF LineCount
<1>4. \A pid \in 0 .. MaxForks : LineCount(pid) - Len(proc[pid].buf) \in Int
  BY <1>1, <1>2, <1>3
<1> QED
  BY <1>1, <1>2, <1>3, <1>4 DEF Unwritten

LEMMA UnwrittenTyped == RunInv => Unwritten \in [0 .. MaxForks -> Int]
BY LinesTyped

\* One sequence after another.
LEMMA Concatenated ==
  ASSUME NEW t \in Seq(Line), NEW v \in Seq(Line)
  PROVE  /\ t \o v \in Seq(Line)
         /\ Len(t \o v) = Len(t) + Len(v)
         /\ \A k \in DOMAIN t : k \in DOMAIN (t \o v) /\ (t \o v)[k] = t[k]
         /\ \A k \in DOMAIN (t \o v) :
              \/ k \in DOMAIN t /\ (t \o v)[k] = t[k]
              \/ k - Len(t) \in DOMAIN v /\ (t \o v)[k] = v[k - Len(t)] /\ k \notin DOMAIN t
OBVIOUS

LEMMA ConcatenatedAll ==
  ASSUME NEW t \in Seq(Line), NEW v \in Seq(Line), NEW S, All(t, S), All(v, S)
  PROVE  All(t \o v, S)
BY Concatenated DEF All

LEMMA ConcatenatedOnce ==
  ASSUME NEW t \in Seq(Line), NEW v \in Seq(Line), Once(t), Once(v), Apart(t, v)
  PROVE  Once(t \o v)
<1> SUFFICES ASSUME NEW j \in DOMAIN (t \o v), NEW k \in DOMAIN (t \o v), j # k
             PROVE  (t \o v)[j] # (t \o v)[k]
  BY DEF Once
<1>1. \/ j \in DOMAIN t /\ (t \o v)[j] = t[j]
      \/ j - Len(t) \in DOMAIN v /\ (t \o v)[j] = v[j - Len(t)]
  BY Concatenated
<1>2. \/ k \in DOMAIN t /\ (t \o v)[k] = t[k]
      \/ k - Len(t) \in DOMAIN v /\ (t \o v)[k] = v[k - Len(t)]
  BY Concatenated
<1>3. j \in Int /\ k \in Int /\ Len(t) \in Int
  BY Concatenated
<1>4. j - Len(t) # k - Len(t)
  BY <1>3
<1> QED
  BY <1>1, <1>2, <1>4, Zenon DEF Once, Apart

LEMMA ConcatenatedApart ==
  ASSUME NEW t \in Seq(Line), NEW v \in Seq(Line), NEW w, Apart(t, w), Apart(v, w)
  PROVE  Apart(t \o v, w)
<1> SUFFICES ASSUME NEW j \in DOMAIN (t \o v), NEW k \in DOMAIN w
             PROVE  (t \o v)[j] # w[k]
  BY DEF Apart
<1>1. \/ j \in DOMAIN t /\ (t \o v)[j] = t[j]
      \/ j - Len(t) \in DOMAIN v /\ (t \o v)[j] = v[j - Len(t)]
  BY Concatenated
<1> QED
  BY <1>1, Zenon DEF Apart

LEMMA ApartBothWays ==
  ASSUME NEW t, NEW v, Apart(t, v)
  PROVE  Apart(v, t)
BY Zenon DEF Apart

LEMMA ConcatenatedOrdered ==
  ASSUME NEW t \in Seq(Line), NEW v \in Seq(Line), Ordered(t),
         \A k \in DOMAIN v : AfterWait(v[k]) => \E j \in DOMAIN t : t[j] = ChildLine
  PROVE  Ordered(t \o v)
<1> SUFFICES ASSUME NEW k \in DOMAIN (t \o v), AfterWait((t \o v)[k])
             PROVE  \E j \in 1 .. k - 1 : (t \o v)[j] = ChildLine
  BY DEF Ordered
<1>1. DOMAIN t = 1 .. Len(t) /\ Len(t) \in Nat /\ k \in Nat
  BY Concatenated
<1>2. CASE k \in DOMAIN t
  <2>1. (t \o v)[k] = t[k]
    BY <1>2, Concatenated, Zenon
  <2>2. PICK j \in 1 .. k - 1 : t[j] = ChildLine
    BY <1>2, <2>1 DEF Ordered
  <2>3. j \in DOMAIN t
    BY <1>1, <1>2
  <2>4. (t \o v)[j] = ChildLine
    BY <2>2, <2>3, Concatenated
  <2> QED
    BY <2>4
<1>3. CASE k \notin DOMAIN t
  <2>1. k - Len(t) \in DOMAIN v /\ (t \o v)[k] = v[k - Len(t)]
    <3>1. \/ k \in DOMAIN t /\ (t \o v)[k] = t[k]
          \/ k - Len(t) \in DOMAIN v /\ (t \o v)[k] = v[k - Len(t)] /\ k \notin DOMAIN t
      BY Concatenated
    <3> QED
      BY <1>3, <3>1
  <2>2. PICK j \in DOMAIN t : t[j] = ChildLine
    BY <2>1, Zenon
  <2>3. j \in 1 .. k - 1
    <3>1. k - Len(t) >= 1
      BY <2>1
    <3> QED
      BY <1>1, <3>1
  <2>4. (t \o v)[j] = ChildLine
    BY <2>2, Concatenated
  <2> QED
    BY <2>3, <2>4
<1> QED
  BY <1>2, <1>3

\* A step of pid, which writes x to stdout and has y in its buffer after it.
Moves(pid, x, y) == out' = out \o x /\ proc'[pid].buf = y

\* What the step writes is printed by pid and by nobody else, and every line of
\* it is counted.
WritesNew(pid, x, y) ==
  /\ All(x, WasPrinted(pid)') /\ All(y, WasPrinted(pid)')
  /\ Once(x) /\ Once(y) /\ Apart(x, y) /\ Apart(out, x) /\ Apart(out, y)
  /\ \A q \in Pids : q # pid => Apart(x, proc[q].buf)
  /\ \A k \in DOMAIN x : AfterWait(x[k]) => Seen
  /\ LineCount(pid)' - Len(y) = LineCount(pid) - Len(proc[pid].buf) + Len(x)

\* All others have printed what they had, and pid more.
OthersStay(pid) ==
  /\ \A q \in Pids : q # pid => LineCount(q)' = LineCount(q) /\ proc'[q].buf = proc[q].buf
  /\ \A q \in Pids : WasPrinted(q) \subseteq WasPrinted(q)'

LEMMA MovesKeep ==
  ASSUME RunInv, RunInv', WrittenInv,
         NEW pid \in Pids, NEW x \in Seq(Line), NEW y \in Seq(Line),
         Moves(pid, x, y), WritesNew(pid, x, y), OthersStay(pid)
  PROVE  WrittenInv'
<1> USE DEF WritesNew, OthersStay
<1>1. /\ MaxForks \in Nat /\ Pids = 0 .. MaxForks /\ out \in Seq(Line)
      /\ \A q \in Pids : proc[q].buf \in Seq(Line)
      /\ \A q \in Pids : LineCount(q) \in Int
      /\ Unwritten \in [0 .. MaxForks -> Int]
  BY LinesTyped DEF RunInv
<1>2. /\ out' = out \o x /\ proc'[pid].buf = y
      /\ \A q \in Pids : q # pid => proc'[q].buf = proc[q].buf
  BY DEF Moves
<1>3. LinesPrinted'
  <2>1. All(out, UNION {WasPrinted(q)' : q \in Pids}) /\ All(x, UNION {WasPrinted(q)' : q \in Pids})
    BY DEF WrittenInv, LinesPrinted, All
  <2>2. All(out', UNION {WasPrinted(q)' : q \in Pids})
    BY <1>1, <1>2, <2>1, ConcatenatedAll
  <2>3. \A q \in Pids : All(proc'[q].buf, WasPrinted(q)')
    <3> TAKE q \in Pids
    <3>1. CASE q = pid
      BY <1>2, <3>1
    <3>2. CASE q # pid
      BY <1>2, <3>2 DEF WrittenInv, LinesPrinted, All
    <3> QED
      BY <3>1, <3>2
  <2> QED
    BY <2>2, <2>3, Zenon DEF LinesPrinted, All
<1>4. OnceEach'
  <2>1. Once(out')
    BY <1>1, <1>2, ConcatenatedOnce DEF WrittenInv, OnceEach
  <2>2. \A q \in Pids : Once(proc'[q].buf)
    BY <1>2, Zenon DEF WrittenInv, OnceEach
  <2>3. \A q \in Pids : Apart(out', proc'[q].buf)
    <3> TAKE q \in Pids
    <3>1. CASE q = pid
      BY <1>1, <1>2, <3>1, ConcatenatedApart
    <3>2. CASE q # pid
      <4>1. Apart(out, proc[q].buf) /\ Apart(x, proc[q].buf) /\ proc'[q].buf = proc[q].buf
        BY <1>2, <3>2 DEF WrittenInv, OnceEach
      <4> QED
        BY <1>1, <1>2, <4>1, ConcatenatedApart
    <3> QED
      BY <3>1, <3>2
  <2> QED
    BY <2>1, <2>2, <2>3, Zenon DEF OnceEach, Once, Apart
<1>5. AllCounted'
  <2>1. PICK other : other = Unwritten'
    OBVIOUS
  <2>2. PICK sum : Sums(Unwritten, MaxForks, sum) /\ Len(out) = sum[MaxForks]
    BY DEF WrittenInv, AllCounted
  <2>3. other \in [0 .. MaxForks -> Int]
    <3>1. (RunInv => Unwritten \in [0 .. MaxForks -> Int])'
      BY UnwrittenTyped, PTL
    <3> QED
      BY <2>1, <3>1
  <2>4. \A q \in 0 .. MaxForks : other[q] = LineCount(q)' - Len(proc'[q].buf)
    BY <2>1 DEF Unwritten
  <2>5. \A q \in 0 .. MaxForks : Unwritten[q] = LineCount(q) - Len(proc[q].buf)
    BY DEF Unwritten
  <2>6. other[pid] = Unwritten[pid] + Len(x)
    BY <1>1, <1>2, <2>4, <2>5
  <2>7. \A q \in 0 .. MaxForks : q # pid => other[q] = Unwritten[q]
    BY <1>1, <1>2, <2>4, <2>5
  <2>8. pid \in 0 .. MaxForks /\ Len(x) \in Int
    BY <1>1
  <2>9. PICK sum2 : Sums(other, MaxForks, sum2) /\ sum2[MaxForks] = sum[MaxForks] + Len(x)
    BY <1>1, <2>2, <2>3, <2>6, <2>7, <2>8, SumMoves, ZenonT(60)
  <2>10. Len(out') = Len(out) + Len(x)
    BY <1>1, <1>2
  <2> QED
    BY <2>1, <2>2, <2>9, <2>10, Zenon DEF AllCounted
<1>6. Ordered(out')
  <2>1. \A k \in DOMAIN x : AfterWait(x[k]) => \E j \in DOMAIN out : out[j] = ChildLine
    BY DEF Seen
  <2> QED
    BY <1>1, <1>2, <2>1, ConcatenatedOrdered, Zenon DEF WrittenInv
<1> QED
  BY <1>3, <1>4, <1>5, <1>6 DEF WrittenInv, Ordered, AfterWait

LEMMA LineKinds ==
  /\ \A line \in Line : line[1] \in {"thread", "failed", "memory"}
                        /\ (line[1] \in {"thread", "memory"} => line[3] \in Nat)
  /\ \A pid, k, made : /\ ThreadLine(pid, k, made)[1] = "thread" /\ ThreadLine(pid, k, made)[2] = pid
                     /\ ThreadLine(pid, k, made)[3] = k
  /\ \A k : FailedLine(k)[1] = "failed"
  /\ \A pid, k, mem : /\ MemoryLine(pid, k, mem)[1] = "memory" /\ MemoryLine(pid, k, mem)[2] = pid
                    /\ MemoryLine(pid, k, mem)[3] = k /\ MemoryLine(pid, k, mem)[4] = mem
BY DEF Line, ThreadLine, FailedLine, MemoryLine

LEMMA PrintedByOne ==
  ASSUME NEW pid, NEW q, NEW line \in WasPrinted(pid), line \in WasPrinted(q)
  PROVE  pid = q
BY LineKinds DEF WasPrinted, Printed

LEMMA NothingOne ==
  /\ <<>> \in Seq(Line) /\ Len(<<>>) = 0 /\ DOMAIN <<>> = {}
  /\ \A S : All(<<>>, S)
  /\ Once(<<>>)
  /\ \A t : Apart(t, <<>>) /\ Apart(<<>>, t)
  /\ \A line \in Line : /\ <<line>> \in Seq(Line) /\ Len(<<line>>) = 1 /\ Once(<<line>>)
                        /\ DOMAIN <<line>> = {1} /\ <<line>>[1] = line
  /\ \A t \in Seq(Line) : t \o <<>> = t
  /\ \A t \in Seq(Line), line \in Line : Append(t, line) = t \o <<line>>
<1>1. /\ <<>> \in Seq(Line) /\ Len(<<>>) = 0 /\ DOMAIN <<>> = {}
      /\ \A t \in Seq(Line) : t \o <<>> = t
  OBVIOUS
<1>2. /\ \A line \in Line : <<line>> \in Seq(Line) /\ Len(<<line>>) = 1
                            /\ DOMAIN <<line>> = {1} /\ <<line>>[1] = line
      /\ \A t \in Seq(Line), line \in Line : Append(t, line) = t \o <<line>>
  OBVIOUS
<1>3. \A line \in Line : Once(<<line>>)
  BY <1>2 DEF Once
<1> QED
  BY <1>1, <1>2, <1>3 DEF All, Once, Apart

\* A step in which nothing is printed and nothing written.
LEMMA NothingWritten ==
  ASSUME RunInv, RunInv', WrittenInv, UNCHANGED out, NEW pid \in Pids,
         proc'[pid].buf = proc[pid].buf, LineCount(pid)' = LineCount(pid), OthersStay(pid)
  PROVE  WrittenInv'
<1>1. PICK x \in Seq(Line) :
        /\ x = <<>> /\ Len(x) = 0 /\ DOMAIN x = {} /\ \A t \in Seq(Line) : t \o x = t
  BY NothingOne, Zenon
<1>2. PICK y \in Seq(Line) : y = proc[pid].buf /\ Len(y) \in Int
  BY LinesTyped
<1>3. out \in Seq(Line) /\ LineCount(pid) \in Int
  BY LinesTyped DEF RunInv
<1>4. Moves(pid, x, y)
  BY <1>1, <1>2, <1>3 DEF Moves
<1>5. WritesNew(pid, x, y)
  <2>1. /\ All(x, WasPrinted(pid)') /\ Once(x) /\ Apart(x, y) /\ Apart(out, x)
        /\ \A q \in Pids : q # pid => Apart(x, proc[q].buf)
        /\ \A k \in DOMAIN x : AfterWait(x[k]) => Seen
    BY <1>1 DEF All, Once, Apart
  <2>2. All(y, WasPrinted(pid)') /\ Once(y) /\ Apart(out, y)
    BY <1>2 DEF WrittenInv, LinesPrinted, OnceEach, All, OthersStay
  <2>3. LineCount(pid)' - Len(y) = LineCount(pid) - Len(proc[pid].buf) + Len(x)
    BY <1>1, <1>2, <1>3
  <2> QED
    BY <2>1, <2>2, <2>3 DEF WritesNew
<1> QED
  BY <1>4, <1>5, MovesKeep, Zenon

\* A new line of pid.
Prints(pid, line) ==
  /\ \A q \in Pids : line \notin WasPrinted(q)
  /\ line \in WasPrinted(pid)'
  /\ AfterWait(line) => Seen
  /\ out' = Shown(line)
  /\ proc'[pid].buf = IF tty THEN proc[pid].buf ELSE Append(proc[pid].buf, line)
  /\ LineCount(pid)' = LineCount(pid) + 1

LEMMA LineWrittenOnce ==
  ASSUME RunInv, RunInv', WrittenInv, NEW pid \in Pids, NEW line \in Line,
         Prints(pid, line), OthersStay(pid)
  PROVE  WrittenInv'
<1> USE DEF Prints
<1>1. /\ out \in Seq(Line) /\ \A q \in Pids : proc[q].buf \in Seq(Line) /\ LineCount(q) \in Int
      /\ Len(proc[pid].buf) \in Int
  BY LinesTyped DEF RunInv
<1>2. \A q \in Pids : /\ All(proc[q].buf, WasPrinted(q)) /\ Once(proc[q].buf) /\ Apart(out, proc[q].buf)
  BY DEF WrittenInv, LinesPrinted, OnceEach
<1>3. PICK one \in Seq(Line) :
        /\ one = <<line>> /\ Len(one) = 1 /\ Once(one) /\ DOMAIN one = {1} /\ one[1] = line
  BY NothingOne
<1>4. Apart(out, one)
  BY <1>1, <1>3 DEF WrittenInv, LinesPrinted, All, Apart
<1>5. \A q \in Pids : Apart(proc[q].buf, one) /\ Apart(one, proc[q].buf)
  BY <1>2, <1>3 DEF All, Apart
<1>6. All(one, WasPrinted(pid)') /\ All(proc[pid].buf, WasPrinted(pid)')
  BY <1>2, <1>3 DEF All, OthersStay
<1>7. CASE tty
  <2>0. PICK y \in Seq(Line) : y = proc[pid].buf
    BY <1>1
  <2>1. Moves(pid, one, y)
    <3>1. Append(out, line) = out \o one
      BY <1>1, <1>3, NothingOne
    <3> QED
      BY <1>7, <2>0, <3>1 DEF Moves, Shown
  <2>2. \A k \in DOMAIN one : AfterWait(one[k]) => Seen
    BY <1>3
  <2>3. LineCount(pid)' - Len(y) = LineCount(pid) - Len(proc[pid].buf) + Len(one)
    BY <1>1, <1>3, <2>0
  <2>4. WritesNew(pid, one, y)
    BY <1>2, <1>3, <1>4, <1>5, <1>6, <2>0, <2>2, <2>3, Zenon DEF WritesNew
  <2> QED
    BY <2>1, <2>4, MovesKeep, Zenon
<1>8. CASE ~tty
  <2>1. PICK y \in Seq(Line) : y = proc[pid].buf \o one /\ Len(y) = Len(proc[pid].buf) + 1
    <3>1. proc[pid].buf \in Seq(Line)
      BY <1>1
    <3>2. proc[pid].buf \o one \in Seq(Line) /\ Len(proc[pid].buf \o one) = Len(proc[pid].buf) + Len(one)
      BY <3>1, Concatenated, Zenon
    <3> QED
      BY <1>3, <3>2, Zenon
  <2>2. PICK x \in Seq(Line) :
          x = <<>> /\ Len(x) = 0 /\ DOMAIN x = {} /\ \A t \in Seq(Line) : t \o x = t
    BY NothingOne, Zenon
  <2>3. Moves(pid, x, y)
    <3>1. Append(proc[pid].buf, line) = proc[pid].buf \o one
      BY <1>1, <1>3, NothingOne
    <3> QED
      BY <1>1, <1>8, <2>1, <2>2, <3>1 DEF Moves, Shown
  <2>4. All(y, WasPrinted(pid)')
    BY <1>1, <1>6, <2>1, ConcatenatedAll
  <2>5. Once(y)
    BY <1>1, <1>2, <1>3, <1>5, <2>1, ConcatenatedOnce
  <2>6. Apart(out, y)
    <3>1. Apart(proc[pid].buf, out) /\ Apart(one, out)
      BY <1>2, <1>4, ApartBothWays
    <3>2. Apart(y, out)
      BY <1>1, <2>1, <3>1, ConcatenatedApart
    <3> QED
      BY <3>2, ApartBothWays
  <2>7. LineCount(pid)' - Len(y) = LineCount(pid) - Len(proc[pid].buf) + Len(x)
    <3>1. PICK length \in Int, b \in Int : length = Len(proc[pid].buf) /\ b = LineCount(pid)
      BY <1>1
    <3>2. LineCount(pid)' = b + 1 /\ Len(y) = length + 1 /\ Len(x) = 0
      BY <2>1, <2>2, <3>1, Zenon
    <3>3. (b + 1) - (length + 1) = b - length + 0
      OBVIOUS
    <3> QED
      BY <3>1, <3>2, <3>3, Zenon
  <2>8. /\ All(x, WasPrinted(pid)') /\ Once(x) /\ Apart(x, y) /\ Apart(out, x)
        /\ \A q \in Pids : q # pid => Apart(x, proc[q].buf)
        /\ \A k \in DOMAIN x : AfterWait(x[k]) => Seen
    BY <2>2 DEF All, Once, Apart
  <2>9. WritesNew(pid, x, y)
    BY <2>4, <2>5, <2>6, <2>7, <2>8, Zenon DEF WritesNew
  <2> QED
    BY <2>3, <2>9, MovesKeep, Zenon
<1> QED
  BY <1>7, <1>8

\* A step in which pid writes its buffer.
LEMMA BufferWritten ==
  ASSUME RunInv, RunInv', WrittenInv, NEW pid \in Pids,
         out' = out \o proc[pid].buf, proc'[pid].buf = <<>>,
         \A k \in DOMAIN proc[pid].buf : AfterWait(proc[pid].buf[k]) => Seen,
         LineCount(pid)' = LineCount(pid), OthersStay(pid)
  PROVE  WrittenInv'
<1>1. /\ out \in Seq(Line) /\ \A q \in Pids : proc[q].buf \in Seq(Line) /\ LineCount(q) \in Int
      /\ Len(proc[pid].buf) \in Int
  BY LinesTyped DEF RunInv
<1>2. \A q \in Pids : /\ All(proc[q].buf, WasPrinted(q)) /\ Once(proc[q].buf) /\ Apart(out, proc[q].buf)
  BY DEF WrittenInv, LinesPrinted, OnceEach
<1>3. PICK x \in Seq(Line) : x = proc[pid].buf
  BY <1>1
<1>4. PICK y \in Seq(Line) : y = <<>> /\ Len(y) = 0 /\ DOMAIN y = {}
  BY NothingOne
<1>5. Moves(pid, x, y)
  BY <1>3, <1>4 DEF Moves
<1>6. All(x, WasPrinted(pid)') /\ Once(x) /\ Apart(out, x)
  BY <1>2, <1>3 DEF All, OthersStay
<1>7. All(y, WasPrinted(pid)') /\ Once(y) /\ Apart(x, y) /\ Apart(out, y)
  BY <1>4 DEF All, Once, Apart
<1>8. \A q \in Pids : q # pid => Apart(x, proc[q].buf)
  <2> SUFFICES ASSUME NEW q \in Pids, q # pid, NEW j \in DOMAIN x, NEW k \in DOMAIN proc[q].buf,
                      x[j] = proc[q].buf[k]
               PROVE  FALSE
    BY DEF Apart
  <2>1. x[j] \in WasPrinted(pid) /\ x[j] \in WasPrinted(q)
    BY <1>2, <1>3 DEF All
  <2> QED
    BY <2>1, PrintedByOne
<1>9. LineCount(pid)' - Len(y) = LineCount(pid) - Len(proc[pid].buf) + Len(x)
  BY <1>1, <1>3, <1>4
<1>10. \A k \in DOMAIN x : AfterWait(x[k]) => Seen
  BY <1>3
<1>11. WritesNew(pid, x, y)
  BY <1>6, <1>7, <1>8, <1>9, <1>10, Zenon DEF WritesNew
<1> QED
  BY <1>5, <1>11, MovesKeep, Zenon

-----------------------------------------------------------------------------
(* What one step changes.                                                  *)

\* What was printed stays printed.
LEMMA PrintedGrows ==
  ASSUME NEW pid, proc[pid].tried \in Nat, proc'[pid].tried \in Nat, proc[pid].tried <= proc'[pid].tried,
         MemoryLines(pid) \in Nat, MemoryLines(pid)' \in Nat, MemoryLines(pid) <= MemoryLines(pid)',
         exitStatus = 1 => exitStatus' = 1
  PROVE  WasPrinted(pid) \subseteq WasPrinted(pid)'
<1> SUFFICES ASSUME NEW line \in Line, Printed(pid, line)
             PROVE  Printed(pid, line)'
  BY DEF WasPrinted
<1>1. line[1] = "thread" => line[2] = pid /\ line[3] < proc'[pid].tried
  BY LineKinds DEF Printed
<1>2. line[1] = "memory" => /\ line[2] = pid /\ line[3] \in 1 .. MemoryLines(pid)'
                            /\ line[4] = IF pid = Parent THEN MemStart ELSE MemEnd
  BY LineKinds DEF Printed
<1> QED
  BY <1>1, <1>2 DEF Printed, Parent, MemStart, MemEnd

LEMMA LinesNumbers ==
  ASSUME RunInv
  PROVE  \A pid \in Pids : /\ proc[pid].tried \in Nat /\ MemoryLines(pid) \in Nat
                         /\ FailedLines(pid) \in Nat
<1> SUFFICES ASSUME NEW pid \in Pids
             PROVE  proc[pid].tried \in Nat /\ MemoryLines(pid) \in Nat /\ FailedLines(pid) \in Nat
  OBVIOUS
<1>1. proc[pid].tried \in Nat /\ forks \in Nat
  <2>1. program \in Forking /\ forks \in 0 .. Children /\ Children \in Nat
    BY ForkNumbers DEF RunInv
  <2> QED
    BY <2>1 DEF RunInv, Process
<1>2. MemoryLines(pid) \in Nat
  BY <1>1 DEF MemoryLines
<1>3. FailedLines(pid) \in Nat
  BY DEF FailedLines
<1> QED
  BY <1>1, <1>2, <1>3

LinesNat == \A pid \in Pids : /\ proc[pid].tried \in Nat /\ MemoryLines(pid) \in Nat
                           /\ FailedLines(pid) \in Nat

LEMMA LinesAreNat == RunInv => LinesNat
BY LinesNumbers DEF LinesNat

\* The steps of one process.
OnlyMoves(pid) == \A q \in Pids : q # pid => proc'[q] = proc[q]

LEMMA OthersAre ==
  ASSUME RunInv, RunInv', UNCHANGED <<program, forks>>, NEW pid \in Pids, OnlyMoves(pid),
         proc[pid].tried <= proc'[pid].tried, MemoryLines(pid) <= MemoryLines(pid)',
         exitStatus' = exitStatus \/ (pid = Parent /\ exitStatus = -1)
  PROVE  OthersStay(pid)
<1>1. \A q \in Pids : q # pid =>
        /\ proc'[q] = proc[q] /\ MemoryLines(q)' = MemoryLines(q) /\ FailedLines(q)' = FailedLines(q)
        /\ LineCount(q)' = LineCount(q)
  <2> TAKE q \in Pids
  <2> HAVE q # pid
  <2>1. proc'[q] = proc[q]
    BY DEF OnlyMoves
  <2>2. MemoryLines(q)' = MemoryLines(q)
    BY <2>1, Zenon DEF MemoryLines, Parent
  <2>3. FailedLines(q)' = FailedLines(q)
    BY Zenon DEF FailedLines, Parent
  <2> QED
    BY <2>1, <2>2, <2>3, Zenon DEF LineCount
<1>2. \A q \in Pids : /\ proc[q].tried \in Nat /\ MemoryLines(q) \in Nat
  BY LinesAreNat DEF LinesNat
<1>3. (RunInv => LinesNat)'
  BY LinesAreNat, PTL
<1>4. Pids' = Pids
  BY DEF Pids, MaxForks
<1>5. \A q \in Pids : WasPrinted(q) \subseteq WasPrinted(q)'
  <2> TAKE q \in Pids
  <2>1. proc'[q].tried \in Nat /\ MemoryLines(q)' \in Nat
    BY <1>3, <1>4 DEF LinesNat
  <2>2. exitStatus = 1 => exitStatus' = 1
    OBVIOUS
  <2>3. proc[q].tried <= proc'[q].tried /\ MemoryLines(q) <= MemoryLines(q)'
    BY <1>1, <1>2
  <2> QED
    BY <1>2, <2>1, <2>2, <2>3, PrintedGrows, Zenon
<1> QED
  BY <1>1, <1>5, Zenon DEF OthersStay

\* A step that moves pid to a point.
LEMMA PcStep ==
  ASSUME RunInv, NEW pid \in Pids, NEW point \in Points, proc' = [proc EXCEPT ![pid].pc = point]
  PROVE  /\ proc'[pid].pc = point /\ proc'[pid].tried = proc[pid].tried
         /\ proc'[pid].mem = proc[pid].mem /\ proc'[pid].buf = proc[pid].buf
         /\ OnlyMoves(pid)
<1>1. proc \in [Pids -> Process] /\ proc[pid] \in Process
  BY DEF RunInv
<1>2. PICK r : r = [proc[pid] EXCEPT !.pc = point]
  OBVIOUS
<1>3. /\ r \in Process /\ r.pc = point /\ r.tried = proc[pid].tried
      /\ r.mem = proc[pid].mem /\ r.buf = proc[pid].buf
  BY <1>1, <1>2, PcMoved, Zenon
<1>4. proc' = [proc EXCEPT ![pid] = r]
  BY <1>1, <1>2
<1> QED
  BY <1>3, <1>4, OneProcess DEF OnlyMoves

\* A step of pid, which has become r, that prints a line and comes to a point.
LineTo(pid, r, line, point) ==
  /\ proc'[pid].pc = point /\ proc'[pid].tried = r.tried /\ proc'[pid].mem = r.mem
  /\ proc'[pid].buf = IF tty THEN r.buf ELSE Append(r.buf, line)

LEMMA LineStep ==
  ASSUME RunInv, NEW pid \in Pids, NEW r \in Process, NEW line \in Line, NEW point \in Points,
         proc' = [proc EXCEPT ![pid] = [WithLine(r, line) EXCEPT !.pc = point]]
  PROVE  LineTo(pid, r, line, point) /\ OnlyMoves(pid)
<1>1. PICK with \in Process :
        /\ with = WithLine(r, line) /\ with.tried = r.tried /\ with.mem = r.mem
        /\ with.buf = IF tty THEN r.buf ELSE Append(r.buf, line)
  BY LineWritten
<1>2. PICK r2 : r2 = [with EXCEPT !.pc = point]
  OBVIOUS
<1>3. /\ r2 \in Process /\ r2.pc = point /\ r2.tried = with.tried
      /\ r2.mem = with.mem /\ r2.buf = with.buf
  BY <1>2, PcMoved, Zenon
<1>4. proc' = [proc EXCEPT ![pid] = r2]
  BY <1>1, <1>2, Zenon
<1> QED
  BY <1>1, <1>3, <1>4, OneProcess DEF OnlyMoves, LineTo

\* What was seen stays in stdout.
LEMMA SeenStays ==
  ASSUME RunInv, NEW x \in Seq(Line), out' = out \o x, Seen
  PROVE  Seen'
<1>1. PICK j \in DOMAIN out : out[j] = ChildLine
  BY DEF Seen
<1>2. out \in Seq(Line)
  BY DEF RunInv
<1>3. j \in DOMAIN (out \o x) /\ (out \o x)[j] = ChildLine
  BY <1>1, <1>2, Concatenated
<1>4. \E k \in DOMAIN out' : out'[k] = ChildLine
  BY <1>3
<1> QED
  BY <1>4 DEF Seen, ChildLine, MemoryLine, MemEnd

LEMMA SeenShown ==
  ASSUME RunInv, NEW line \in Line, out' = Shown(line), Seen
  PROVE  Seen'
<1>1. out \in Seq(Line)
  BY DEF RunInv
<1>2. CASE tty
  <2>1. out' = out \o <<line>> /\ <<line>> \in Seq(Line)
    BY <1>1, <1>2, NothingOne DEF Shown
  <2> QED
    BY <2>1, SeenStays
<1>3. CASE ~tty
  BY <1>3 DEF Shown, Seen, ChildLine, MemoryLine, MemEnd
<1> QED
  BY <1>2, <1>3

\* What changes with main and with nobody else.
LEMMA MainMoves ==
  ASSUME ForksInv, PathInv, ChildSeen, UNCHANGED <<program, forks>>, OnlyMoves(Parent),
         Seen => Seen'
  PROVE  /\ \A pid \in 1 .. MaxForks : ChildPath(pid)'
         /\ ChildSeen' /\ proc'[1] = proc[1]
<1>1. /\ 1 \in Pids /\ 1 # Parent /\ Pids = 0 .. MaxForks /\ MaxForks \in Nat /\ Parent = 0
      /\ PerChild' = PerChild
  <2>1. MaxForks >= 3
    BY ForksAssumption DEF MaxForks
  <2>2. PerChild' = PerChild
    BY Zenon DEF PerChild
  <2> QED
    BY <2>1, <2>2, ForksKnown
<1>2. \A pid \in 1 .. MaxForks : proc'[pid] = proc[pid]
  BY <1>1 DEF OnlyMoves
<1>3. \A pid \in 1 .. MaxForks : ChildPath(pid)'
  BY <1>1, <1>2, Zenon DEF PathInv, ChildPath, MemStart
<1>4. proc'[1] = proc[1]
  BY <1>1 DEF OnlyMoves
<1>5. ChildSeen'
  BY <1>4 DEF ChildSeen, ChildLine, MemoryLine, MemEnd
<1> QED
  BY <1>3, <1>4, <1>5

\* What changes with a child, which was there.
LEMMA ChildMoves ==
  ASSUME ForksInv, PathInv, UNCHANGED <<program, forks, exitStatus>>,
         NEW pid \in 1 .. MaxForks, Alive(pid), OnlyMoves(pid), ChildPath(pid)'
  PROVE  PathInv'
<1>1. /\ Pids = 0 .. MaxForks /\ MaxForks \in Nat /\ Parent = 0 /\ pid # Parent
      /\ PerChild' = PerChild /\ proc'[Parent] = proc[Parent]
  <2>1. PerChild' = PerChild
    BY Zenon DEF PerChild
  <2>2. Pids = 0 .. MaxForks /\ MaxForks \in Nat /\ Parent = 0 /\ pid # Parent /\ Parent \in Pids
    BY ForksKnown
  <2> QED
    BY <2>1, <2>2 DEF OnlyMoves
<1>2. \A q \in 1 .. MaxForks : ChildPath(q)'
  <2> TAKE q \in 1 .. MaxForks
  <2>1. CASE q = pid
    BY <2>1
  <2>2. CASE q # pid
    <3>1. proc'[q] = proc[q]
      BY <1>1, <2>2 DEF OnlyMoves
    <3> QED
      BY <1>1, <3>1, Zenon DEF PathInv, ChildPath, MemStart
  <2> QED
    BY <2>1, <2>2
<1>3. proc[1].pc = "gone" => proc'[1] = proc[1]
  <2>1. 1 \in Pids
    <3>1. MaxForks >= 3
      BY ForksAssumption DEF MaxForks
    <3> QED
      BY <1>1, <3>1
  <2> QED
    BY <2>1 DEF OnlyMoves, Alive
<1>4. MainPath'
  BY <1>1, <1>3 DEF PathInv, MainPath, MemStart, Parent
<1> QED
  BY <1>2, <1>4 DEF PathInv, ChildPath, MemStart, PerChild, MaxForks

\* What is known before every step of main.
LEMMA MainKnown ==
  ASSUME ForksInv, LinesInv
  PROVE  /\ RunInv /\ WrittenInv /\ PathInv /\ ChildSeen /\ MainPath
         /\ Parent \in Pids /\ Parent = 0 /\ proc[Parent] \in Process /\ forks \in Nat
         /\ proc[Parent].tried \in Nat /\ proc \in [Pids -> Process] /\ out \in Seq(Line)
         /\ proc[Parent].buf \in Seq(Line) /\ PerChild \in Nat /\ MaxForks \in Nat
         /\ Pids = 0 .. MaxForks
<1>1. proc \in [Pids -> Process] /\ out \in Seq(Line) /\ RunInv
  BY DEF ForksInv, RunInv
<1>2. proc[Parent] \in Process /\ Parent \in Pids
  BY ForksKnown
<1>3. proc[Parent].buf \in Seq(Line)
  BY <1>2 DEF Process
<1> QED
  BY <1>1, <1>2, <1>3, ForksKnown DEF LinesInv, PathInv

\* A step of main alone.
LEMMA MainEnds ==
  ASSUME ForksInv, LinesInv, UNCHANGED <<program, forks>>, OnlyMoves(Parent),
         MainPath', Seen => Seen', WrittenInv'
  PROVE  LinesInv'
<1>1. (\A pid \in 1 .. MaxForks : ChildPath(pid)') /\ ChildSeen'
  BY MainMoves, Zenon DEF LinesInv
<1>2. PathInv'
  BY <1>1 DEF PathInv, ChildPath, MemStart, PerChild, MaxForks
<1> QED
  BY <1>1, <1>2 DEF LinesInv

LEMMA ForkFailsWrites ==
  ASSUME ForksInv, ForksInv', LinesInv, ForkFails
  PROVE  LinesInv'
<1>1. /\ RunInv /\ WrittenInv /\ MainPath /\ Parent \in Pids /\ proc[Parent] \in Process
      /\ forks \in Nat /\ proc[Parent].tried \in Nat /\ RunInv' /\ proc \in [Pids -> Process]
  BY MainKnown DEF ForksInv
<1>2. /\ UNCHANGED <<program, limit, tty, forks>> /\ proc[Parent].pc = "fork"
      /\ proc[Parent].tried = 0 /\ exitStatus = -1 /\ proc[Parent].mem = MemStart
      /\ (program = "fork" => forks = 0)
  BY <1>1 DEF ForkFails, ForksInv, ProcessesInv, MainPath
<1>3. CASE program = "fork"
  <2>1. proc' = [proc EXCEPT ![Parent].pc = "parent"] /\ UNCHANGED <<exitStatus, out>>
    BY <1>3 DEF ForkFails
  <2>2. /\ proc'[Parent].pc = "parent" /\ proc'[Parent].tried = proc[Parent].tried
        /\ proc'[Parent].mem = proc[Parent].mem /\ proc'[Parent].buf = proc[Parent].buf
        /\ OnlyMoves(Parent)
    BY <1>1, <2>1, PcStep, "parent" \in Points DEF Points
  <2>3. MainPath'
    BY <1>2, <1>3, <2>1, <2>2 DEF MainPath, Parent, MemStart
  <2>4. MemoryLines(Parent) = 0 /\ MemoryLines(Parent)' = 0 /\ FailedLines(Parent)' = FailedLines(Parent)
    BY <1>2, <2>1, <2>2 DEF MemoryLines, FailedLines
  <2>5. LineCount(Parent)' = LineCount(Parent)
    BY <2>2, <2>4, Zenon DEF LineCount
  <2>6. OthersStay(Parent)
    BY <1>1, <1>2, <2>1, <2>2, <2>4, OthersAre
  <2>7. WrittenInv'
    BY <1>1, <2>1, <2>2, <2>5, <2>6, NothingWritten, Zenon
  <2>8. Seen => Seen'
    BY <2>1 DEF Seen, ChildLine, MemoryLine, MemEnd
  <2> QED
    BY <1>2, <2>2, <2>3, <2>7, <2>8, MainEnds, Zenon
<1>4. CASE program # "fork"
  <2>1. PICK line \in Line : line = FailedLine(forks)
    BY <1>1, LinesAre
  <2>2. /\ proc' = [proc EXCEPT ![Parent] = [WithLine(proc[Parent], line) EXCEPT !.pc = "exit"]]
        /\ out' = Shown(line) /\ exitStatus' = 1
    BY <1>1, <1>4, <2>1 DEF ForkFails
  <2>3. /\ proc'[Parent].pc = "exit" /\ proc'[Parent].tried = proc[Parent].tried
        /\ proc'[Parent].mem = proc[Parent].mem
        /\ proc'[Parent].buf = IF tty THEN proc[Parent].buf ELSE Append(proc[Parent].buf, line)
        /\ OnlyMoves(Parent)
    <3>1. "exit" \in Points
      BY DEF Points
    <3>2. LineTo(Parent, proc[Parent], line, "exit") /\ OnlyMoves(Parent)
      BY <1>1, <2>2, <3>1, LineStep, Zenon
    <3> QED
      BY <3>2 DEF LineTo
  <2>4. MainPath'
    BY <1>2, <1>4, <2>2, <2>3 DEF MainPath, Parent, MemStart
  <2>5. MemoryLines(Parent) = 0 /\ MemoryLines(Parent)' = 0 /\ FailedLines(Parent)' = 1 /\ FailedLines(Parent) = 0
    BY <1>2, <1>4, <2>2, <2>3 DEF MemoryLines, FailedLines, Parent
  <2>6. LineCount(Parent)' = LineCount(Parent) + 1
    BY <1>1, <2>3, <2>5 DEF LineCount
  <2>7. OthersStay(Parent)
    BY <1>1, <1>2, <2>2, <2>3, <2>5, OthersAre
  <2>8. line[1] = "failed"
    BY <2>1, LineKinds, Zenon
  <2>9. Prints(Parent, line)
    <3>1. \A q \in Pids : line \notin WasPrinted(q)
      BY <1>2, <2>8 DEF WasPrinted, Printed
    <3>2. line \in WasPrinted(Parent)'
      BY <2>2, <2>8 DEF WasPrinted, Printed, Parent
    <3>3. ~AfterWait(line)
      BY <2>8 DEF AfterWait
    <3> QED
      BY <2>2, <2>3, <2>6, <3>1, <3>2, <3>3, Zenon DEF Prints
  <2>10. WrittenInv'
    BY <1>1, <2>7, <2>9, LineWrittenOnce, Zenon
  <2>11. Seen => Seen'
    BY <1>1, <2>2, SeenShown, Zenon
  <2> QED
    BY <1>2, <2>3, <2>4, <2>10, <2>11, MainEnds, Zenon
<1> QED
  BY <1>3, <1>4

LEMMA ForksDoneWrites ==
  ASSUME ForksInv, ForksInv', LinesInv, ForksDone
  PROVE  LinesInv'
<1>1. /\ RunInv /\ WrittenInv /\ MainPath /\ Parent \in Pids /\ proc[Parent] \in Process
      /\ forks \in Nat /\ proc[Parent].tried \in Nat /\ RunInv' /\ proc \in [Pids -> Process]
  BY MainKnown DEF ForksInv
<1>2. /\ UNCHANGED <<program, limit, tty, forks, exitStatus, out>> /\ proc[Parent].pc = "fork"
      /\ forks = Children
      /\ proc[Parent].tried = 0 /\ exitStatus = -1 /\ proc[Parent].mem = MemStart
      /\ (program = "fork" => forks = 0)
  BY <1>1 DEF ForksDone, ForksInv, ProcessesInv, MainPath
<1>3. program # "fork"
  BY <1>2 DEF Children
<1>4. PICK to \in Points : to = IF program = "allocStacksTest" THEN "last" ELSE "exit"
  BY DEF Points
<1>5. proc' = [proc EXCEPT ![Parent].pc = to]
  BY <1>4, Zenon DEF ForksDone
<1>6. /\ proc'[Parent].pc = to /\ proc'[Parent].tried = proc[Parent].tried
      /\ proc'[Parent].mem = proc[Parent].mem /\ proc'[Parent].buf = proc[Parent].buf
      /\ OnlyMoves(Parent)
  BY <1>1, <1>5, PcStep, Zenon
<1>7. MainPath'
  BY <1>2, <1>3, <1>4, <1>6 DEF MainPath, Parent, MemStart
<1>8. /\ MemoryLines(Parent) = 0 /\ MemoryLines(Parent)' = 0
      /\ FailedLines(Parent)' = FailedLines(Parent)
  BY <1>2, <1>3 DEF MemoryLines, FailedLines
<1>9. LineCount(Parent)' = LineCount(Parent)
  BY <1>6, <1>8, Zenon DEF LineCount
<1>10. OthersStay(Parent)
  BY <1>1, <1>2, <1>6, <1>8, OthersAre
<1>11. WrittenInv'
  BY <1>1, <1>2, <1>6, <1>9, <1>10, NothingWritten, Zenon
<1>12. Seen => Seen'
  BY <1>2 DEF Seen, ChildLine, MemoryLine, MemEnd
<1> QED
  BY <1>2, <1>6, <1>7, <1>11, <1>12, MainEnds, Zenon

LEMMA LastThreadWrites ==
  ASSUME ForksInv, ForksInv', LinesInv, LastThread
  PROVE  LinesInv'
<1>1. /\ RunInv /\ WrittenInv /\ MainPath /\ Parent \in Pids /\ proc[Parent] \in Process
      /\ forks \in Nat /\ proc[Parent].tried \in Nat /\ RunInv' /\ proc \in [Pids -> Process]
      /\ Parent = 0
  BY MainKnown DEF ForksInv
<1>2. /\ UNCHANGED <<program, limit, tty, forks, exitStatus>> /\ proc[Parent].pc = "last"
      /\ program = "allocStacksTest"
      /\ proc[Parent].tried = 0 /\ exitStatus = -1 /\ proc[Parent].mem = MemStart
  BY <1>1 DEF LastThread, ForksInv, ProcessesInv, ForkingInv, MainPath
<1>3. PICK line \in Line : line = ThreadLine(Parent, 0, HasRoom)
  <2>1. HasRoom \in BOOLEAN /\ Parent \in Nat /\ 0 \in Nat
    BY <1>1 DEF HasRoom
  <2> QED
    BY <2>1, LinesAre, Zenon
<1>4. PICK made \in Process :
        /\ made = WithThread(proc[Parent]) /\ made.tried = proc[Parent].tried + 1
        /\ made.mem = proc[Parent].mem /\ made.buf = proc[Parent].buf
  BY <1>1, ThreadTried, Zenon
<1>5. /\ proc' = [proc EXCEPT ![Parent] = [WithLine(made, line) EXCEPT !.pc = "exit"]]
      /\ out' = Shown(line)
  BY <1>1, <1>3, <1>4 DEF LastThread
<1>6. /\ proc'[Parent].pc = "exit" /\ proc'[Parent].tried = 1
      /\ proc'[Parent].mem = proc[Parent].mem
      /\ proc'[Parent].buf = IF tty THEN proc[Parent].buf ELSE Append(proc[Parent].buf, line)
      /\ OnlyMoves(Parent)
  <2>1. "exit" \in Points /\ made.tried = 1
    BY <1>2, <1>4 DEF Points
  <2>2. LineTo(Parent, made, line, "exit") /\ OnlyMoves(Parent)
    BY <1>1, <1>5, <2>1, LineStep, Zenon
  <2> QED
    BY <1>4, <2>1, <2>2 DEF LineTo
<1>7. MainPath'
  BY <1>2, <1>6 DEF MainPath, Parent, MemStart
<1>8. /\ MemoryLines(Parent) = 0 /\ MemoryLines(Parent)' = 0
      /\ FailedLines(Parent)' = FailedLines(Parent) /\ FailedLines(Parent) = 0
  BY <1>2 DEF MemoryLines, FailedLines
<1>9. LineCount(Parent)' = LineCount(Parent) + 1
  BY <1>1, <1>2, <1>6, <1>8 DEF LineCount
<1>10. OthersStay(Parent)
  BY <1>1, <1>2, <1>6, <1>8, OthersAre
<1>11. line[1] = "thread" /\ line[2] = Parent /\ line[3] = 0
  BY <1>3 DEF ThreadLine
<1>12. Prints(Parent, line)
  <2>1. \A q \in Pids : line \notin WasPrinted(q)
    BY <1>2, <1>11 DEF WasPrinted, Printed
  <2>2. line \in WasPrinted(Parent)'
    BY <1>6, <1>11 DEF WasPrinted, Printed, Parent
  <2>3. ~AfterWait(line)
    BY <1>11 DEF AfterWait
  <2> QED
    BY <1>5, <1>6, <1>9, <2>1, <2>2, <2>3, Zenon DEF Prints
<1>13. WrittenInv'
  BY <1>1, <1>10, <1>12, LineWrittenOnce, Zenon
<1>14. Seen => Seen'
  BY <1>1, <1>5, SeenShown, Zenon
<1> QED
  BY <1>2, <1>6, <1>7, <1>13, <1>14, MainEnds, Zenon

\* All have printed what they had.
LEMMA LinesStay ==
  ASSUME RunInv, RunInv', exitStatus' = 1 <=> exitStatus = 1,
         \A q \in Pids : proc'[q].tried = proc[q].tried /\ MemoryLines(q)' = MemoryLines(q)
  PROVE  \A q \in Pids : LineCount(q)' = LineCount(q) /\ WasPrinted(q) \subseteq WasPrinted(q)'
<1> TAKE q \in Pids
<1>1. FailedLines(q)' = FailedLines(q)
  BY Zenon DEF FailedLines, Parent
<1>2. /\ proc[q].tried \in Nat /\ MemoryLines(q) \in Nat
  BY LinesAreNat DEF LinesNat
<1>3. proc'[q].tried = proc[q].tried /\ MemoryLines(q)' = MemoryLines(q)
  OBVIOUS
<1>4. LineCount(q)' = LineCount(q)
  BY <1>1, <1>3, Zenon DEF LineCount
<1>5. /\ proc'[q].tried \in Nat /\ proc[q].tried <= proc'[q].tried
      /\ MemoryLines(q)' \in Nat /\ MemoryLines(q) <= MemoryLines(q)'
  BY <1>2, <1>3
<1>6. WasPrinted(q) \subseteq WasPrinted(q)'
  BY <1>2, <1>5, PrintedGrows, Zenon
<1> QED
  BY <1>4, <1>6

LEMMA ForkWrites ==
  ASSUME ForksInv, ForksInv', LinesInv, Fork
  PROVE  LinesInv'
<1>1. /\ RunInv /\ WrittenInv /\ MainPath /\ Parent \in Pids /\ proc[Parent] \in Process
      /\ forks \in Nat /\ RunInv' /\ proc \in [Pids -> Process] /\ PathInv
      /\ Pids = 0 .. MaxForks /\ MaxForks \in Nat /\ Parent = 0
  BY MainKnown DEF ForksInv
<1>2. /\ UNCHANGED <<program, limit, tty, exitStatus, out>> /\ proc[Parent].pc = "fork"
      /\ forks' = forks + 1
      /\ proc[Parent].tried = 0 /\ proc[Parent].buf = <<>> /\ proc[Parent].mem = MemStart
      /\ exitStatus = -1 /\ (program = "fork" => forks = 0)
  BY <1>1 DEF Fork, ForksInv, ProcessesInv, MainPath
<1>3. /\ forks + 1 \in 1 .. MaxForks
      /\ proc'[Parent].pc = (IF program = "fork" THEN "parent" ELSE "fork")
      /\ proc'[forks + 1].pc = (IF program = "fork" THEN "child" ELSE "create")
      /\ \A pid \in {Parent, forks + 1} :
           proc'[pid].tried = 0 /\ proc'[pid].mem = MemStart /\ proc'[pid].buf = <<>>
      /\ \A pid \in Pids : pid \notin {Parent, forks + 1} => proc'[pid] = proc[pid]
  BY <1>2, ForkShape
<1>4. /\ proc[forks + 1].pc = "none" /\ proc[forks + 1].tried = 0 /\ proc[forks + 1].buf = <<>>
  <2>1. forks + 1 > forks
    BY <1>1
  <2>2. proc[forks + 1].pc = "none"
    BY <1>3, <2>1 DEF ForksInv, ProcessesInv
  <2> QED
    BY <1>1, <1>3, <2>2 DEF PathInv, ChildPath
<1>5. \A q \in Pids : /\ proc'[q].tried = proc[q].tried /\ proc'[q].buf = proc[q].buf
                      /\ MemoryLines(q)' = MemoryLines(q)
  <2> TAKE q \in Pids
  <2>1. CASE q = Parent
    BY <1>2, <1>3, <2>1 DEF MemoryLines
  <2>2. CASE q = forks + 1
    <3>1. q # Parent
      BY <1>1, <2>2
    <3> QED
      BY <1>2, <1>3, <1>4, <2>2, <3>1 DEF MemoryLines, Parent
  <2>3. CASE q \notin {Parent, forks + 1}
    <3>1. proc'[q] = proc[q] /\ q # Parent
      BY <1>3, <2>3
    <3> QED
      BY <1>2, <3>1 DEF MemoryLines, Parent
  <2> QED
    BY <2>1, <2>2, <2>3
<1>6. WrittenInv'
  <2>1. \A q \in Pids : LineCount(q)' = LineCount(q) /\ WasPrinted(q) \subseteq WasPrinted(q)'
    BY <1>1, <1>2, <1>5, LinesStay, Zenon
  <2>2. OthersStay(Parent) /\ LineCount(Parent)' = LineCount(Parent) /\ proc'[Parent].buf = proc[Parent].buf
    BY <1>1, <1>5, <2>1, Zenon DEF OthersStay
  <2> QED
    BY <1>1, <1>2, <2>2, NothingWritten, Zenon
<1>7. PathInv'
  <2>1. MainPath'
    BY <1>2, <1>3 DEF MainPath, Parent, MemStart
  <2>2. \A q \in 1 .. MaxForks : ChildPath(q)'
    <3> TAKE q \in 1 .. MaxForks
    <3>1. PerChild' = PerChild
      BY <1>2, Zenon DEF PerChild
    <3>2. CASE q = forks + 1
      BY <1>2, <1>3, <3>1, <3>2 DEF ChildPath, MemStart
    <3>3. CASE q # forks + 1
      <4>1. proc'[q] = proc[q]
        BY <1>1, <1>3, <3>3
      <4> QED
        BY <1>1, <1>2, <3>1, <4>1, Zenon DEF PathInv, ChildPath, MemStart
    <3> QED
      BY <3>2, <3>3
  <2> QED
    BY <2>1, <2>2 DEF PathInv, ChildPath, MemStart, PerChild, MaxForks
<1>8. ChildSeen'
  <2>1. program = "fork" => proc'[1].pc = "child"
    BY <1>2, <1>3
  <2> QED
    BY <1>2, <2>1 DEF ChildSeen
<1> QED
  BY <1>6, <1>7, <1>8 DEF LinesInv

\* The line after the wait comes when the child is gone, whose line is in stdout.
LEMMA ParentPrintsWrites ==
  ASSUME ForksInv, ForksInv', LinesInv, ParentPrints
  PROVE  LinesInv'
<1>1. /\ RunInv /\ WrittenInv /\ MainPath /\ Parent \in Pids /\ proc[Parent] \in Process
      /\ forks \in Nat /\ proc[Parent].tried \in Nat /\ RunInv' /\ proc \in [Pids -> Process]
      /\ Parent = 0 /\ ChildSeen
  BY MainKnown DEF ForksInv
<1>2. /\ UNCHANGED <<program, limit, tty, forks, exitStatus>>
      /\ proc[Parent].pc \in {"parent", "again"} /\ program = "fork"
      /\ proc[Parent].tried = 0 /\ proc[Parent].mem = MemStart
      /\ (proc[Parent].pc = "again" => forks = 1 /\ proc[1].pc = "gone" /\ Seen)
  BY <1>1 DEF ParentPrints, ForksInv, ProcessesInv, MainPath, ChildSeen
<1>3. forks \in {0, 1}
  BY <1>1, <1>2 DEF ForksInv, RunInv, Children
<1>4. PICK k \in {1, 2} : k = IF proc[Parent].pc = "parent" THEN 1 ELSE 2
  OBVIOUS
<1>5. PICK line \in Line : line = MemoryLine(Parent, k, proc[Parent].mem)
  <2>1. k \in Nat /\ proc[Parent].mem \in Locals /\ Parent \in Nat
    BY <1>1 DEF Process
  <2> QED
    BY <2>1, LinesAre, Zenon
<1>6. PICK to \in Points : to = AfterLine(proc[Parent].pc = "parent")
  BY DEF Points, AfterLine
<1>7. /\ proc' = [proc EXCEPT ![Parent] = [WithLine(proc[Parent], line) EXCEPT !.pc = to]]
      /\ out' = Shown(line)
  BY <1>1, <1>4, <1>5, <1>6 DEF ParentPrints
<1>8. LineTo(Parent, proc[Parent], line, to) /\ OnlyMoves(Parent)
  BY <1>1, <1>7, LineStep, Zenon
<1>9. /\ proc'[Parent].pc = to /\ proc'[Parent].tried = proc[Parent].tried
      /\ proc'[Parent].mem = proc[Parent].mem
      /\ proc'[Parent].buf = IF tty THEN proc[Parent].buf ELSE Append(proc[Parent].buf, line)
  BY <1>8 DEF LineTo
<1>10. \/ proc[Parent].pc = "parent" /\ forks = 0 /\ to = "exit" /\ k = 1
       \/ proc[Parent].pc = "parent" /\ forks = 1 /\ to = "wait" /\ k = 1
       \/ proc[Parent].pc = "again" /\ forks = 1 /\ to = "exit" /\ k = 2
  BY <1>2, <1>3, <1>4, <1>6 DEF AfterLine
<1>11. proc[1].pc = "gone" => proc'[1].pc = "gone"
  <2>1. 1 \in Pids /\ 1 # Parent
    <3>1. MaxForks >= 3 /\ MaxForks \in Nat /\ Pids = 0 .. MaxForks
      BY ForksAssumption, ForksKnown DEF MaxForks
    <3> QED
      BY <1>1, <3>1
  <2> QED
    BY <1>8, <2>1 DEF OnlyMoves
<1>12. MainPath'
  BY <1>1, <1>2, <1>9, <1>10, <1>11 DEF MainPath, Parent, MemStart
<1>13. MemoryLines(Parent) = k - 1 /\ MemoryLines(Parent)' = k
  BY <1>2, <1>9, <1>10 DEF MemoryLines, Parent
<1>14. LineCount(Parent)' = LineCount(Parent) + 1
  <2>1. FailedLines(Parent)' = FailedLines(Parent) /\ FailedLines(Parent) \in Int
    BY <1>2 DEF FailedLines, Parent
  <2> QED
    BY <1>1, <1>9, <1>13, <2>1 DEF LineCount
<1>15. OthersStay(Parent)
  BY <1>1, <1>2, <1>8, <1>9, <1>13, OthersAre
<1>16. line[1] = "memory" /\ line[2] = Parent /\ line[3] = k /\ line[4] = MemStart
  BY <1>2, <1>5 DEF MemoryLine
<1>17. Prints(Parent, line)
  <2>1. \A q \in Pids : line \notin WasPrinted(q)
    BY <1>13, <1>16 DEF WasPrinted, Printed
  <2>2. line \in WasPrinted(Parent)'
    BY <1>13, <1>16 DEF WasPrinted, Printed, Parent, MemStart
  <2>3. AfterWait(line) => Seen
    BY <1>2, <1>10, <1>16 DEF AfterWait
  <2> QED
    BY <1>7, <1>9, <1>14, <2>1, <2>2, <2>3, Zenon DEF Prints
<1>18. WrittenInv'
  BY <1>1, <1>15, <1>17, LineWrittenOnce, Zenon
<1>19. Seen => Seen'
  BY <1>1, <1>7, SeenShown, Zenon
<1> QED
  BY <1>2, <1>8, <1>12, <1>18, <1>19, MainEnds, Zenon

LEMMA WaitWrites ==
  ASSUME ForksInv, ForksInv', LinesInv, Wait
  PROVE  LinesInv'
<1>1. /\ RunInv /\ WrittenInv /\ MainPath /\ Parent \in Pids /\ proc[Parent] \in Process
      /\ forks \in Nat /\ RunInv' /\ proc \in [Pids -> Process] /\ PathInv /\ ChildSeen
      /\ Pids = 0 .. MaxForks /\ MaxForks \in Nat /\ Parent = 0
  BY MainKnown DEF ForksInv
<1>2. /\ UNCHANGED <<program, limit, tty, forks, exitStatus, out>> /\ proc[Parent].pc = "wait"
      /\ program = "fork" /\ forks = 1
      /\ proc[Parent].tried = 0 /\ proc[Parent].mem = MemStart /\ exitStatus # 1
  BY <1>1 DEF Wait, ForksInv, ProcessesInv, MainPath
<1>3. PICK pid \in Pids :
        proc[pid].pc = "zombie" /\ proc' = [proc EXCEPT ![pid].pc = "gone", ![Parent].pc = "again"]
  BY Zenon DEF Wait, Waitable
<1>4. pid = 1
  <2>1. pid # Parent
    BY <1>2, <1>3
  <2>2. pid \in 1 .. MaxForks
    BY <1>1, <2>1
  <2>3. ~(pid > forks)
    BY <1>3, <2>2 DEF ForksInv, ProcessesInv
  <2> QED
    BY <1>1, <1>2, <2>2, <2>3
<1>5. /\ proc'[1].pc = "gone" /\ proc'[1].tried = proc[1].tried /\ proc'[1].mem = proc[1].mem
      /\ proc'[1].buf = proc[1].buf
      /\ proc'[Parent].pc = "again" /\ proc'[Parent].tried = proc[Parent].tried
      /\ proc'[Parent].mem = proc[Parent].mem /\ proc'[Parent].buf = proc[Parent].buf
      /\ \A q \in Pids : q \notin {1, Parent} => proc'[q] = proc[q]
  <2>1. PICK r : r = [proc[1] EXCEPT !.pc = "gone"]
    OBVIOUS
  <2>2. PICK r0 : r0 = [proc[Parent] EXCEPT !.pc = "again"]
    OBVIOUS
  <2>3. "gone" \in Points /\ "again" \in Points /\ proc[1] \in Process
    BY <1>1, <1>3, <1>4 DEF Points
  <2>4. /\ r \in Process /\ r.pc = "gone" /\ r.tried = proc[1].tried /\ r.mem = proc[1].mem
        /\ r.buf = proc[1].buf
    BY <2>1, <2>3, PcMoved, Zenon
  <2>5. /\ r0 \in Process /\ r0.pc = "again" /\ r0.tried = proc[Parent].tried
        /\ r0.mem = proc[Parent].mem /\ r0.buf = proc[Parent].buf
    BY <1>1, <2>2, <2>3, PcMoved, Zenon
  <2>6. /\ proc'[1] = r /\ proc'[Parent] = r0
        /\ \A q \in Pids : q \notin {1, Parent} => proc'[q] = proc[q]
    <3>1. 1 # Parent /\ 1 \in Pids
      BY <1>1, <1>3, <1>4
    <3>2. proc' = [proc EXCEPT ![1] = r, ![Parent] = r0]
      <4>1. proc' = [proc EXCEPT ![1].pc = "gone", ![Parent].pc = "again"]
        BY <1>3, <1>4, Zenon
      <4>2. [proc EXCEPT ![1].pc = "gone"] = [proc EXCEPT ![1] = r]
        BY <2>1, Zenon
      <4>3. PICK first : first = [proc EXCEPT ![1] = r]
        OBVIOUS
      <4>4. proc' = [first EXCEPT ![Parent].pc = "again"] /\ first[Parent] = proc[Parent]
        BY <1>1, <3>1, <4>1, <4>2, <4>3
      <4> QED
        BY <2>2, <4>3, <4>4, Zenon
    <3> QED
      BY <1>1, <3>1, <3>2, <2>4, <2>5
  <2> QED
    BY <2>4, <2>5, <2>6
<1>6. \A q \in Pids : /\ proc'[q].tried = proc[q].tried /\ proc'[q].buf = proc[q].buf
                      /\ MemoryLines(q)' = MemoryLines(q)
  <2> TAKE q \in Pids
  <2>1. CASE q = Parent
    BY <1>2, <1>5, <2>1 DEF MemoryLines, Parent
  <2>2. CASE q = 1
    BY <1>2, <1>3, <1>4, <1>5, <2>2 DEF MemoryLines, Parent
  <2>3. CASE q \notin {1, Parent}
    <3>1. proc'[q] = proc[q] /\ q # Parent
      BY <1>5, <2>3
    <3> QED
      BY <1>2, <3>1 DEF MemoryLines, Parent
  <2> QED
    BY <2>1, <2>2, <2>3
<1>7. WrittenInv'
  <2>1. \A q \in Pids : LineCount(q)' = LineCount(q) /\ WasPrinted(q) \subseteq WasPrinted(q)'
    BY <1>1, <1>2, <1>6, LinesStay, Zenon
  <2>2. OthersStay(Parent) /\ LineCount(Parent)' = LineCount(Parent) /\ proc'[Parent].buf = proc[Parent].buf
    BY <1>1, <1>6, <2>1, Zenon DEF OthersStay
  <2> QED
    BY <1>1, <1>2, <2>2, NothingWritten, Zenon
<1>8. PathInv'
  <2>1. MainPath'
    BY <1>2, <1>5 DEF MainPath, Parent, MemStart
  <2>2. \A q \in 1 .. MaxForks : ChildPath(q)'
    <3> TAKE q \in 1 .. MaxForks
    <3>1. PerChild' = PerChild
      BY <1>2, Zenon DEF PerChild
    <3>2. CASE q = 1
      BY <1>1, <1>2, <1>3, <1>4, <1>5, <3>1, <3>2 DEF ChildPath, MemStart, PathInv
    <3>3. CASE q # 1
      <4>1. proc'[q] = proc[q]
        BY <1>1, <1>5, <3>3
      <4> QED
        BY <1>1, <1>2, <3>1, <4>1, Zenon DEF PathInv, ChildPath, MemStart
    <3> QED
      BY <3>2, <3>3
  <2> QED
    BY <2>1, <2>2 DEF PathInv, ChildPath, MemStart, PerChild, MaxForks
<1>9. ChildSeen'
  <2>1. Seen
    BY <1>1, <1>2, <1>3, <1>4 DEF ChildSeen
  <2>2. Seen'
    BY <1>2, <2>1 DEF Seen, ChildLine, MemoryLine, MemEnd
  <2> QED
    BY <1>5, <2>2 DEF ChildSeen
<1> QED
  BY <1>7, <1>8, <1>9 DEF LinesInv

LEMMA MainExitWrites ==
  ASSUME ForksInv, ForksInv', LinesInv, MainExit
  PROVE  LinesInv'
<1>1. /\ RunInv /\ WrittenInv /\ MainPath /\ Parent \in Pids /\ proc[Parent] \in Process
      /\ forks \in Nat /\ RunInv' /\ proc \in [Pids -> Process] /\ PathInv /\ ChildSeen
      /\ Pids = 0 .. MaxForks /\ MaxForks \in Nat /\ Parent = 0
      /\ proc[Parent].buf \in Seq(Line) /\ out \in Seq(Line)
  BY MainKnown DEF ForksInv
<1>2. /\ UNCHANGED <<program, limit, tty, forks>>
      /\ exitStatus' = (IF exitStatus = -1 THEN 0 ELSE exitStatus)
      /\ proc[Parent].pc = "exit" /\ out' = out \o proc[Parent].buf
  BY DEF MainExit, LeftToWrite
<1>3. PICK r0 \in Process : /\ r0 = [Ended(proc[Parent]) EXCEPT !.pc = "gone"]
                            /\ r0.pc = "gone" /\ r0.tried = proc[Parent].tried
                            /\ r0.mem = proc[Parent].mem /\ r0.buf = <<>>
  <2>1. PICK ended \in Process :
          /\ ended = Ended(proc[Parent]) /\ ended.tried = proc[Parent].tried
          /\ ended.mem = proc[Parent].mem /\ ended.buf = <<>>
    <3>1. Ended(proc[Parent]).buf = <<>>
      BY <1>1 DEF Ended, Process
    <3>2. Ended(proc[Parent]) \in Process /\ Ended(proc[Parent]).tried = proc[Parent].tried
          /\ Ended(proc[Parent]).mem = proc[Parent].mem
      BY <1>1, EndOf, Zenon
    <3> QED
      BY <3>1, <3>2, Zenon
  <2>2. /\ [ended EXCEPT !.pc = "gone"] \in Process /\ [ended EXCEPT !.pc = "gone"].pc = "gone"
        /\ [ended EXCEPT !.pc = "gone"].tried = ended.tried
        /\ [ended EXCEPT !.pc = "gone"].mem = ended.mem
        /\ [ended EXCEPT !.pc = "gone"].buf = ended.buf
    <3>1. "gone" \in Points
      BY DEF Points
    <3> QED
      BY <2>1, <3>1, PcMoved, Zenon
  <2> QED
    BY <2>1, <2>2, Zenon
<1>4. proc' = [q \in Pids |-> IF q = Parent THEN r0
                              ELSE IF proc[q].pc = "zombie" THEN [proc[q] EXCEPT !.pc = "gone"] ELSE proc[q]]
  BY <1>3 DEF MainExit
<1>5. /\ proc'[Parent] = r0
      /\ \A q \in Pids : q # Parent =>
           proc'[q] = IF proc[q].pc = "zombie" THEN [proc[q] EXCEPT !.pc = "gone"] ELSE proc[q]
  BY <1>1, <1>4
<1>6. \A q \in Pids : q # Parent =>
        /\ proc'[q].tried = proc[q].tried /\ proc'[q].mem = proc[q].mem /\ proc'[q].buf = proc[q].buf
        /\ proc'[q].pc = IF proc[q].pc = "zombie" THEN "gone" ELSE proc[q].pc
  <2> TAKE q \in Pids
  <2> HAVE q # Parent
  <2>1. CASE proc[q].pc = "zombie"
    <3>1. proc'[q] = [proc[q] EXCEPT !.pc = "gone"] /\ proc[q] \in Process /\ "gone" \in Points
      BY <1>1, <1>5, <2>1 DEF Points
    <3>2. /\ [proc[q] EXCEPT !.pc = "gone"].pc = "gone"
          /\ [proc[q] EXCEPT !.pc = "gone"].tried = proc[q].tried
          /\ [proc[q] EXCEPT !.pc = "gone"].mem = proc[q].mem
          /\ [proc[q] EXCEPT !.pc = "gone"].buf = proc[q].buf
      BY <3>1, PcMoved, Zenon
    <3> QED
      BY <2>1, <3>1, <3>2, Zenon
  <2>2. CASE proc[q].pc # "zombie"
    <3>1. proc'[q] = proc[q]
      BY <1>5, <2>2
    <3> QED
      BY <2>2, <3>1, Zenon
  <2> QED
    BY <2>1, <2>2
<1>7. \A q \in Pids : proc'[q].tried = proc[q].tried /\ MemoryLines(q)' = MemoryLines(q)
  <2> TAKE q \in Pids
  <2>1. CASE q = Parent
    BY <1>2, <1>3, <1>5, <2>1 DEF MemoryLines, Parent
  <2>2. CASE q # Parent
    BY <1>2, <1>6, <2>2 DEF MemoryLines, Parent
  <2> QED
    BY <2>1, <2>2
<1>8. \A q \in Pids : LineCount(q)' = LineCount(q) /\ WasPrinted(q) \subseteq WasPrinted(q)'
  <2>1. exitStatus' = 1 <=> exitStatus = 1
    BY <1>2
  <2> QED
    BY <1>1, <1>7, <2>1, LinesStay, Zenon
<1>9. \A k \in DOMAIN proc[Parent].buf : AfterWait(proc[Parent].buf[k]) => Seen
  <2> TAKE k \in DOMAIN proc[Parent].buf
  <2> HAVE AfterWait(proc[Parent].buf[k])
  <2>1. proc[Parent].buf[k] \in WasPrinted(Parent)
    BY <1>1 DEF WrittenInv, LinesPrinted, All
  <2>2. 2 \in 1 .. MemoryLines(Parent)
    BY <2>1 DEF AfterWait, WasPrinted, Printed
  <2>3. program = "fork" /\ forks # 0
    BY <1>2, <2>2 DEF MemoryLines
  <2>4. forks = 1
    BY <1>1, <2>3 DEF ForksInv, RunInv, Children
  <2> QED
    BY <1>1, <1>2, <2>3, <2>4 DEF MainPath, ChildSeen
<1>10. WrittenInv'
  <2>1. OthersStay(Parent) /\ LineCount(Parent)' = LineCount(Parent) /\ proc'[Parent].buf = <<>>
    BY <1>1, <1>3, <1>5, <1>6, <1>8, Zenon DEF OthersStay
  <2> QED
    BY <1>1, <1>2, <1>9, <2>1, BufferWritten, Zenon
<1>11. 1 \in Pids /\ 1 # Parent
  <2>1. MaxForks >= 3
    BY ForksAssumption DEF MaxForks
  <2> QED
    BY <1>1, <2>1
<1>12. MainPath'
  <2>1. proc[1].pc = "gone" => proc'[1].pc = "gone"
    BY <1>6, <1>11
  <2>2. /\ proc'[Parent].pc = "gone" /\ proc'[Parent].buf = <<>> /\ proc'[Parent].mem = proc[Parent].mem
        /\ proc'[Parent].tried = proc[Parent].tried
        /\ exitStatus' = 1 <=> exitStatus = 1
    BY <1>2, <1>3, <1>5
  <2> QED
    BY <1>1, <1>2, <2>1, <2>2 DEF MainPath, Parent, MemStart
<1>13. \A q \in 1 .. MaxForks : ChildPath(q)'
  <2> TAKE q \in 1 .. MaxForks
  <2>1. PerChild' = PerChild
    BY <1>2, Zenon DEF PerChild
  <2>2. q \in Pids /\ q # Parent
    BY <1>1
  <2> QED
    BY <1>1, <1>2, <1>6, <2>1, <2>2 DEF PathInv, ChildPath, MemStart
<1>14. ChildSeen'
  <2>1. Seen => Seen'
    BY <1>1, <1>2, SeenStays, Zenon
  <2>2. /\ proc'[1].buf = proc[1].buf
        /\ proc'[1].pc = IF proc[1].pc = "zombie" THEN "gone" ELSE proc[1].pc
    BY <1>6, <1>11
  <2> QED
    BY <1>1, <1>2, <2>1, <2>2 DEF ChildSeen, ChildLine, MemoryLine, MemEnd
<1>15. PathInv'
  BY <1>12, <1>13 DEF PathInv, ChildPath, MemStart, PerChild, MaxForks
<1> QED
  BY <1>10, <1>14, <1>15 DEF LinesInv

\* What is known before every step of a child.
LEMMA ChildKnown ==
  ASSUME ForksInv, LinesInv, NEW pid \in Pids,
         pid # Parent \/ proc[pid].pc \in {"create", "child"}, proc[pid].pc # "none"
  PROVE  /\ RunInv /\ WrittenInv /\ PathInv /\ ChildSeen /\ ChildPath(pid)
         /\ pid \in 1 .. forks /\ pid \in 1 .. MaxForks /\ pid # Parent /\ proc[pid] \in Process
         /\ proc[pid].tried \in Nat /\ proc[pid].tried <= PerChild
         /\ proc \in [Pids -> Process] /\ out \in Seq(Line) /\ proc[pid].buf \in Seq(Line)
         /\ PerChild \in Nat /\ forks \in Nat /\ (program = "fork" => pid = 1 /\ forks = 1 /\ PerChild = 0)
<1>1. /\ pid \in 1 .. forks /\ pid \in 1 .. MaxForks /\ proc[pid] \in Process /\ proc[pid].tried <= PerChild
  BY IsChild
<1>2. RunInv /\ proc \in [Pids -> Process] /\ out \in Seq(Line)
  BY DEF ForksInv, RunInv
<1>3. proc[pid].tried \in Nat /\ proc[pid].buf \in Seq(Line)
  BY <1>1 DEF Process
<1>4. program = "fork" => Children = 1 /\ PerChild = 0
  BY DEF Children, PerChild
<1>5. forks \in Nat /\ forks <= Children /\ Parent = 0 /\ PerChild \in Nat
  BY ForksKnown
<1>6. program = "fork" => pid = 1 /\ forks = 1
  BY <1>1, <1>4, <1>5
<1>7. pid # Parent
  BY <1>1, <1>5
<1>8. WrittenInv /\ PathInv /\ ChildSeen /\ ChildPath(pid)
  BY <1>1 DEF LinesInv, PathInv
<1> QED
  BY <1>1, <1>2, <1>3, <1>4, <1>5, <1>6, <1>7, <1>8, Zenon

\* A thread's line has the number of the round.
LEMMA CreateThreadWrites ==
  ASSUME ForksInv, ForksInv', LinesInv, NEW pid \in Pids, CreateThread(pid)
  PROVE  LinesInv'
<1>1. /\ UNCHANGED <<program, limit, tty, forks, exitStatus>> /\ proc[pid].pc = "create"
      /\ UNCHANGED <<program, forks, exitStatus>> /\ UNCHANGED <<program, forks>>
  BY DEF CreateThread
<1>2. /\ RunInv /\ WrittenInv /\ PathInv /\ ChildPath(pid)
      /\ pid \in 1 .. MaxForks /\ pid # Parent /\ proc[pid] \in Process
      /\ proc[pid].tried \in Nat /\ proc[pid].tried <= PerChild /\ proc \in [Pids -> Process]
      /\ PerChild \in Nat
  BY <1>1, ChildKnown
<1>3. program # "fork" /\ RunInv' /\ Alive(pid)
  BY <1>1, <1>2 DEF ChildPath, ForksInv, Alive
<1>4. /\ MemoryLines(pid) = 0 /\ MemoryLines(pid)' = 0
      /\ FailedLines(pid) = 0 /\ FailedLines(pid)' = 0
  BY <1>1, <1>2, <1>3 DEF MemoryLines, FailedLines, Parent
<1>5. PerChild' = PerChild
  BY <1>1, Zenon DEF PerChild
<1>6. ChildSeen'
  BY <1>1, <1>3 DEF ChildSeen
<1>7. CASE MoreToStart(proc[pid])
  <2>1. PICK line \in Line : line = ThreadLine(pid, proc[pid].tried, HasRoom)
    <3>1. HasRoom \in BOOLEAN /\ pid \in Nat /\ proc[pid].tried \in Nat
      BY <1>2 DEF HasRoom
    <3> QED
      BY <3>1, LinesAre, Zenon
  <2>2. PICK made \in Process :
          /\ made = WithThread(proc[pid]) /\ made.pc = proc[pid].pc /\ made.tried = proc[pid].tried + 1
          /\ made.buf = proc[pid].buf
    BY <1>2, ThreadTried, Zenon
  <2>3. PICK r \in Process :
          /\ r = WithLine(made, line) /\ r.pc = made.pc /\ r.tried = made.tried
          /\ r.buf = IF tty THEN made.buf ELSE Append(made.buf, line)
    BY <1>2, LineWritten
  <2>4. proc' = [proc EXCEPT ![pid] = r] /\ out' = Shown(line)
    BY <1>7, <2>1, <2>2, <2>3, Zenon DEF CreateThread
  <2>5. /\ proc'[pid].pc = "create" /\ proc'[pid].tried = proc[pid].tried + 1
        /\ proc'[pid].buf = IF tty THEN proc[pid].buf ELSE Append(proc[pid].buf, line)
        /\ OnlyMoves(pid)
    <3>1. proc'[pid] = r /\ OnlyMoves(pid)
      BY <1>2, <2>4, OneProcess DEF OnlyMoves
    <3> QED
      BY <1>1, <2>2, <2>3, <3>1
  <2>6. ChildPath(pid)'
    BY <1>1, <1>3, <2>5 DEF ChildPath
  <2>7. LineCount(pid)' = LineCount(pid) + 1
    BY <1>2, <1>4, <2>5 DEF LineCount
  <2>8. OthersStay(pid)
    BY <1>1, <1>2, <1>3, <1>4, <2>5, OthersAre
  <2>9. line[1] = "thread" /\ line[2] = pid /\ line[3] = proc[pid].tried
    BY <2>1 DEF ThreadLine
  <2>10. Prints(pid, line)
    <3>1. \A q \in Pids : line \notin WasPrinted(q)
      BY <1>2, <2>9 DEF WasPrinted, Printed
    <3>2. line \in WasPrinted(pid)'
      BY <1>2, <2>5, <2>9 DEF WasPrinted, Printed
    <3>3. ~AfterWait(line)
      BY <2>9 DEF AfterWait
    <3> QED
      BY <2>4, <2>5, <2>7, <3>1, <3>2, <3>3, Zenon DEF Prints
  <2>11. WrittenInv'
    BY <1>2, <1>3, <2>8, <2>10, LineWrittenOnce, Zenon
  <2>12. PathInv'
    BY <1>1, <1>2, <1>3, <2>5, <2>6, ChildMoves, Zenon
  <2> QED
    BY <1>6, <2>11, <2>12 DEF LinesInv
<1>8. CASE ~MoreToStart(proc[pid])
  <2>1. proc' = [proc EXCEPT ![pid].pc = "exit"] /\ out' = out /\ proc[pid].tried = PerChild
    BY <1>2, <1>8 DEF CreateThread, MoreToStart
  <2>2. /\ proc'[pid].pc = "exit" /\ proc'[pid].tried = proc[pid].tried
        /\ proc'[pid].buf = proc[pid].buf /\ OnlyMoves(pid)
    BY <1>2, <2>1, PcStep, "exit" \in Points DEF Points
  <2>3. ChildPath(pid)'
    BY <1>5, <2>1, <2>2 DEF ChildPath
  <2>4. LineCount(pid)' = LineCount(pid)
    BY <1>4, <2>2, Zenon DEF LineCount
  <2>5. OthersStay(pid)
    BY <1>1, <1>2, <1>3, <1>4, <2>2, OthersAre
  <2>6. WrittenInv'
    BY <1>2, <1>3, <2>1, <2>2, <2>4, <2>5, NothingWritten, Zenon
  <2>7. PathInv'
    BY <1>1, <1>2, <1>3, <2>2, <2>3, ChildMoves, Zenon
  <2> QED
    BY <1>6, <2>6, <2>7 DEF LinesInv
<1> QED
  BY <1>7, <1>8

LEMMA ChildPrintsWrites ==
  ASSUME ForksInv, ForksInv', LinesInv, NEW pid \in Pids, ChildPrints(pid)
  PROVE  LinesInv'
<1>1. /\ UNCHANGED <<program, limit, tty, forks, exitStatus>> /\ proc[pid].pc = "child"
      /\ UNCHANGED <<program, forks, exitStatus>> /\ UNCHANGED <<program, forks>>
  BY DEF ChildPrints
<1>2. /\ RunInv /\ WrittenInv /\ PathInv /\ ChildPath(pid)
      /\ pid \in 1 .. MaxForks /\ pid # Parent /\ proc[pid] \in Process
      /\ proc[pid].tried \in Nat /\ proc[pid].tried <= PerChild /\ proc \in [Pids -> Process]
      /\ PerChild \in Nat /\ out \in Seq(Line) /\ proc[pid].buf \in Seq(Line)
      /\ (program = "fork" => pid = 1 /\ forks = 1 /\ PerChild = 0)
  BY <1>1, ChildKnown
<1>3. /\ program = "fork" /\ pid = 1 /\ forks = 1 /\ PerChild = 0 /\ proc[pid].tried = 0
      /\ proc[pid].mem = MemStart /\ RunInv' /\ Alive(pid) /\ PerChild' = PerChild
  <2>1. program = "fork" /\ proc[pid].mem = MemStart
    BY <1>1, <1>2 DEF ChildPath
  <2>2. PerChild' = PerChild
    BY <1>1, Zenon DEF PerChild
  <2> QED
    BY <1>1, <1>2, <2>1, <2>2 DEF ForksInv, Alive
<1>4. MemEnd \in Locals /\ [b |-> proc[pid].mem.b + 1, c |-> proc[pid].mem.c + 2] = MemEnd
  <2>1. MemEnd \in Locals
    BY DEF MemEnd, Locals
  <2>2. proc[pid].mem.b = 10 /\ proc[pid].mem.c = 0
    BY <1>3 DEF MemStart
  <2>3. proc[pid].mem.b + 1 = 11 /\ proc[pid].mem.c + 2 = 2
    BY <2>2
  <2> QED
    BY <2>1, <2>3, Zenon DEF MemEnd
<1>5. PICK line \in Line : line = MemoryLine(pid, 1, MemEnd)
  <2>1. pid \in Nat /\ 1 \in Nat
    BY <1>2
  <2> QED
    BY <1>4, <2>1, LinesAre, Zenon
<1>6. PICK changed \in Process :
        /\ changed = [proc[pid] EXCEPT !.mem = MemEnd]
        /\ changed.tried = proc[pid].tried /\ changed.buf = proc[pid].buf
  <2>1. /\ [proc[pid] EXCEPT !.mem = MemEnd] \in Process
        /\ [proc[pid] EXCEPT !.mem = MemEnd].tried = proc[pid].tried
        /\ [proc[pid] EXCEPT !.mem = MemEnd].buf = proc[pid].buf
    BY <1>2, <1>4 DEF Process
  <2> QED
    BY <2>1, Zenon
<1>7. /\ proc' = [proc EXCEPT ![pid] = [WithLine(changed, line) EXCEPT !.pc = "exit"]]
      /\ out' = Shown(line)
  BY <1>4, <1>5, <1>6, Zenon DEF ChildPrints
<1>8. LineTo(pid, changed, line, "exit") /\ OnlyMoves(pid)
  <2>1. "exit" \in Points
    BY DEF Points
  <2> QED
    BY <1>2, <1>7, <2>1, LineStep, Zenon
<1>9. /\ proc'[pid].pc = "exit" /\ proc'[pid].tried = proc[pid].tried
      /\ proc'[pid].buf = IF tty THEN proc[pid].buf ELSE Append(proc[pid].buf, line)
  BY <1>6, <1>8 DEF LineTo
<1>10. ChildPath(pid)'
  BY <1>3, <1>9 DEF ChildPath
<1>11. /\ MemoryLines(pid) = 0 /\ MemoryLines(pid)' = 1
       /\ FailedLines(pid) = 0 /\ FailedLines(pid)' = 0
  BY <1>1, <1>2, <1>3, <1>9 DEF MemoryLines, FailedLines, Parent
<1>12. LineCount(pid)' = LineCount(pid) + 1
  BY <1>2, <1>9, <1>11 DEF LineCount
<1>13. OthersStay(pid)
  BY <1>1, <1>2, <1>3, <1>8, <1>9, <1>11, OthersAre
<1>14. line[1] = "memory" /\ line[2] = pid /\ line[3] = 1 /\ line[4] = MemEnd
  BY <1>5 DEF MemoryLine
<1>15. Prints(pid, line)
  <2>1. \A q \in Pids : line \notin WasPrinted(q)
    BY <1>11, <1>14 DEF WasPrinted, Printed
  <2>2. line \in WasPrinted(pid)'
    BY <1>2, <1>11, <1>14 DEF WasPrinted, Printed, Parent, MemEnd
  <2>3. ~AfterWait(line)
    BY <1>14 DEF AfterWait
  <2> QED
    BY <1>7, <1>9, <1>12, <2>1, <2>2, <2>3, Zenon DEF Prints
<1>16. WrittenInv'
  BY <1>2, <1>3, <1>13, <1>15, LineWrittenOnce, Zenon
<1>17. PathInv'
  BY <1>1, <1>2, <1>3, <1>8, <1>10, ChildMoves, Zenon
<1>18. ChildSeen'
  <2>1. line = ChildLine
    BY <1>3, <1>5 DEF ChildLine
  <2>2. CASE tty
    <3>1. out' = out \o <<line>> /\ <<line>> \in Seq(Line)
      BY <1>2, <1>7, <2>2, NothingOne DEF Shown
    <3>2. Len(out) + 1 \in DOMAIN out' /\ out'[Len(out) + 1] = ChildLine
      BY <1>2, <2>1, <3>1
    <3>3. Seen'
      BY <3>2 DEF Seen, ChildLine, MemoryLine, MemEnd
    <3> QED
      BY <3>3 DEF ChildSeen
  <2>3. CASE ~tty
    <3>1. proc'[1].buf = Append(proc[1].buf, line) /\ proc[1].buf \in Seq(Line)
      BY <1>2, <1>3, <1>9, <2>3
    <3>2. Len(proc[1].buf) + 1 \in DOMAIN proc'[1].buf /\ proc'[1].buf[Len(proc[1].buf) + 1] = ChildLine
      BY <2>1, <3>1
    <3>3. proc'[1].pc = "exit"
      BY <1>3, <1>9
    <3> QED
      BY <3>2, <3>3 DEF ChildSeen, ChildLine, MemoryLine, MemEnd
  <2> QED
    BY <2>2, <2>3
<1> QED
  BY <1>16, <1>17, <1>18 DEF LinesInv

\* exit writes the buffer.
LEMMA ChildExitWrites ==
  ASSUME ForksInv, ForksInv', LinesInv, NEW pid \in Pids, ChildExit(pid)
  PROVE  LinesInv'
<1>1. /\ UNCHANGED <<program, limit, tty, forks, exitStatus>> /\ proc[pid].pc = "exit" /\ pid # Parent
      /\ UNCHANGED <<program, forks, exitStatus>> /\ UNCHANGED <<program, forks>>
      /\ out' = out \o proc[pid].buf
  BY DEF ChildExit, LeftToWrite
<1>2. /\ RunInv /\ WrittenInv /\ PathInv /\ ChildPath(pid) /\ ChildSeen
      /\ pid \in 1 .. MaxForks /\ pid # Parent /\ proc[pid] \in Process
      /\ proc[pid].tried \in Nat /\ proc \in [Pids -> Process]
      /\ out \in Seq(Line) /\ proc[pid].buf \in Seq(Line)
      /\ (program = "fork" => pid = 1 /\ forks = 1)
  BY <1>1, ChildKnown
<1>3. /\ proc[pid].tried = PerChild /\ RunInv' /\ Alive(pid) /\ PerChild' = PerChild
  <2>1. PerChild' = PerChild
    BY <1>1, Zenon DEF PerChild
  <2> QED
    BY <1>1, <1>2, <2>1 DEF ChildPath, ForksInv, Alive
<1>4. PICK ended \in Process :
        /\ ended = Ended(proc[pid]) /\ ended.pc = "zombie" /\ ended.tried = proc[pid].tried /\ ended.buf = <<>>
  <2>1. Ended(proc[pid]).buf = <<>>
    BY <1>2 DEF Ended, Process
  <2>2. Ended(proc[pid]) \in Process /\ Ended(proc[pid]).pc = "zombie" /\ Ended(proc[pid]).tried = proc[pid].tried
    BY <1>2, EndOf, Zenon
  <2> QED
    BY <2>1, <2>2, Zenon
<1>5. PICK r \in Process :
        /\ r = IF Alive(Parent) THEN ended ELSE [ended EXCEPT !.pc = "gone"]
        /\ r.pc \in {"zombie", "gone"} /\ r.tried = proc[pid].tried /\ r.buf = <<>>
  <2>1. "gone" \in Points
    BY DEF Points
  <2>2. /\ [ended EXCEPT !.pc = "gone"] \in Process /\ [ended EXCEPT !.pc = "gone"].pc = "gone"
        /\ [ended EXCEPT !.pc = "gone"].tried = ended.tried
        /\ [ended EXCEPT !.pc = "gone"].buf = ended.buf
    BY <1>4, <2>1, PcMoved, Zenon
  <2> QED
    BY <1>4, <2>2
<1>6. proc' = [proc EXCEPT ![pid] = r]
  BY <1>4, <1>5, Zenon DEF ChildExit
<1>7. /\ proc'[pid].pc \in {"zombie", "gone"} /\ proc'[pid].tried = proc[pid].tried /\ proc'[pid].buf = <<>>
      /\ OnlyMoves(pid)
  <2>1. proc'[pid] = r /\ OnlyMoves(pid)
    BY <1>2, <1>6, OneProcess DEF OnlyMoves
  <2> QED
    BY <1>5, <2>1
<1>8. ChildPath(pid)'
  BY <1>3, <1>7 DEF ChildPath
<1>9. /\ MemoryLines(pid)' = MemoryLines(pid) /\ MemoryLines(pid) \in Nat /\ FailedLines(pid)' = FailedLines(pid)
  BY <1>1, <1>2, <1>7 DEF MemoryLines, FailedLines, Parent
<1>10. LineCount(pid)' = LineCount(pid)
  BY <1>7, <1>9, Zenon DEF LineCount
<1>11. OthersStay(pid)
  BY <1>1, <1>2, <1>3, <1>7, <1>9, OthersAre
<1>12. \A k \in DOMAIN proc[pid].buf : AfterWait(proc[pid].buf[k]) => Seen
  <2> TAKE k \in DOMAIN proc[pid].buf
  <2>1. proc[pid].buf[k] \in WasPrinted(pid)
    BY <1>2 DEF WrittenInv, LinesPrinted, All
  <2>2. ~AfterWait(proc[pid].buf[k])
    BY <1>1, <2>1 DEF AfterWait, WasPrinted, Printed
  <2> QED
    BY <2>2
<1>13. WrittenInv'
  BY <1>1, <1>2, <1>3, <1>7, <1>10, <1>11, <1>12, BufferWritten, Zenon
<1>14. PathInv'
  BY <1>1, <1>2, <1>3, <1>7, <1>8, ChildMoves, Zenon
<1>15. ChildSeen'
  <2> SUFFICES ASSUME program = "fork"
               PROVE  ChildSeen'
    BY <1>1 DEF ChildSeen
  <2>1. pid = 1 /\ forks = 1
    BY <1>2
  <2>2. Seen \/ \E j \in DOMAIN proc[1].buf : proc[1].buf[j] = ChildLine
    BY <1>1, <1>2, <2>1 DEF ChildSeen
  <2>3. CASE Seen
    <3>1. Seen'
      BY <1>1, <1>2, <2>3, SeenStays, Zenon
    <3> QED
      BY <1>7, <2>1, <3>1 DEF ChildSeen
  <2>4. CASE \E j \in DOMAIN proc[1].buf : proc[1].buf[j] = ChildLine
    <3>1. PICK j \in DOMAIN proc[pid].buf : proc[pid].buf[j] = ChildLine
      BY <2>1, <2>4
    <3>2. Len(out) + j \in DOMAIN out' /\ out'[Len(out) + j] = ChildLine
      BY <1>1, <1>2, <3>1
    <3>3. Seen'
      BY <3>2 DEF Seen, ChildLine, MemoryLine, MemEnd
    <3> QED
      BY <1>7, <2>1, <3>3 DEF ChildSeen
  <2> QED
    BY <2>2, <2>3, <2>4
<1> QED
  BY <1>13, <1>14, <1>15 DEF LinesInv

-----------------------------------------------------------------------------
(* All lines.                                                              *)

LEMMA InitLines ==
  ASSUME ForksInit
  PROVE  LinesInv
<1>1. RunInv /\ Parent \in Pids /\ MaxForks \in Nat /\ Pids = 0 .. MaxForks /\ Parent = 0
  BY InitForks, ForksKnown DEF ForksInv
<1>2. program \in Forking /\ forks = 0 /\ exitStatus = -1 /\ out = <<>>
  BY DEF ForksInit
<1>3. PICK first : first = [NoProcess EXCEPT !.pc = "fork"]
  OBVIOUS
<1>4. /\ NoProcess \in Process /\ NoProcess.pc = "none" /\ NoProcess.tried = 0
      /\ NoProcess.mem = MemStart /\ NoProcess.buf = <<>>
  BY DEF NoProcess, Process, Points, Locals, MemStart
<1>5. /\ first.pc = "fork" /\ first.tried = 0 /\ first.mem = MemStart /\ first.buf = <<>>
  BY <1>3, <1>4, PcMoved, "fork" \in Points DEF Points
<1>6. proc = [pid \in Pids |-> IF pid = Parent THEN first ELSE NoProcess]
  BY <1>3 DEF ForksInit
<1>7. proc[Parent] = first /\ \A pid \in Pids : pid # Parent => proc[pid] = NoProcess
  BY <1>1, <1>6
<1>8. PathInv
  <2>1. \A pid \in 1 .. MaxForks : proc[pid] = NoProcess
    BY <1>1, <1>7
  <2>2. MainPath
    BY <1>1, <1>2, <1>5, <1>7 DEF MainPath
  <2> QED
    BY <1>4, <2>1, <2>2 DEF PathInv, ChildPath
<1>9. \A pid \in Pids : LineCount(pid) = 0 /\ proc[pid].buf = <<>>
  <2> TAKE pid \in Pids
  <2>1. proc[pid].tried = 0 /\ proc[pid].buf = <<>>
    BY <1>4, <1>5, <1>7
  <2>2. MemoryLines(pid) = 0
    BY <1>4, <1>5, <1>7 DEF MemoryLines
  <2>3. FailedLines(pid) = 0
    BY <1>2 DEF FailedLines
  <2> QED
    BY <2>1, <2>2, <2>3 DEF LineCount
<1>10. AllCounted
  <2>1. PICK own : own = Unwritten
    OBVIOUS
  <2>2. own \in [0 .. MaxForks -> Int] /\ \A pid \in 0 .. MaxForks : own[pid] = 0
    <3>1. \A pid \in 0 .. MaxForks : Unwritten[pid] = LineCount(pid) - Len(proc[pid].buf)
      BY DEF Unwritten
    <3>2. \A pid \in 0 .. MaxForks : LineCount(pid) = 0 /\ Len(proc[pid].buf) = 0
      BY <1>1, <1>9
    <3> QED
      BY <1>1, <2>1, <3>1, <3>2, UnwrittenTyped
  <2>3. PICK sum : sum = [pid \in 0 .. MaxForks |-> 0]
    OBVIOUS
  <2>4. Sums(own, MaxForks, sum) /\ sum[MaxForks] = 0
    BY <1>1, <2>2, <2>3 DEF Sums
  <2> QED
    BY <1>2, <2>1, <2>4 DEF AllCounted
<1>11. LinesPrinted /\ OnceEach /\ Ordered(out)
  <2>1. out = <<>> /\ \A pid \in Pids : proc[pid].buf = <<>>
    BY <1>2, <1>9
  <2>2. DOMAIN <<>> = {}
    BY NothingOne, Zenon
  <2> QED
    BY <2>1, <2>2, Zenon DEF LinesPrinted, OnceEach, Ordered, All, Once, Apart
<1>12. ChildSeen
  BY <1>2 DEF ChildSeen
<1> QED
  BY <1>8, <1>10, <1>11, <1>12 DEF LinesInv, WrittenInv

LEMMA StepLines ==
  ASSUME ForksInv, ForksInv', LinesInv, [ForksNext]_forksVars
  PROVE  LinesInv'
<1>1. CASE UNCHANGED forksVars
  <2>1. UNCHANGED <<program, tty, proc, forks, exitStatus, out>>
    BY <1>1, Zenon DEF forksVars
  <2>2. /\ \A pid : MemoryLines(pid)' = MemoryLines(pid) /\ FailedLines(pid)' = FailedLines(pid)
    BY <2>1, Zenon DEF MemoryLines, FailedLines, Parent
  <2>3. \A pid : LineCount(pid)' = LineCount(pid)
    BY <2>1, <2>2, Zenon DEF LineCount
  <2>4. RunInv /\ RunInv' /\ Parent \in Pids /\ WrittenInv
    BY ForksKnown DEF ForksInv, LinesInv
  <2>5. \A q \in Pids : LineCount(q)' = LineCount(q) /\ WasPrinted(q) \subseteq WasPrinted(q)'
    BY <2>1, <2>2, <2>4, LinesStay, Zenon
  <2>6. OthersStay(Parent)
    BY <2>1, <2>5, Zenon DEF OthersStay
  <2>7. WrittenInv'
    BY <2>1, <2>3, <2>4, <2>6, NothingWritten, Zenon
  <2>8. OnlyMoves(Parent) /\ MainPath' /\ (Seen => Seen')
    BY <2>1, Zenon DEF OnlyMoves, MainPath, LinesInv, PathInv, Parent, MemStart, Seen, ChildLine,
                       MemoryLine, MemEnd
  <2> QED
    BY <2>1, <2>7, <2>8, MainEnds, Zenon
<1>2. CASE ForksMain
  BY <1>2, ForkWrites, ForkFailsWrites, ForksDoneWrites, LastThreadWrites, ParentPrintsWrites,
     WaitWrites, MainExitWrites DEF ForksMain
<1>3. ASSUME NEW pid \in Pids, ForksChild(pid)
      PROVE  LinesInv'
  BY <1>3, CreateThreadWrites, ChildPrintsWrites, ChildExitWrites DEF ForksChild
<1> QED
  BY <1>1, <1>2, <1>3 DEF ForksNext

LEMMA LinesInvariance == ForksSafety => [](ForksInv /\ LinesInv)
<1>1. ForksInit => ForksInv /\ LinesInv
  BY InitForks, InitLines
<1>2. ForksInv /\ LinesInv /\ [ForksNext]_forksVars => (ForksInv /\ LinesInv)'
  BY StepForks, StepLines
<1> QED
  BY <1>1, <1>2, PTL DEF ForksSafety

\* What is written at the end: every line of every process.
LEMMA AllWritten ==
  ASSUME ForksInv, LinesInv, AllEnded
  PROVE  Len(out) = IF program = "fork" THEN 1 + 2 * forks
                    ELSE forks * PerChild + (IF program = "allocStacksTest" /\ exitStatus = 0
                                             THEN 1 ELSE exitStatus)
<1>1. /\ RunInv /\ AllCounted /\ MainPath /\ PathInv /\ forks \in Nat /\ PerChild \in Nat
      /\ MaxForks \in Nat /\ Pids = 0 .. MaxForks /\ Parent = 0 /\ forks <= MaxForks
  BY ForksKnown DEF ForksInv, LinesInv, WrittenInv, PathInv
<1>2. PICK sum : Sums(Unwritten, MaxForks, sum) /\ Len(out) = sum[MaxForks]
  BY <1>1 DEF AllCounted
<1>3. PICK own \in [0 .. MaxForks -> Int] : own = Unwritten
  BY <1>1, UnwrittenTyped
<1>4. \A pid \in 0 .. MaxForks : own[pid] = LineCount(pid)
  <2> TAKE pid \in 0 .. MaxForks
  <2>1. proc[pid].buf = <<>>
    <3>1. CASE pid = Parent
      <4>1. proc[Parent].pc = "gone"
        BY <1>1, <3>1 DEF AllEnded, ForksInv, ProcessesInv
      <4> QED
        BY <1>1, <3>1, <4>1 DEF MainPath
    <3>2. CASE pid # Parent
      <4>1. pid \in 1 .. MaxForks /\ proc[pid].pc \in {"none", "gone"}
        BY <1>1, <3>2 DEF AllEnded
      <4> QED
        BY <1>1, <4>1 DEF PathInv, ChildPath
    <3> QED
      BY <3>1, <3>2
  <2>2. own[pid] = LineCount(pid) - Len(proc[pid].buf)
    BY <1>3 DEF Unwritten
  <2> QED
    BY <1>1, <2>1, <2>2, LinesTyped
<1>5. PICK each \in Nat : each = IF program = "fork" THEN 1 ELSE PerChild
  BY <1>1
<1>6. \A pid \in 1 .. MaxForks : own[pid] = IF pid <= forks THEN each ELSE 0
  <2> TAKE pid \in 1 .. MaxForks
  <2>1. pid # Parent /\ pid \in 0 .. MaxForks
    BY <1>1
  <2>2. own[pid] = proc[pid].tried + MemoryLines(pid) + FailedLines(pid) /\ FailedLines(pid) = 0
    BY <1>4, <2>1 DEF LineCount, FailedLines
  <2>3. proc[pid].pc \in {"none", "gone"} /\ ChildPath(pid)
    BY <1>1, <2>1 DEF AllEnded, PathInv
  <2>4. CASE pid <= forks
    <3>1. proc[pid].pc = "gone" /\ proc[pid].tried = PerChild
      <4>1. proc[pid].pc = "gone"
        BY <2>3, <2>4 DEF ForksInv, ProcessesInv
      <4> QED
        BY <2>3, <4>1 DEF ChildPath
    <3>2. program = "fork" => PerChild = 0
      BY DEF PerChild
    <3> QED
      BY <1>1, <1>5, <2>1, <2>2, <2>4, <3>1, <3>2 DEF MemoryLines
  <2>5. CASE ~(pid <= forks)
    <3>1. proc[pid].pc = "none"
      <4>1. pid > forks
        BY <1>1, <2>5
      <4> QED
        BY <4>1 DEF ForksInv, ProcessesInv
    <3>2. proc[pid].tried = 0 /\ MemoryLines(pid) = 0
      BY <2>1, <2>3, <3>1 DEF ChildPath, MemoryLines
    <3> QED
      BY <2>2, <2>5, <3>2
  <2> QED
    BY <2>4, <2>5
<1>7. PICK low : low = [pid \in 0 .. MaxForks |-> own[0] + (IF pid <= forks THEN pid ELSE forks) * each]
  OBVIOUS
<1>8. own[0] \in Int
  BY <1>1
<1>9. low \in [0 .. MaxForks -> Int] /\ low[0] = own[0]
  <2>1. \A pid \in 0 .. MaxForks : own[0] + (IF pid <= forks THEN pid ELSE forks) * each \in Int
    BY <1>1, <1>5, <1>8
  <2>2. low[0] = own[0] + 0 * each
    BY <1>1, <1>7
  <2>3. 0 * each = 0
    BY <1>5
  <2> QED
    BY <1>7, <1>8, <2>1, <2>2, <2>3
<1>10. \A pid \in 1 .. MaxForks : low[pid] = own[pid] + low[pid - 1]
  <2> TAKE pid \in 1 .. MaxForks
  <2>1. /\ low[pid] = own[0] + (IF pid <= forks THEN pid ELSE forks) * each
        /\ low[pid - 1] = own[0] + (IF pid - 1 <= forks THEN pid - 1 ELSE forks) * each
    BY <1>1, <1>7
  <2>2. CASE pid <= forks
    <3>1. PICK before \in Int : before = (pid - 1) * each
      BY <1>1, <1>5
    <3>2. pid * each = before + each
      <4>1. pid * each = (pid - 1) * each + each
        BY <1>1, <1>5
      <4> QED
        BY <3>1, <4>1
    <3>3. low[pid] = own[0] + (before + each) /\ low[pid - 1] = own[0] + before
      BY <1>1, <2>1, <2>2, <3>1, <3>2
    <3> QED
      BY <1>5, <1>6, <1>8, <2>2, <3>1, <3>3
  <2>3. CASE ~(pid <= forks)
    <3>1. PICK all \in Int : all = forks * each
      BY <1>1, <1>5
    <3>2. low[pid] = own[0] + all
      BY <2>1, <2>3, <3>1
    <3>3. low[pid - 1] = own[0] + all
      <4>1. CASE pid - 1 <= forks
        <5>1. pid - 1 = forks
          BY <1>1, <2>3, <4>1
        <5> QED
          BY <2>1, <3>1, <4>1, <5>1
      <4>2. CASE ~(pid - 1 <= forks)
        BY <2>1, <3>1, <4>2
      <4> QED
        BY <4>1, <4>2
    <3> QED
      BY <1>6, <1>8, <2>3, <3>1, <3>2, <3>3
  <2> QED
    BY <2>2, <2>3
<1>11. sum[MaxForks] = low[MaxForks]
  <2>1. \A pid \in 1 .. MaxForks : low[pid] <= own[pid] + low[pid - 1] /\ own[pid] + low[pid - 1] <= low[pid]
    BY <1>9, <1>10
  <2>2. low[0] <= own[0] /\ own[0] <= low[0]
    BY <1>8, <1>9
  <2>3. sum[MaxForks] <= low[MaxForks] /\ low[MaxForks] <= sum[MaxForks]
    BY <1>1, <1>2, <1>3, <1>9, <2>1, <2>2, SumBetween
  <2>4. sum[MaxForks] \in Int /\ low[MaxForks] \in Int
    BY <1>1, <1>2, <1>3, <1>9 DEF Sums
  <2> QED
    BY <2>3, <2>4
<1>12. low[MaxForks] = own[0] + forks * each
  <2>1. (IF MaxForks <= forks THEN MaxForks ELSE forks) = forks
    BY <1>1
  <2>2. MaxForks \in 0 .. MaxForks
    BY <1>1
  <2>3. low[MaxForks] = own[0] + (IF MaxForks <= forks THEN MaxForks ELSE forks) * each
    BY <1>7, <2>2, Zenon
  <2> QED
    BY <2>1, <2>3, Zenon
<1>13. own[0] = proc[Parent].tried + MemoryLines(Parent) + FailedLines(Parent) /\ proc[Parent].pc = "gone"
  <2>1. proc[Parent].pc = "gone"
    BY <1>1 DEF AllEnded, ForksInv, ProcessesInv
  <2> QED
    BY <1>1, <1>4, <2>1 DEF LineCount
<1>14. CASE program = "fork"
  <2>1. own[0] = 1 + forks
    BY <1>1, <1>13, <1>14 DEF MainPath, MemoryLines, FailedLines
  <2> QED
    BY <1>1, <1>2, <1>5, <1>11, <1>12, <1>14, <2>1
<1>15. CASE program # "fork"
  <2>1. exitStatus \in {0, 1}
    BY <1>13, <1>15 DEF ForksInv, RunInv, ForkingInv
  <2>2. own[0] = IF program = "allocStacksTest" /\ exitStatus = 0 THEN 1 ELSE exitStatus
    BY <1>1, <1>13, <1>15, <2>1 DEF MainPath, MemoryLines, FailedLines
  <2>3. PICK all \in Int : all = forks * PerChild
    BY <1>1
  <2> QED
    BY <1>2, <1>5, <1>8, <1>11, <1>12, <1>15, <2>2, <2>3
<1> QED
  BY <1>14, <1>15

\* For every number of children and of threads, every limit, on a terminal or not:
\* every line is written once and none is left out, and the parent's last line in
\* fork.c comes after the child's (pthread/main.c:15-94, fork.c:15-28).
THEOREM LinesStayInOrder == ForksSafety => []LinesInOrder
<1>1. ForksInv /\ LinesInv => LinesInOrder
  <2> SUFFICES ASSUME ForksInv, LinesInv
               PROVE  LinesInOrder
    OBVIOUS
  <2>1. EachLineOnce
    <3>1. Once(out)
      BY DEF LinesInv, WrittenInv, OnceEach
    <3> QED
      BY <3>1, AllWritten DEF EachLineOnce, Once
  <2>2. ParentPrintsLast
    <3> SUFFICES ASSUME NEW k \in DOMAIN out, out[k][1] = "memory", out[k][2] = Parent
                 PROVE  /\ out[k][4] = MemStart
                        /\ out[k][3] = 2 => \E j \in 1 .. k - 1 : out[j] = ChildLine
      BY DEF ParentPrintsLast, MemStart, ChildLine, MemEnd
    <3>1. PICK pid \in Pids : out[k] \in WasPrinted(pid)
      BY DEF LinesInv, WrittenInv, LinesPrinted, All
    <3>2. pid = Parent /\ out[k][4] = MemStart
      BY <3>1 DEF WasPrinted, Printed
    <3>3. out[k][3] = 2 => AfterWait(out[k])
      BY DEF AfterWait
    <3> QED
      BY <3>2, <3>3 DEF LinesInv, WrittenInv, Ordered
  <2> QED
    BY <2>1, <2>2 DEF LinesInOrder
<1> QED
  BY <1>1, LinesInvariance, PTL

-----------------------------------------------------------------------------
(* Vsfs: the words of the bitmaps, and the blocks that balloc finds in one  *)
(* after another.                                                          *)

TwoBuilders == builder \in {"vsfs", "vsfs_0.1"}

\* The word after m blocks were asked for, and the block that is found next: vsfs
\* fails after 32, since the bit 31 has set all above it, and vsfs_0.1 finds the
\* bit behind its word every time.
Word(m) ==
  CASE m <= 31                    -> 0 .. m - 1
    [] m > 31 /\ builder # "vsfs" -> 0 .. 31
    [] m = 32 /\ builder = "vsfs" -> 0 .. 63
    [] m > 32 /\ builder = "vsfs" -> {None} \cup (0 .. 63)

NextBlock(m) == IF m <= 31 THEN m ELSE IF builder = "vsfs" THEN None ELSE 32

\* FirstClear finds the least bit that is clear.
LEMMA FirstClearIs ==
  ASSUME NEW w, NEW n \in Nat, NEW b \in 0 .. n - 1, b \notin w, \A j \in 0 .. b - 1 : j \in w
  PROVE  FirstClear(w, n) = b
<1>1. ~(0 .. n - 1 \subseteq w)
  OBVIOUS
<1> DEFINE Is(k) == k \notin w /\ \A j \in 0 .. k - 1 : j \in w
<1>2. \A k \in 0 .. n - 1 : Is(k) => k = b
  OBVIOUS
<1>3. Is(b)
  OBVIOUS
<1> HIDE DEF Is
<1>4. b = CHOOSE k \in 0 .. n - 1 : Is(k)
  BY <1>2, <1>3
<1> QED
  BY <1>1, <1>4, Zenon DEF FirstClear, Is

LEMMA FirstClearFound ==
  ASSUME NEW w, NEW n \in Nat, FirstClear(w, n) # None
  PROVE  /\ FirstClear(w, n) \in 0 .. n - 1 /\ FirstClear(w, n) \notin w
         /\ \A j \in 0 .. FirstClear(w, n) - 1 : j \in w
<1> DEFINE S == {k \in 0 .. n - 1 : k \notin w}
<1>1. S # {} /\ S \subseteq Nat
  BY DEF FirstClear
<1> HIDE DEF S
<1>2. PICK b \in S : \A k \in S : b <= k
  BY <1>1, LeastElement
<1>3. b \in 0 .. n - 1 /\ b \notin w /\ \A j \in 0 .. b - 1 : j \in w
  BY <1>2 DEF S
<1>4. FirstClear(w, n) = b
  BY <1>3, FirstClearIs
<1> QED
  BY <1>3, <1>4, Zenon

LEMMA NextBlockFound ==
  ASSUME TwoBuilders, NEW m \in Nat
  PROVE  FoundBit(Word(m)) = NextBlock(m) /\ SetBit(Word(m), NextBlock(m)) = Word(m + 1)
<1>1. CASE m <= 30
  <2>1. Word(m) = 0 .. m - 1 /\ Word(m + 1) = 0 .. m /\ NextBlock(m) = m
    BY <1>1 DEF Word, NextBlock
  <2>2. FirstClear(0 .. m - 1, 64) = m /\ FirstClear(0 .. m - 1, 32) = m
    <3>1. m \in 0 .. 64 - 1 /\ m \in 0 .. 32 - 1 /\ m \notin 0 .. m - 1
          /\ \A j \in 0 .. m - 1 : j \in 0 .. m - 1
      BY <1>1
    <3> QED
      BY <3>1, FirstClearIs
  <2>3. ~(0 .. 31 \subseteq 0 .. m - 1) /\ m % 32 = m
    BY <1>1
  <2>4. (0 .. m - 1) \cup {m} = 0 .. m /\ m # 31
    BY <1>1
  <2> QED
    BY <2>1, <2>2, <2>3, <2>4 DEF FoundBit, SetBit, Found64, Found32, SetBit64, SetBit32
<1>2. CASE m = 31
  <2>1. Word(31) = 0 .. 30 /\ Word(32) = (IF builder = "vsfs" THEN 0 .. 63 ELSE 0 .. 31) /\ NextBlock(31) = 31
    BY DEF Word, NextBlock
  <2>2. FirstClear(0 .. 30, 64) = 31 /\ FirstClear(0 .. 30, 32) = 31
    <3>1. 31 \in 0 .. 64 - 1 /\ 31 \in 0 .. 32 - 1 /\ 31 \notin 0 .. 30
          /\ \A j \in 0 .. 31 - 1 : j \in 0 .. 30
      OBVIOUS
    <3> QED
      BY <3>1, FirstClearIs
  <2>3. ~(0 .. 31 \subseteq 0 .. 30) /\ 31 % 32 = 31
    OBVIOUS
  <2>4. (0 .. 30) \cup {31} = 0 .. 31 /\ (0 .. 30) \cup (31 .. 63) = 0 .. 63
    OBVIOUS
  <2> QED
    BY <1>2, <2>1, <2>2, <2>3, <2>4 DEF FoundBit, SetBit, Found64, Found32, SetBit64, SetBit32
<1>3. CASE m > 31 /\ builder = "vsfs"
  <2>1. NextBlock(m) = None /\ Word(m) \in {0 .. 63, {None} \cup (0 .. 63)} /\ Word(m + 1) = {None} \cup (0 .. 63)
    BY <1>3 DEF Word, NextBlock
  <2>2. 0 .. 64 - 1 \subseteq Word(m)
    BY <2>1
  <2>3. Word(m) \cup {None} = Word(m + 1) /\ None # 31
    BY <2>1 DEF None
  <2> QED
    BY <1>3, <2>1, <2>2, <2>3, Zenon DEF FoundBit, SetBit, Found64, SetBit64, FirstClear
<1>4. CASE m > 31 /\ builder # "vsfs"
  <2>1. NextBlock(m) = 32 /\ Word(m) = 0 .. 31 /\ Word(m + 1) = 0 .. 31
    BY <1>4 DEF Word, NextBlock
  <2>2. (0 .. 31) \cup {32 % 32} = 0 .. 31
    OBVIOUS
  <2> QED
    BY <1>4, <2>1, <2>2, Zenon DEF FoundBit, SetBit, Found32, SetBit32
<1> QED
  BY <1>1, <1>2, <1>3, <1>4

\* The words and blocks of one call of balloc after another.
Chain(map, n, f) ==
  f = [k \in 0 .. n |->
        IF k = 0 THEN [map |-> map, addr |-> <<>>]
        ELSE [map  |-> SetBit(f[k - 1].map, FoundBit(f[k - 1].map)),
              addr |-> Append(f[k - 1].addr, FoundBit(f[k - 1].map))]]

After(m, k) == [map |-> Word(m + k), addr |-> [j \in 1 .. k |-> NextBlock(m + j - 1)]]

LEMMA BlocksFollow ==
  ASSUME TwoBuilders, NEW m \in Nat, NEW k \in Nat
  PROVE  /\ SetBit(After(m, k).map, FoundBit(After(m, k).map)) = Word(m + (k + 1))
         /\ Append(After(m, k).addr, FoundBit(After(m, k).map)) = After(m, k + 1).addr
<1>1. After(m, k).map = Word(m + k) /\ After(m, k).addr = [j \in 1 .. k |-> NextBlock(m + j - 1)]
      /\ After(m, k + 1).addr = [j \in 1 .. k + 1 |-> NextBlock(m + j - 1)]
  BY DEF After
<1>2. m + k \in Nat /\ (m + k) + 1 = m + (k + 1)
  OBVIOUS
<1>3. FoundBit(Word(m + k)) = NextBlock(m + k) /\ SetBit(Word(m + k), NextBlock(m + k)) = Word(m + (k + 1))
  BY <1>2, NextBlockFound
<1> DEFINE nb(j) == NextBlock(m + j - 1)
<1>4. nb(k + 1) = NextBlock(m + k)
  <2>1. m + (k + 1) - 1 = m + k
    OBVIOUS
  <2> QED
    BY <2>1
<1> HIDE DEF nb
<1>5. Append([j \in 1 .. k |-> nb(j)], nb(k + 1)) = [j \in 1 .. k + 1 |-> nb(j)]
  OBVIOUS
<1>6. Append(After(m, k).addr, NextBlock(m + k)) = After(m, k + 1).addr
  BY <1>1, <1>4, <1>5, Zenon DEF nb
<1> QED
  BY <1>1, <1>3, <1>6, Zenon

LEMMA ChainIs ==
  ASSUME TwoBuilders, NEW m \in Nat, NEW n \in Nat
  PROVE  Chain(Word(m), n, [k \in 0 .. n |-> After(m, k)])
<1>1. ASSUME NEW k \in 0 .. n, NEW f, f = [j \in 0 .. n |-> After(m, j)]
      PROVE  f[k] = IF k = 0 THEN [map |-> Word(m), addr |-> <<>>]
                    ELSE [map  |-> SetBit(f[k - 1].map, FoundBit(f[k - 1].map)),
                          addr |-> Append(f[k - 1].addr, FoundBit(f[k - 1].map))]
  <2>1. f[k] = After(m, k)
    BY <1>1
  <2>2. CASE k = 0
    <3>1. After(m, 0) = [map |-> Word(m), addr |-> <<>>]
      BY DEF After
    <3> QED
      BY <2>1, <2>2, <3>1
  <2>3. CASE k # 0
    <3>1. PICK q \in Nat : q = k - 1 /\ q \in 0 .. n /\ q + 1 = k
      BY <2>3
    <3>2. f[k - 1] = After(m, q)
      BY <1>1, <3>1
    <3>3. After(m, q + 1) = [map |-> Word(m + (q + 1)), addr |-> After(m, q + 1).addr]
      BY DEF After
    <3>4. /\ SetBit(After(m, q).map, FoundBit(After(m, q).map)) = Word(m + (q + 1))
          /\ Append(After(m, q).addr, FoundBit(After(m, q).map)) = After(m, q + 1).addr
      BY BlocksFollow
    <3> QED
      BY <2>1, <2>3, <3>1, <3>2, <3>3, <3>4, Zenon
  <2> QED
    BY <2>2, <2>3
<1>2. PICK f : f = [j \in 0 .. n |-> After(m, j)]
  OBVIOUS
<1>3. f = [k \in 0 .. n |->
        IF k = 0 THEN [map |-> Word(m), addr |-> <<>>]
        ELSE [map  |-> SetBit(f[k - 1].map, FoundBit(f[k - 1].map)),
              addr |-> Append(f[k - 1].addr, FoundBit(f[k - 1].map))]]
  <2> DEFINE e(k) == IF k = 0 THEN [map |-> Word(m), addr |-> <<>>]
        ELSE [map  |-> SetBit(f[k - 1].map, FoundBit(f[k - 1].map)),
              addr |-> Append(f[k - 1].addr, FoundBit(f[k - 1].map))]
  <2>1. \A k \in 0 .. n : f[k] = e(k)
    BY <1>1, <1>2, Zenon
  <2>2. f = [k \in 0 .. n |-> f[k]]
    BY <1>2
  <2> HIDE DEF e
  <2>3. f = [k \in 0 .. n |-> e(k)]
    BY <2>1, <2>2
  <2> QED
    BY <2>3, Zenon DEF e
<1> QED
  BY <1>2, <1>3, Zenon DEF Chain

LEMMA ChainAt ==
  ASSUME NEW w, NEW n \in Nat, NEW f, Chain(w, n, f), NEW k \in Nat, k + 1 <= n
  PROVE  f[k + 1] = [map  |-> SetBit(f[k].map, FoundBit(f[k].map)),
                     addr |-> Append(f[k].addr, FoundBit(f[k].map))]
<1> DEFINE e(j) == IF j = 0 THEN [map |-> w, addr |-> <<>>]
                   ELSE [map  |-> SetBit(f[j - 1].map, FoundBit(f[j - 1].map)),
                         addr |-> Append(f[j - 1].addr, FoundBit(f[j - 1].map))]
<1>1. f = [j \in 0 .. n |-> e(j)]
  BY Zenon DEF Chain
<1>2. e(k + 1) = [map  |-> SetBit(f[k].map, FoundBit(f[k].map)),
                  addr |-> Append(f[k].addr, FoundBit(f[k].map))]
  <2>1. k + 1 # 0 /\ (k + 1) - 1 = k
    OBVIOUS
  <2> QED
    BY <2>1, Zenon
<1> HIDE DEF e
<1>3. k + 1 \in 0 .. n
  OBVIOUS
<1>4. f[k + 1] = e(k + 1)
  BY <1>1, <1>3, Zenon
<1> QED
  BY <1>2, <1>4, Zenon

\* A chain is what it has to be.
LEMMA ChainUnique ==
  ASSUME NEW w, NEW n \in Nat, NEW f, NEW g, Chain(w, n, f), Chain(w, n, g)
  PROVE  f[n] = g[n]
<1> DEFINE Same == {k \in Nat : k <= n => f[k] = g[k]}
<1>1. 0 \in Same
  <2>1. 0 \in 0 .. n
    OBVIOUS
  <2>2. f[0] = [map |-> w, addr |-> <<>>]
    BY <2>1, Chain(w, n, f), Zenon DEF Chain
  <2>3. g[0] = [map |-> w, addr |-> <<>>]
    BY <2>1, Chain(w, n, g), Zenon DEF Chain
  <2> QED
    BY <2>2, <2>3
<1>2. ASSUME NEW k \in Nat, k \in Same
      PROVE  k + 1 \in Same
  <2> SUFFICES ASSUME k + 1 <= n PROVE f[k + 1] = g[k + 1]
    OBVIOUS
  <2>1. f[k] = g[k]
    BY <1>2
  <2>2. f[k + 1] = [map  |-> SetBit(f[k].map, FoundBit(f[k].map)),
                    addr |-> Append(f[k].addr, FoundBit(f[k].map))]
    BY ChainAt
  <2>3. g[k + 1] = [map  |-> SetBit(g[k].map, FoundBit(g[k].map)),
                    addr |-> Append(g[k].addr, FoundBit(g[k].map))]
    BY ChainAt
  <2> QED
    BY <2>1, <2>2, <2>3, Zenon
<1> HIDE DEF Same
<1>3. n \in Same
  BY <1>1, <1>2, Induction
<1> QED
  BY <1>3 DEF Same

\* The word and the blocks after n calls of balloc.
LEMMA AllocatedIs ==
  ASSUME TwoBuilders, NEW m \in Nat, NEW n \in Nat
  PROVE  Allocated(Word(m), n) = After(m, n)
<1> DEFINE g == CHOOSE f : Chain(Word(m), n, f)
<1>1. Chain(Word(m), n, [k \in 0 .. n |-> After(m, k)])
  BY ChainIs
<1>2. Chain(Word(m), n, g)
  BY <1>1, Zenon
<1>3. Allocated(Word(m), n) = g[n]
  BY Zenon DEF Allocated, Chain
<1> HIDE DEF g
<1>4. g[n] = [k \in 0 .. n |-> After(m, k)][n]
  BY <1>1, <1>2, ChainUnique
<1>5. [k \in 0 .. n |-> After(m, k)][n] = After(m, n)
  OBVIOUS
<1> QED
  BY <1>3, <1>4, <1>5, Zenon
-----------------------------------------------------------------------------
(* Vsfs: how long a builder finds a text.                                  *)

Strlen(size, k) == IF builder = "vsfs" THEN Strlen64(size, k) ELSE Strlen32(size, k)

Counting(size, k, sum) ==
  sum = [j \in 0 .. k |-> IF j = 0 THEN 0
           ELSE sum[j - 1] + IF builder = "vsfs" THEN Strlen64(size, j) ELSE Strlen32(size, j)]

LEMMA StrlenIsNat ==
  ASSUME NEW size \in Nat, NEW k \in Nat
  PROVE  Got(size, k) \in 0 .. BSIZE /\ Strlen(size, k) \in Nat
<1>1. ASSUME NEW j \in Nat
      PROVE  Got(size, j) \in 0 .. BSIZE
  BY DEF Got, BSIZE
<1>0. BSIZE \in Nat /\ 0 .. BSIZE \subseteq Nat
  BY DEF BSIZE
<1>2. Got(size, 1) \in Nat /\ Got(size, 2) \in Nat
  <2>1. 1 \in Nat /\ 2 \in Nat
    OBVIOUS
  <2>2. Got(size, 1) \in 0 .. BSIZE /\ Got(size, 2) \in 0 .. BSIZE
    BY <1>1, <2>1, Zenon
  <2> QED
    BY <1>0, <2>2
<1>3. Strlen64(size, k) \in Nat /\ Strlen32(size, k) \in Nat
  BY <1>0, <1>2 DEF Strlen64, Strlen32
<1> QED
  BY <1>1, <1>3 DEF Strlen

LEMMA CountingExists ==
  ASSUME NEW size \in Nat, NEW k \in Nat
  PROVE  \E sum : Counting(size, k, sum)
<1> DEFINE own == [j \in 0 .. k |-> IF j = 0 THEN 0 ELSE Strlen(size, j)]
<1>1. own \in [0 .. k -> Int]
  BY StrlenIsNat
<1>2. \A j \in 0 .. k : own[j] = IF j = 0 THEN 0 ELSE Strlen(size, j)
  OBVIOUS
<1> HIDE DEF own
<1>3. PICK sum : sum = [j \in 0 .. k |-> IF j = 0 THEN own[j] ELSE own[j] + sum[j - 1]]
  BY <1>1, SumsExist
<1>4. Sums(own, k, sum)
  BY <1>1, <1>3, SumsAre
<1>5. ASSUME NEW j \in 0 .. k
      PROVE  sum[j] = IF j = 0 THEN 0 ELSE sum[j - 1] + Strlen(size, j)
  <2>1. CASE j = 0
    BY <1>2, <1>4, <2>1 DEF Sums
  <2>2. CASE j # 0
    <3>1. j \in 1 .. k /\ j - 1 \in 0 .. k
      BY <2>2
    <3>2. sum[j] = own[j] + sum[j - 1] /\ sum[j - 1] \in Int /\ own[j] \in Int /\ own[j] = Strlen(size, j)
      BY <1>1, <1>2, <1>4, <2>2, <3>1 DEF Sums
    <3> QED
      BY <2>2, <3>2
  <2> QED
    BY <2>1, <2>2
<1> DEFINE e(j) == IF j = 0 THEN 0 ELSE sum[j - 1] + Strlen(size, j)
<1>6. \A j \in 0 .. k : sum[j] = e(j)
  BY <1>5, Zenon
<1>7. sum = [j \in 0 .. k |-> sum[j]]
  BY <1>4 DEF Sums
<1> HIDE DEF e
<1>8. sum = [j \in 0 .. k |-> e(j)]
  BY <1>6, <1>7
<1>9. Counting(size, k, sum)
  BY <1>8, Zenon DEF Counting, e, Strlen
<1> QED
  BY <1>9, Zenon

LEMMA CountingAt ==
  ASSUME NEW size \in Nat, NEW k \in Nat, NEW sum, Counting(size, k, sum)
  PROVE  sum[0] = 0 /\ \A j \in 1 .. k : sum[j] = sum[j - 1] + Strlen(size, j)
<1> DEFINE e(j) == IF j = 0 THEN 0 ELSE sum[j - 1] + Strlen(size, j)
<1>1. sum = [j \in 0 .. k |-> e(j)]
  BY Zenon DEF Counting, Strlen
<1>2. e(0) = 0 /\ \A j \in 1 .. k : e(j) = sum[j - 1] + Strlen(size, j)
  OBVIOUS
<1> HIDE DEF e
<1>3. 0 \in 0 .. k /\ \A j \in 1 .. k : j \in 0 .. k
  OBVIOUS
<1> QED
  BY <1>1, <1>2, <1>3, Zenon

\* What a text is counted is a number; a first read is counted as it is, and a
\* second as vsfs and vsfs_0.1 find it.
LEMMA CountedIs ==
  ASSUME NEW size \in Nat
  PROVE  /\ \A k \in Nat : CountedAfter(size, k) \in Nat
         /\ CountedAfter(size, 0) = 0 /\ CountedAfter(size, 1) = Got(size, 1)
         /\ builder # "vsfs" => CountedAfter(size, 2) = Got(size, 1) + (BSIZE + Got(size, 2))
<1>1. ASSUME NEW k \in Nat
      PROVE  \E sum : Counting(size, k, sum) /\ CountedAfter(size, k) = sum[k]
  <2> DEFINE g == CHOOSE sum : Counting(size, k, sum)
  <2>1. Counting(size, k, g)
    BY CountingExists, Zenon
  <2>2. CountedAfter(size, k) = g[k]
    BY Zenon DEF CountedAfter, Counting
  <2> QED
    BY <2>1, <2>2, Zenon
<1>2. ASSUME NEW k \in Nat
      PROVE  CountedAfter(size, k) \in Nat
  <2>1. PICK sum : Counting(size, k, sum) /\ CountedAfter(size, k) = sum[k]
    BY <1>1
  <2>2. sum[0] = 0 /\ \A j \in 1 .. k : sum[j] = sum[j - 1] + Strlen(size, j)
    BY <2>1, CountingAt
  <2> DEFINE Good == {j \in Nat : j <= k => sum[j] \in Nat}
  <2>3. 0 \in Good
    BY <2>2
  <2>4. ASSUME NEW j \in Nat, j \in Good
        PROVE  j + 1 \in Good
    <3> SUFFICES ASSUME j + 1 <= k PROVE sum[j + 1] \in Nat
      OBVIOUS
    <3>1. j + 1 \in 1 .. k /\ (j + 1) - 1 = j /\ sum[j] \in Nat
      BY <2>4
    <3>2. sum[j + 1] = sum[j] + Strlen(size, j + 1)
      BY <2>2, <3>1
    <3>3. Strlen(size, j + 1) \in Nat
      <4>1. j + 1 \in Nat
        OBVIOUS
      <4> QED
        BY <4>1, StrlenIsNat, Zenon
    <3> QED
      BY <3>1, <3>2, <3>3
  <2> HIDE DEF Good
  <2>5. k \in Good
    BY <2>3, <2>4, Induction
  <2> QED
    BY <2>1, <2>5 DEF Good
<1>3. CountedAfter(size, 0) = 0
  <2>1. PICK sum : Counting(size, 0, sum) /\ CountedAfter(size, 0) = sum[0]
    BY <1>1
  <2> QED
    BY <2>1, CountingAt
<1>4. CountedAfter(size, 1) = Got(size, 1)
  <2>1. PICK sum : Counting(size, 1, sum) /\ CountedAfter(size, 1) = sum[1]
    BY <1>1
  <2>2. sum[0] = 0 /\ sum[1] = sum[0] + Strlen(size, 1)
    <3>1. sum[0] = 0 /\ \A j \in 1 .. 1 : sum[j] = sum[j - 1] + Strlen(size, j)
      BY <2>1, CountingAt
    <3> QED
      BY <3>1
  <2>3. Strlen(size, 1) = Got(size, 1)
    BY DEF Strlen, Strlen64, Strlen32
  <2>4. Strlen(size, 1) \in Nat
    BY StrlenIsNat
  <2> QED
    BY <2>1, <2>2, <2>3, <2>4
<1>5. ASSUME builder # "vsfs"
      PROVE  CountedAfter(size, 2) = Got(size, 1) + (BSIZE + Got(size, 2))
  <2>1. PICK sum : Counting(size, 2, sum) /\ CountedAfter(size, 2) = sum[2]
    BY <1>1
  <2>2. sum[0] = 0 /\ sum[1] = sum[0] + Strlen(size, 1) /\ sum[2] = sum[1] + Strlen(size, 2)
    <3>1. sum[0] = 0 /\ \A j \in 1 .. 2 : sum[j] = sum[j - 1] + Strlen(size, j)
      BY <2>1, CountingAt
    <3> QED
      BY <3>1
  <2>3. Strlen(size, 1) = Got(size, 1) /\ Strlen(size, 2) = BSIZE + Got(size, 2)
    BY <1>5 DEF Strlen, Strlen32
  <2>4. Strlen(size, 1) \in Nat
    BY StrlenIsNat
  <2> QED
    BY <2>1, <2>2, <2>3, <2>4
<1> QED
  BY <1>2, <1>3, <1>4, <1>5
-----------------------------------------------------------------------------
(* Vsfs: what a file takes and leaves.                                     *)

NewBlocks(m, n) == [k \in 1 .. n |-> NextBlock(m + k - 1)]

\* The blocks that may be a file's after m were asked for.
Given(m) ==
  {b \in 0 .. 32 : IF b = 32 THEN builder # "vsfs"
                   ELSE b < m /\ (builder = "vsfs" => b >= NDIRECT)}

\* The entries that were written over.
Lost == IF builder = "vsfs" /\ filecnt > 1 THEN 1 ELSE 0

RunsInv ==
  /\ builder \in Builders /\ argv \in CommandLines /\ filecnt \in 0 .. Len(argv)
  /\ vsfsPc \in {"root", "files", "written", "abort", "overrun"}

\* The first file takes the inode 0, and no file one that another has but 32.
NumbersInv ==
  /\ ibmap \subseteq 0 .. (IF builder = "vsfs" THEN 63 ELSE 31)
  /\ DOMAIN dinode \subseteq ibmap \cup {32}
  /\ builder = "vsfs" => DOMAIN dinode \subseteq ibmap
  /\ filecnt = 0 => /\ DOMAIN dinode = {} /\ 0 \notin ibmap
                    /\ entries = <<>>
  /\ filecnt > 0 => 0 \in ibmap /\ vsfsPc # "root"
  /\ vsfsPc = "root" => dbmap = {}

AddressesIn(m) ==
  \A ino \in DOMAIN dinode :
    /\ dinode[ino].addr \in Seq(Int) /\ Len(dinode[ino].addr) <= NDIRECT
    /\ \A k \in DOMAIN dinode[ino].addr : dinode[ino].addr[k] \in Given(m) \cap DOMAIN stored

\* Two lists of addresses, or one, have no block twice but the one behind the word.
Distinct(addr1, addr2, same) ==
  \A k \in DOMAIN addr1, l \in DOMAIN addr2 :
    addr1[k] = addr2[l] => (same /\ k = l) \/ addr1[k] = 32

AddressesOwn ==
  \A ino, jno \in DOMAIN dinode : Distinct(dinode[ino].addr, dinode[jno].addr, ino = jno)

\* After m calls of balloc.
Asked(m) ==
  /\ dbmap = Word(m) /\ AddressesIn(m)
  /\ builder = "vsfs" => m <= 32 /\ (vsfsPc # "root" => m >= NDIRECT)

BlocksInv == (\E m \in Nat : Asked(m)) /\ AddressesOwn

EntryFinds(k) ==
  \E ino \in DOMAIN dinode :
    /\ InumOf(ino) = entries[k].inum
    /\ dinode[ino].file = entries[k].file \/ (ino = 32 /\ builder # "vsfs")

\* One entry for each file but the one that was written over.
EntriesInv ==
  /\ entries \in Seq([file : Nat, inum : Nat]) /\ Len(entries) <= DirentPlaces
  /\ Len(entries) = filecnt - Lost
  /\ \A k \in DOMAIN entries :
       /\ entries[k].file = k + Lost
       /\ entries[k].inum = 0 <=> builder = "vsfs" /\ filecnt = 1
       /\ EntryFinds(k)

TextsInv ==
  /\ \A ino \in DOMAIN dinode : dinode[ino].file \in 1 .. filecnt
  /\ TextsAreStored

VsfsInv == RunsInv /\ NumbersInv /\ BlocksInv /\ EntriesInv /\ TextsInv

LEMMA RunsTwo == RunsInv => TwoBuilders
  BY VsfsAssumption DEF RunsInv, TwoBuilders

\* The inode that is found is nobody's, or the one behind the word.
LEMMA FoundInode ==
  ASSUME TwoBuilders, NumbersInv, filecnt \in Nat, vsfsPc = "files", FoundBit(ibmap) # None
  PROVE  /\ FoundBit(ibmap) \in 0 .. (IF builder = "vsfs" THEN 63 ELSE 32)
         /\ FoundBit(ibmap) \notin ibmap
         /\ FoundBit(ibmap) = 0 <=> filecnt = 0
<1>1. CASE builder = "vsfs"
  <2>1. FoundBit(ibmap) = FirstClear(ibmap, 64)
    BY <1>1 DEF FoundBit, Found64
  <2>2. FirstClear(ibmap, 64) \in 0 .. 64 - 1 /\ FirstClear(ibmap, 64) \notin ibmap
        /\ \A j \in 0 .. FirstClear(ibmap, 64) - 1 : j \in ibmap
    BY <2>1, FirstClearFound
  <2>3. PICK b : b = FirstClear(ibmap, 64)
    OBVIOUS
  <2>4. b \in 0 .. 63 /\ b \notin ibmap /\ (b = 0 <=> filecnt = 0)
    <3>1. b \in 0 .. 64 - 1 /\ b \notin ibmap /\ \A j \in 0 .. b - 1 : j \in ibmap
      BY <2>2, <2>3, Zenon
    <3>2. filecnt = 0 => 0 \notin ibmap
      BY Zenon DEF NumbersInv
    <3>3. filecnt > 0 => 0 \in ibmap
      BY Zenon DEF NumbersInv
    <3> QED
      BY ONLY <3>1, <3>2, <3>3, filecnt \in Nat
  <2> QED
    BY <1>1, <2>1, <2>3, <2>4, Zenon
<1>2. CASE builder # "vsfs" /\ 0 .. 31 \subseteq ibmap
  <2>1. FoundBit(ibmap) = 32 /\ 32 \notin ibmap /\ 0 \in ibmap
    BY <1>2 DEF FoundBit, Found32, NumbersInv
  <2> QED
    BY <1>2, <2>1 DEF NumbersInv
<1>3. CASE builder # "vsfs" /\ ~(0 .. 31 \subseteq ibmap)
  <2>1. FoundBit(ibmap) = FirstClear(ibmap, 32)
    BY <1>3 DEF FoundBit, Found32
  <2>2. FirstClear(ibmap, 32) \in 0 .. 32 - 1 /\ FirstClear(ibmap, 32) \notin ibmap
        /\ \A j \in 0 .. FirstClear(ibmap, 32) - 1 : j \in ibmap
    BY <2>1, FirstClearFound
  <2>3. PICK b : b = FirstClear(ibmap, 32)
    OBVIOUS
  <2>4. b \in 0 .. 32 /\ b \notin ibmap /\ (b = 0 <=> filecnt = 0)
    <3>1. b \in 0 .. 32 - 1 /\ b \notin ibmap /\ \A j \in 0 .. b - 1 : j \in ibmap
      BY <2>2, <2>3, Zenon
    <3>2. filecnt = 0 => 0 \notin ibmap
      BY Zenon DEF NumbersInv
    <3>3. filecnt > 0 => 0 \in ibmap
      BY Zenon DEF NumbersInv
    <3> QED
      BY ONLY <3>1, <3>2, <3>3, filecnt \in Nat
  <2> QED
    BY <1>3, <2>1, <2>3, <2>4, Zenon
<1> QED
  BY <1>1, <1>2, <1>3

LEMMA SizeIsNat ==
  ASSUME NEW f \in File, f.size # NoFile, NEW size \in CountedSizes(f)
  PROVE  f.size \in Nat /\ size \in Nat
<1>1. f.size \in Nat
  BY DEF File
<1>2. Reads(f.size) \in Nat
  BY <1>1 DEF Reads, BSIZE
<1>3. CountedAfter(f.size, Reads(f.size)) \in Nat
  BY <1>1, <1>2, CountedIs
<1>4. BinaryCounts \subseteq Nat
  BY VsfsAssumption
<1> QED
  BY <1>1, <1>3, <1>4 DEF CountedSizes

LEMMA BlocksBound ==
  ASSUME NEW size \in Nat, ~(size >= MAXFSIZE)
  PROVE  BlocksRequired(size) \in 0 .. NDIRECT
  BY DEF BlocksRequired, MAXFSIZE, BSIZE, NDIRECT

\* The blocks that a file gets are all there.
LEMMA NoBlockFails ==
  ASSUME TwoBuilders, NEW m \in Nat, dbmap = Word(m), NEW f, NEW size \in Nat, ~Fails(f, size)
  PROVE  /\ BlocksRequired(size) \in 0 .. NDIRECT
         /\ Allocated(dbmap, BlocksRequired(size)) = After(m, BlocksRequired(size))
         /\ \A k \in 1 .. BlocksRequired(size) : NextBlock(m + k - 1) # None
         /\ FoundBit(ibmap) # None
<1>1. BlocksRequired(size) \in 0 .. NDIRECT
  BY BlocksBound DEF Fails
<1>2. PICK n \in Nat : n = BlocksRequired(size)
  BY <1>1 DEF NDIRECT
<1>3. Allocated(dbmap, n) = After(m, n)
  BY AllocatedIs
<1>4. After(m, n).addr = NewBlocks(m, n)
  BY DEF After, NewBlocks
<1>5. \A k \in 1 .. n : NewBlocks(m, n)[k] # None
  BY <1>2, <1>3, <1>4, Zenon DEF Fails
<1>6. \A k \in 1 .. n : NewBlocks(m, n)[k] = NextBlock(m + k - 1)
  BY DEF NewBlocks
<1> QED
  BY <1>1, <1>2, <1>3, <1>5, <1>6, Zenon DEF Fails

\* They are new, but for the one behind the word of vsfs_0.1.
LEMMA NewAreGiven ==
  ASSUME TwoBuilders, NEW m \in Nat, NEW n \in 0 .. NDIRECT,
         builder = "vsfs" => m <= 32 /\ m >= NDIRECT,
         \A k \in 1 .. n : NextBlock(m + k - 1) # None
  PROVE  /\ builder = "vsfs" => m + n <= 32
         /\ Given(m) \subseteq Given(m + n)
         /\ \A k \in 1 .. n : /\ NextBlock(m + k - 1) \in Given(m + n)
                              /\ NextBlock(m + k - 1) # 32 => NextBlock(m + k - 1) = m + k - 1
                              /\ NextBlock(m + k - 1) \notin Given(m) \/ NextBlock(m + k - 1) = 32
<1>0. n \in Nat /\ NDIRECT \in Nat /\ NDIRECT <= 31
  BY DEF NDIRECT
<1>1. ASSUME NEW k \in 1 .. n
      PROVE  \/ NextBlock(m + k - 1) = m + k - 1 /\ m + k - 1 <= 31
             \/ NextBlock(m + k - 1) = 32 /\ builder # "vsfs" /\ m + k - 1 > 31
  <2>1. NextBlock(m + k - 1) # None
    BY <1>1
  <2>2. PICK q \in Int : q = m + k - 1
    BY <1>0
  <2>3. NextBlock(q) # None
    BY <2>1, <2>2
  <2>4. q <= 31 => NextBlock(q) = q
    BY DEF NextBlock
  <2>5. ~(q <= 31) => NextBlock(q) = 32 /\ builder # "vsfs" /\ q > 31
    BY ONLY <2>3, q \in Int DEF NextBlock
  <2> QED
    BY <2>2, <2>4, <2>5, Zenon
<1>2. builder = "vsfs" => m + n <= 32
  <2>1. CASE n = 0
    BY <2>1
  <2>2. CASE n # 0
    <3>1. n \in 1 .. n
      BY <1>0, <2>2
    <3> QED
      BY <1>0, <1>1, <3>1
  <2> QED
    BY <2>1, <2>2
<1>3. Given(m) \subseteq Given(m + n)
  BY <1>0 DEF Given
<1>4. ASSUME NEW k \in 1 .. n
      PROVE  /\ NextBlock(m + k - 1) \in Given(m + n)
             /\ NextBlock(m + k - 1) # 32 => NextBlock(m + k - 1) = m + k - 1
             /\ NextBlock(m + k - 1) \notin Given(m) \/ NextBlock(m + k - 1) = 32
  <2>1. PICK b : b = NextBlock(m + k - 1)
    OBVIOUS
  <2>2. \/ b = m + k - 1 /\ m + k - 1 <= 31
        \/ b = 32 /\ builder # "vsfs" /\ m + k - 1 > 31
    BY <1>1, <2>1
  <2>3. k \in Nat /\ 1 <= k /\ k <= n
    BY <1>0
  <2>4. b \in 0 .. 32 /\ (IF b = 32 THEN builder # "vsfs" ELSE b < m + n /\ (builder = "vsfs" => b >= NDIRECT))
    BY ONLY <1>0, <2>2, <2>3, m \in Nat, builder = "vsfs" => m <= 32 /\ m >= NDIRECT
  <2>5. b < m => b = 32
    BY <1>0, <2>2, <2>3
  <2>6. b \in Given(m + n) /\ (b \notin Given(m) \/ b = 32)
    BY <2>4, <2>5, Zenon DEF Given
  <2> QED
    BY <2>1, <2>2, <2>6
<1> QED
  BY <1>2, <1>3, <1>4

\* What balloc gives out where none of its calls fails.
Room(m) == builder = "vsfs" => m <= 32 /\ m >= NDIRECT

NoneFails(m, n) == \A k \in 1 .. n : NextBlock(m + k - 1) # None

AnewGiven(m, n, addr) ==
  /\ builder = "vsfs" => m + n <= 32
  /\ Given(m) \subseteq Given(m + n)
  /\ \A k \in 1 .. n : /\ addr[k] \in Given(m + n)
                       /\ addr[k] # 32 => addr[k] = m + k - 1
                       /\ addr[k] \notin Given(m) \/ addr[k] = 32

\* The same of the list of addresses.
LEMMA NewBlocksGiven ==
  ASSUME TwoBuilders, NEW m \in Nat, NEW n \in 0 .. NDIRECT, Room(m), NoneFails(m, n)
  PROVE  AnewGiven(m, n, NewBlocks(m, n))
<1>1. \A k \in 1 .. n : NewBlocks(m, n)[k] = NextBlock(m + k - 1)
  BY DEF NewBlocks
<1>2. builder = "vsfs" => m <= 32 /\ m >= NDIRECT
  BY DEF Room
<1>3. \A k \in 1 .. n : NextBlock(m + k - 1) # None
  BY DEF NoneFails
<1>4. /\ builder = "vsfs" => m + n <= 32
      /\ Given(m) \subseteq Given(m + n)
  BY <1>2, <1>3, NewAreGiven
<1>5. \A k \in 1 .. n : /\ NextBlock(m + k - 1) \in Given(m + n)
                        /\ NextBlock(m + k - 1) # 32 => NextBlock(m + k - 1) = m + k - 1
                        /\ NextBlock(m + k - 1) \notin Given(m) \/ NextBlock(m + k - 1) = 32
  BY <1>2, <1>3, NewAreGiven
<1> QED
  BY <1>1, <1>4, <1>5, Zenon DEF AnewGiven

-----------------------------------------------------------------------------
(* Vsfs: a file that is stored.                                            *)

\* The blocks when those of addr are written, the last of equal ones last.
Rewritten(addr, f) ==
  [b \in DOMAIN stored \cup {addr[k] : k \in DOMAIN addr} |->
     LET here == {k \in DOMAIN addr : addr[k] = b}
         last == CHOOSE k \in here : \A j \in here : j <= k
     IN  IF here = {} THEN stored[b] ELSE [file |-> filecnt + 1, read |-> Copied(f.size, last)]]

WithInode(bit, size, addr) ==
  [ino \in DOMAIN dinode \cup {bit} |->
     IF ino = bit THEN [file |-> filecnt + 1, size |-> size, addr |-> addr] ELSE dinode[ino]]

\* The n blocks behind m others.
InARow(addr, n, m) ==
  DOMAIN addr = 1 .. n /\ \A k \in 1 .. n : addr[k] # 32 => addr[k] = m + k - 1

AreWritten(st, addr, n, f) ==
  /\ \A b \in DOMAIN stored : (\A k \in 1 .. n : addr[k] # b) => st[b] = stored[b]
  /\ \A k \in 1 .. n : addr[k] # 32 => st[addr[k]] = [file |-> filecnt + 1, read |-> Copied(f.size, k)]

LEMMA RewrittenIs ==
  ASSUME NEW n \in Nat, NEW addr, NEW f, NEW m \in Nat, InARow(addr, n, m)
  PROVE  AreWritten(Rewritten(addr, f), addr, n, f)
<1>0. DOMAIN addr = 1 .. n /\ \A k \in 1 .. n : addr[k] # 32 => addr[k] = m + k - 1
  BY DEF InARow
<1> DEFINE here(b) == {k \in DOMAIN addr : addr[k] = b}
           last(b) == CHOOSE k \in here(b) : \A j \in here(b) : j <= k
           new(b)  == IF here(b) = {} THEN stored[b]
                      ELSE [file |-> filecnt + 1, read |-> Copied(f.size, last(b))]
<1>1. Rewritten(addr, f) = [b \in DOMAIN stored \cup {addr[k] : k \in DOMAIN addr} |-> new(b)]
  BY Zenon DEF Rewritten
<1>2. ASSUME NEW k \in 1 .. n, addr[k] # 32
      PROVE  new(addr[k]) = [file |-> filecnt + 1, read |-> Copied(f.size, k)]
  <2>1. \A q \in 1 .. n : addr[q] = addr[k] => q = k
    <3>1. ASSUME NEW q \in 1 .. n, addr[q] = addr[k]
          PROVE  q = k
      <4>1. m + q - 1 = m + k - 1
        BY <1>0, <1>2, <3>1, Zenon
      <4>2. q \in Int /\ k \in Int
        OBVIOUS
      <4> QED
        BY ONLY <4>1, <4>2, m \in Nat
    <3> QED
      BY <3>1
  <2>2. here(addr[k]) = {k}
    BY <1>0, <2>1
  <2>3. last(addr[k]) = k
    <3>1. \A j \in {k} : j <= k
      OBVIOUS
    <3>2. \A x \in {k} : x = k
      OBVIOUS
    <3> HIDE DEF here
    <3> QED
      BY <2>2, <3>1, <3>2
  <2> HIDE DEF here, last
  <2> QED
    BY <2>2, <2>3
<1>3. ASSUME NEW b \in DOMAIN stored, \A k \in 1 .. n : addr[k] # b
      PROVE  new(b) = stored[b]
  <2>1. here(b) = {}
    BY <1>0, <1>3
  <2> HIDE DEF here, last
  <2> QED
    BY <2>1
<1> HIDE DEF new
<1>4. DOMAIN Rewritten(addr, f) = DOMAIN stored \cup {addr[k] : k \in 1 .. n}
  <2>1. DOMAIN Rewritten(addr, f) = DOMAIN stored \cup {addr[k] : k \in DOMAIN addr}
    BY <1>1
  <2> QED
    BY <1>0, <2>1, Zenon
<1>5. \A b \in DOMAIN Rewritten(addr, f) : Rewritten(addr, f)[b] = new(b)
  BY <1>1
<1>6. \A k \in 1 .. n : addr[k] \in DOMAIN Rewritten(addr, f)
  BY <1>4
<1>7. DOMAIN stored \subseteq DOMAIN Rewritten(addr, f)
  BY <1>4
<1> QED
  BY <1>2, <1>3, <1>5, <1>6, <1>7, Zenon DEF AreWritten

\* What Store leaves of the image.
StoredAre(m, n, f, size) ==
  /\ dbmap' = Word(m + n)
  /\ dinode' = WithInode(FoundBit(ibmap), size, NewBlocks(m, n))
  /\ stored' = Rewritten(NewBlocks(m, n), f)

LEMMA StoreIs ==
  ASSUME TwoBuilders, NEW m \in Nat, dbmap = Word(m), NEW f, NEW size \in Nat,
         ~Fails(f, size), Store(f, size)
  PROVE  StoredAre(m, BlocksRequired(size), f, size)
<1> DEFINE n == BlocksRequired(size)
<1>1. Allocated(dbmap, n) = After(m, n)
  BY NoBlockFails
<1>2. After(m, n).map = Word(m + n) /\ After(m, n).addr = NewBlocks(m, n)
  BY DEF After, NewBlocks
<1>3. Allocated(dbmap, n).map = Word(m + n) /\ Allocated(dbmap, n).addr = NewBlocks(m, n)
  BY <1>1, <1>2, Zenon
<1>4. /\ dbmap' = Allocated(dbmap, n).map
      /\ dinode' = WithInode(FoundBit(ibmap), size, Allocated(dbmap, n).addr)
      /\ stored' = Rewritten(Allocated(dbmap, n).addr, f)
  BY Zenon DEF Store, WithInode, Rewritten
<1> HIDE DEF n
<1>5. StoredAre(m, n, f, size)
  BY <1>3, <1>4, Zenon DEF StoredAre
<1> QED
  BY <1>5, Zenon DEF n

\* Addresses stay a file's own.
LEMMA StoreKeepsBlocks ==
  ASSUME TwoBuilders, NEW m \in Nat, Asked(m), AddressesOwn, vsfsPc = "files",
         NEW f, NEW size \in Nat, ~Fails(f, size), Store(f, size),
         FoundBit(ibmap) \in DOMAIN dinode => FoundBit(ibmap) = 32
  PROVE  BlocksInv'
<1>1. builder = "vsfs" => m <= 32 /\ m >= NDIRECT
  BY Zenon DEF Asked
<1>2. PICK n : n = BlocksRequired(size)
  OBVIOUS
<1>3. n \in 0 .. NDIRECT /\ \A k \in 1 .. n : NextBlock(m + k - 1) # None
  BY <1>2, NoBlockFails DEF Asked
<1>4. n \in Nat /\ NDIRECT \in Nat /\ m + n \in Nat /\ m <= m + n
  BY <1>3 DEF NDIRECT
<1>5. PICK addr : addr = NewBlocks(m, n)
  OBVIOUS
<1>6. DOMAIN addr = 1 .. n /\ \A k \in 1 .. n : addr[k] = NextBlock(m + k - 1)
  BY <1>5 DEF NewBlocks
<1>7. /\ builder = "vsfs" => m + n <= 32
      /\ Given(m) \subseteq Given(m + n)
      /\ \A k \in 1 .. n : /\ addr[k] \in Given(m + n)
                           /\ addr[k] # 32 => addr[k] = m + k - 1
                           /\ addr[k] \notin Given(m) \/ addr[k] = 32
  <2>1. Room(m) /\ NoneFails(m, n)
    BY <1>1, <1>3, Zenon DEF Room, NoneFails
  <2>2. AnewGiven(m, n, addr)
    BY <1>3, <1>5, <2>1, NewBlocksGiven, Zenon
  <2> QED
    BY <2>2, Zenon DEF AnewGiven
<1>8. PICK bit : bit = FoundBit(ibmap)
  OBVIOUS
<1>9. /\ dbmap' = Word(m + n)
      /\ dinode' = WithInode(bit, size, addr)
      /\ DOMAIN stored' = DOMAIN stored \cup {addr[k] : k \in 1 .. n}
  <2>1. dbmap = Word(m)
    BY DEF Asked
  <2>2. StoredAre(m, n, f, size)
    BY <1>2, <2>1, StoreIs
  <2>3. dbmap' = Word(m + n) /\ dinode' = WithInode(bit, size, addr) /\ stored' = Rewritten(addr, f)
    BY <1>5, <1>8, <2>2, Zenon DEF StoredAre
  <2>4. DOMAIN Rewritten(addr, f) = DOMAIN stored \cup {addr[k] : k \in 1 .. n}
    <3>1. DOMAIN Rewritten(addr, f) = DOMAIN stored \cup {addr[k] : k \in DOMAIN addr}
      BY DEF Rewritten
    <3> QED
      BY <1>6, <3>1, Zenon
  <2> QED
    BY <2>3, <2>4, Zenon
<1>10. builder' = builder /\ vsfsPc' = vsfsPc
  BY DEF Store
<1>11. Given(m + n)' = Given(m + n) /\ Word(m + n)' = Word(m + n)
  BY <1>10, Zenon DEF Given, Word
<1>12. DOMAIN dinode' = DOMAIN dinode \cup {bit}
  BY <1>9 DEF WithInode
<1>13. dinode'[bit].addr = addr
  BY <1>9 DEF WithInode
<1>14. ASSUME NEW ino \in DOMAIN dinode', ino # bit
       PROVE  ino \in DOMAIN dinode /\ dinode'[ino] = dinode[ino]
  BY <1>9, <1>12, <1>14 DEF WithInode
<1>15. Given(m) \subseteq Int /\ Given(m + n) \subseteq Int
  BY DEF Given
<1>16. AddressesIn(m)
  BY DEF Asked
<1>17. ASSUME NEW ino \in DOMAIN dinode'
       PROVE  /\ dinode'[ino].addr \in Seq(Int) /\ Len(dinode'[ino].addr) <= NDIRECT
              /\ \A k \in DOMAIN dinode'[ino].addr : dinode'[ino].addr[k] \in Given(m + n) \cap DOMAIN stored'
  <2>1. CASE ino = bit
    <3>1. addr = [k \in 1 .. n |-> addr[k]]
      BY <1>5, <1>6 DEF NewBlocks
    <3>2. \A k \in 1 .. n : addr[k] \in Int
      BY <1>7, <1>15
    <3>3. addr \in Seq(Int) /\ Len(addr) = n
      BY <1>4, <3>1, <3>2
    <3>4. n <= NDIRECT
      BY <1>3, <1>4
    <3>5. \A k \in 1 .. n : addr[k] \in Given(m + n) \cap DOMAIN stored'
      BY <1>7, <1>9
    <3> QED
      BY <1>6, <1>13, <2>1, <3>3, <3>4, <3>5, Zenon
  <2>2. CASE ino # bit
    <3>1. ino \in DOMAIN dinode /\ dinode'[ino] = dinode[ino]
      BY <1>14, <2>2
    <3>2. /\ dinode[ino].addr \in Seq(Int) /\ Len(dinode[ino].addr) <= NDIRECT
          /\ \A k \in DOMAIN dinode[ino].addr : dinode[ino].addr[k] \in Given(m) \cap DOMAIN stored
      BY <1>16, <3>1, Zenon DEF AddressesIn
    <3>3. Given(m) \cap DOMAIN stored \subseteq Given(m + n) \cap DOMAIN stored'
      BY <1>7, <1>9
    <3> QED
      BY <3>1, <3>2, <3>3
  <2> QED
    BY <2>1, <2>2
<1>18. AddressesIn(m + n)'
  BY <1>11, <1>17, Zenon DEF AddressesIn
<1>19. Asked(m + n)'
  <2>1. builder' = "vsfs" => m + n <= 32 /\ (vsfsPc' # "root" => m + n >= NDIRECT)
    BY <1>1, <1>4, <1>7, <1>10
  <2> QED
    BY <1>9, <1>11, <1>18, <2>1, Zenon DEF Asked
<1>20. ASSUME NEW ino \in DOMAIN dinode', NEW jno \in DOMAIN dinode'
       PROVE  Distinct(dinode'[ino].addr, dinode'[jno].addr, ino = jno)
  <2>0. \A q \in DOMAIN dinode : \A k \in DOMAIN dinode[q].addr : dinode[q].addr[k] \in Given(m)
    BY <1>16, Zenon DEF AddressesIn
  <2>1. CASE ino = bit /\ jno = bit
    <3>1. ASSUME NEW k \in 1 .. n, NEW l \in 1 .. n, addr[k] = addr[l], addr[k] # 32
          PROVE  k = l
      <4>1. addr[k] = m + k - 1 /\ addr[l] = m + l - 1
        BY <1>7, <3>1, Zenon
      <4>2. m + k - 1 = m + l - 1
        BY <3>1, <4>1, Zenon
      <4>3. k \in Int /\ l \in Int
        BY <1>4
      <4> QED
        BY ONLY <4>2, <4>3, m \in Nat
    <3>2. Distinct(addr, addr, TRUE)
      BY <1>6, <3>1, Zenon DEF Distinct
    <3>3. (ino = jno) = TRUE /\ dinode'[ino].addr = addr /\ dinode'[jno].addr = addr
      BY <1>13, <2>1
    <3> QED
      BY <3>2, <3>3, Zenon
  <2>2. CASE ino = bit /\ jno # bit
    <3>1. jno \in DOMAIN dinode /\ dinode'[jno] = dinode[jno]
      BY <1>14, <2>2
    <3>2. Distinct(addr, dinode[jno].addr, ino = jno)
      BY <1>6, <1>7, <2>0, <3>1, Zenon DEF Distinct
    <3> QED
      BY <1>13, <2>2, <3>1, <3>2, Zenon
  <2>3. CASE ino # bit /\ jno = bit
    <3>1. ino \in DOMAIN dinode /\ dinode'[ino] = dinode[ino]
      BY <1>14, <2>3
    <3>2. Distinct(dinode[ino].addr, addr, ino = jno)
      BY <1>6, <1>7, <2>0, <3>1, Zenon DEF Distinct
    <3> QED
      BY <1>13, <2>3, <3>1, <3>2, Zenon
  <2>4. CASE ino # bit /\ jno # bit
    <3>1. ino \in DOMAIN dinode /\ dinode'[ino] = dinode[ino] /\ jno \in DOMAIN dinode /\ dinode'[jno] = dinode[jno]
      BY <1>14, <2>4
    <3>2. Distinct(dinode[ino].addr, dinode[jno].addr, ino = jno)
      BY <3>1, Zenon DEF AddressesOwn
    <3> QED
      BY <3>1, <3>2, Zenon
  <2> QED
    BY <2>1, <2>2, <2>3, <2>4
<1>21. AddressesOwn'
  BY <1>20, Zenon DEF AddressesOwn
<1>22. (\E nb \in Nat : Asked(nb))'
  BY <1>4, <1>19, Zenon
<1> QED
  BY <1>21, <1>22, Zenon DEF BlocksInv
\* The word of the inodes has the bit that was found, and 0 when there is a file.
LEMMA StoreKeepsNumbers ==
  ASSUME TwoBuilders, NumbersInv, filecnt \in Nat, vsfsPc = "files",
         NEW f, NEW size, FoundBit(ibmap) # None, Store(f, size)
  PROVE  NumbersInv'
<1>1. PICK bit : bit = FoundBit(ibmap)
  OBVIOUS
<1>2. /\ bit \in 0 .. (IF builder = "vsfs" THEN 63 ELSE 32) /\ bit \notin ibmap
      /\ bit = 0 <=> filecnt = 0
  BY <1>1, FoundInode, Zenon
<1>3. /\ ibmap' = WordAfter(SetBit(ibmap, bit), bit)
      /\ filecnt' = filecnt + 1 /\ builder' = builder /\ vsfsPc' = vsfsPc
      /\ DOMAIN dinode' = DOMAIN dinode \cup {bit}
  <2>1. DOMAIN dinode' = DOMAIN dinode \cup {FoundBit(ibmap)}
    BY DEF Store
  <2> QED
    BY <1>1, <2>1, Zenon DEF Store
<1>4. /\ ibmap \subseteq 0 .. (IF builder = "vsfs" THEN 63 ELSE 31)
      /\ DOMAIN dinode \subseteq ibmap \cup {32} /\ (builder = "vsfs" => DOMAIN dinode \subseteq ibmap)
  BY Zenon DEF NumbersInv
<1>5. /\ ibmap' \subseteq 0 .. (IF builder = "vsfs" THEN 63 ELSE 31)
      /\ DOMAIN dinode' \subseteq ibmap' \cup {32} /\ (builder = "vsfs" => DOMAIN dinode' \subseteq ibmap')
      /\ 0 \in ibmap'
  <2>1. CASE builder = "vsfs"
    <3>1. ibmap' = ibmap \cup (IF bit = 31 THEN 31 .. 63 ELSE {bit})
      BY <1>3, <2>1 DEF WordAfter, SetBit, SetBit64
    <3>2. 0 \in ibmap \/ bit = 0
      BY <1>2 DEF NumbersInv
    <3>3. ibmap \subseteq 0 .. 63 /\ bit \in 0 .. 63
      BY <1>2, <1>4, <2>1
    <3>4. ibmap' \subseteq 0 .. 63
      BY <3>1, <3>3
    <3>5. bit \in ibmap' /\ ibmap \subseteq ibmap'
      BY <3>1, <3>3
    <3> QED
      BY <1>3, <1>4, <2>1, <3>2, <3>4, <3>5
  <2>2. CASE builder # "vsfs" /\ filecnt = 0
    <3>1. bit = 0 /\ DOMAIN dinode = {}
      BY <1>2, <2>2 DEF NumbersInv
    <3>2. ibmap' = {0, 16}
      BY <1>3, <2>2, <3>1 DEF WordAfter, TwoBuilders
    <3>3. {0, 16} \subseteq 0 .. 31 /\ 0 \in {0, 16}
      OBVIOUS
    <3>4. DOMAIN dinode' = {0}
      BY <1>3, <3>1
    <3>5. {0} \subseteq ibmap'
      BY <3>2, <3>3
    <3> QED
      BY <2>2, <3>2, <3>3, <3>4, <3>5, Zenon
  <2>3. CASE builder # "vsfs" /\ filecnt # 0
    <3>1. bit # 0 /\ bit \in 0 .. 32 /\ 0 \in ibmap /\ ibmap \subseteq 0 .. 31
      BY <1>2, <1>4, <2>3 DEF NumbersInv
    <3>2. ibmap' = ibmap \cup {bit % 32}
      BY <1>3, <2>3, <3>1 DEF WordAfter, SetBit, SetBit32
    <3>3. bit % 32 \in 0 .. 31 /\ (bit # 32 => bit % 32 = bit)
      BY <3>1
    <3> QED
      BY <1>3, <1>4, <2>3, <3>1, <3>2, <3>3
  <2> QED
    BY <2>1, <2>2, <2>3
<1>6. filecnt' # 0 /\ filecnt' > 0 /\ vsfsPc' # "root"
  BY <1>3
<1> QED
  BY <1>3, <1>5, <1>6, Zenon DEF NumbersInv

\* The entry of a file goes behind the others, or over that of vsfs's own.
LEMMA PlacedIs ==
  ASSUME NEW S, entries \in Seq(S), NEW entry \in S
  PROVE  /\ (\A k \in DOMAIN entries : entries[k].inum # 0) => Placed(entry) = Append(entries, entry)
         /\ Len(entries) = 1 /\ entries[1].inum = 0 => Placed(entry) = <<entry>>
<1>0. Len(entries) \in Nat /\ DOMAIN entries = 1 .. Len(entries)
  OBVIOUS
<1> DEFINE Is(k) == /\ k <= Len(entries) => entries[k].inum = 0
                    /\ \A j \in 1 .. k - 1 : entries[j].inum # 0
<1>1. PlaceFor = CHOOSE k \in 1 .. Len(entries) + 1 : Is(k)
  BY Zenon DEF PlaceFor
<1>2. ASSUME \A k \in DOMAIN entries : entries[k].inum # 0
      PROVE  Placed(entry) = Append(entries, entry)
  <2>1. Is(Len(entries) + 1)
    BY <1>0, <1>2
  <2>2. \A k \in 1 .. Len(entries) + 1 : Is(k) => k = Len(entries) + 1
    BY <1>0, <1>2
  <2> HIDE DEF Is
  <2>3. PlaceFor = Len(entries) + 1
    BY <1>0, <1>1, <2>1, <2>2
  <2>4. Placed(entry) = [k \in 1 .. Len(entries) + 1 |-> IF k = Len(entries) + 1 THEN entry ELSE entries[k]]
    BY <1>0, <2>3 DEF Placed
  <2>5. PICK ap : ap = Append(entries, entry)
    OBVIOUS
  <2>6. /\ ap = [k \in 1 .. Len(entries) + 1 |-> ap[k]] /\ ap[Len(entries) + 1] = entry
        /\ \A k \in 1 .. Len(entries) + 1 : k # Len(entries) + 1 => ap[k] = entries[k]
    <3>1. ap \in Seq(S) /\ Len(ap) = Len(entries) + 1 /\ ap[Len(entries) + 1] = entry
      BY <1>0, <2>5
    <3>2. ap = [k \in 1 .. Len(ap) |-> ap[k]]
      BY <3>1
    <3>3. \A k \in 1 .. Len(entries) : ap[k] = entries[k]
      BY <1>0, <2>5
    <3>4. \A k \in 1 .. Len(entries) + 1 : k # Len(entries) + 1 => k \in 1 .. Len(entries)
      BY <1>0
    <3> QED
      BY <3>1, <3>2, <3>3, <3>4, Zenon
  <2>7. ap = [k \in 1 .. Len(entries) + 1 |-> IF k = Len(entries) + 1 THEN entry ELSE entries[k]]
    BY ONLY <1>0, <2>6
  <2> QED
    BY <2>4, <2>5, <2>7, Zenon
<1>3. ASSUME Len(entries) = 1, entries[1].inum = 0
      PROVE  Placed(entry) = <<entry>>
  <2>1. Is(1)
    BY <1>0, <1>3
  <2>2. \A k \in 1 .. Len(entries) + 1 : Is(k) => k = 1
    BY <1>0, <1>3
  <2> HIDE DEF Is
  <2>3. PlaceFor = 1
    BY <1>0, <1>1, <2>1, <2>2
  <2>4. Placed(entry) = [k \in 1 .. 1 |-> IF k = 1 THEN entry ELSE entries[k]]
    BY <1>0, <1>3, <2>3 DEF Placed
  <2> QED
    BY <2>4
<1> QED
  BY <1>2, <1>3

LEMMA PlaceIsNat ==
  ASSUME EntriesInv, filecnt \in Nat
  PROVE  PlaceFor \in Nat
<1>1. /\ Len(entries) = filecnt - Lost /\ Len(entries) \in Nat /\ DOMAIN entries = 1 .. Len(entries)
      /\ \A k \in DOMAIN entries : entries[k].inum = 0 <=> builder = "vsfs" /\ filecnt = 1
  <2>1. entries \in Seq([file : Nat, inum : Nat])
    BY DEF EntriesInv
  <2> QED
    BY <2>1 DEF EntriesInv
<1> DEFINE Is(k) == /\ k <= Len(entries) => entries[k].inum = 0
                    /\ \A j \in 1 .. k - 1 : entries[j].inum # 0
<1>2. PlaceFor = CHOOSE k \in 1 .. Len(entries) + 1 : Is(k)
  BY Zenon DEF PlaceFor
<1>3. \E k \in 1 .. Len(entries) + 1 : Is(k)
  <2>1. CASE builder = "vsfs" /\ filecnt = 1
    <3>1. Len(entries) = 1 /\ entries[1].inum = 0
      BY <1>1, <2>1 DEF Lost
    <3>2. Is(1) /\ 1 \in 1 .. Len(entries) + 1
      BY <3>1
    <3> QED
      BY <3>2
  <2>2. CASE ~(builder = "vsfs" /\ filecnt = 1)
    <3>1. Is(Len(entries) + 1) /\ Len(entries) + 1 \in 1 .. Len(entries) + 1
      BY <1>1, <2>2
    <3> QED
      BY <3>1
  <2> QED
    BY <2>1, <2>2
<1> HIDE DEF Is
<1>4. PlaceFor \in 1 .. Len(entries) + 1
  BY <1>2, <1>3
<1> QED
  BY <1>1, <1>4

LEMMA InumIs ==
  ASSUME TwoBuilders, NEW bit \in 0 .. 63, builder # "vsfs" => bit \in 0 .. 32
  PROVE  InumOf(bit) \in Nat /\ (InumOf(bit) = 0 <=> builder = "vsfs" /\ bit = 0)
<1>1. builder = "vsfs" => InumOf(bit) = bit
  BY DEF InumOf
<1>2. builder # "vsfs" => InumOf(bit) = 146 + bit
  <2>1. bit \in 0 .. 32 => (146 + bit) % 256 = 146 + bit
    OBVIOUS
  <2> QED
    BY <2>1 DEF InumOf
<1> QED
  BY <1>1, <1>2

LEMMA StoreKeepsEntries ==
  ASSUME TwoBuilders, NumbersInv, EntriesInv, filecnt \in Nat, vsfsPc = "files",
         NEW f, NEW size, FoundBit(ibmap) # None, PlaceFor <= DirentPlaces, Store(f, size)
  PROVE  EntriesInv'
<1>1. PICK bit : bit = FoundBit(ibmap)
  OBVIOUS
<1>2. /\ bit \in 0 .. (IF builder = "vsfs" THEN 63 ELSE 32) /\ bit \notin ibmap
      /\ bit = 0 <=> filecnt = 0
  BY <1>1, FoundInode, Zenon
<1>3. bit \in 0 .. 63 /\ (builder # "vsfs" => bit \in 0 .. 32)
  BY <1>2
<1>4. PICK entry : entry = [file |-> filecnt + 1, inum |-> InumOf(bit)]
  OBVIOUS
<1>5. /\ entry \in [file : Nat, inum : Nat] /\ entry.file = filecnt + 1 /\ entry.inum = InumOf(bit)
      /\ entry.inum = 0 <=> builder = "vsfs" /\ filecnt = 0
  <2>1. InumOf(bit) \in Nat /\ (InumOf(bit) = 0 <=> builder = "vsfs" /\ bit = 0)
    BY <1>3, InumIs
  <2> QED
    BY <1>2, <1>4, <2>1
<1>6. entries' = Placed(entry) /\ filecnt' = filecnt + 1 /\ builder' = builder
  <2>1. entries' = Placed([file |-> filecnt + 1, inum |-> InumOf(bit)])
    BY <1>1, Zenon DEF Store
  <2> QED
    BY <1>4, <2>1, Zenon DEF Store
<1>7. /\ entries \in Seq([file : Nat, inum : Nat]) /\ Len(entries) <= DirentPlaces
      /\ Len(entries) = filecnt - Lost /\ Len(entries) \in Nat /\ DOMAIN entries = 1 .. Len(entries)
      /\ \A k \in DOMAIN entries : /\ entries[k].file = k + Lost
                                   /\ entries[k].inum = 0 <=> builder = "vsfs" /\ filecnt = 1
                                   /\ EntryFinds(k)
  <2>1. entries \in Seq([file : Nat, inum : Nat])
    BY DEF EntriesInv
  <2> QED
    BY <2>1 DEF EntriesInv
<1>8. DirentPlaces \in Nat
  BY DEF DirentPlaces
<1>9. Len(entries') <= DirentPlaces
  <2>1. entries' = [k \in 1 .. (IF PlaceFor > Len(entries) THEN PlaceFor ELSE Len(entries)) |->
                      IF k = PlaceFor THEN entry ELSE entries[k]]
    BY <1>6, Zenon DEF Placed
  <2>2. PlaceFor \in Nat
    BY PlaceIsNat
  <2>3. PICK top \in Nat : top = IF PlaceFor > Len(entries) THEN PlaceFor ELSE Len(entries)
    BY <1>7, <2>2
  <2>4. top <= DirentPlaces
    BY <1>7, <1>8, <2>2, <2>3
  <2>5. Len(entries') = top
    BY <2>1, <2>3
  <2> QED
    BY <2>4, <2>5
<1>10. DOMAIN dinode' = DOMAIN dinode \cup {bit} /\ dinode'[bit].file = filecnt + 1
       /\ \A ino \in DOMAIN dinode : ino # bit => dinode'[ino] = dinode[ino]
  BY <1>1 DEF Store
<1>11. bit \in DOMAIN dinode => bit = 32 /\ builder # "vsfs"
  BY <1>2 DEF NumbersInv
<1> DEFINE Found2(e) == \E ino \in DOMAIN dinode' :
             /\ InumOf(ino)' = e.inum
             /\ dinode'[ino].file = e.file \/ (ino = 32 /\ builder' # "vsfs")
<1>12. \A ino \in DOMAIN dinode' : InumOf(ino)' = InumOf(ino)
  BY <1>6, Zenon DEF InumOf
<1>13. ASSUME NEW k \in DOMAIN entries
       PROVE  Found2(entries[k])
  <2>1. PICK ino \in DOMAIN dinode :
          /\ InumOf(ino) = entries[k].inum
          /\ dinode[ino].file = entries[k].file \/ (ino = 32 /\ builder # "vsfs")
    BY <1>7, Zenon DEF EntryFinds
  <2>2. ino \in DOMAIN dinode' /\ (dinode'[ino] = dinode[ino] \/ (ino = 32 /\ builder # "vsfs"))
    BY <1>10, <1>11, <2>1, Zenon
  <2> QED
    BY <1>6, <1>12, <2>1, <2>2, Zenon
<1>14. Found2(entry)
  <2>1. bit \in DOMAIN dinode'
    BY <1>10
  <2> QED
    BY <1>5, <1>10, <1>12, <2>1, Zenon
<1>15. \A k \in DOMAIN entries' : entries'[k] = entry \/ \E j \in DOMAIN entries : entries'[k] = entries[j]
  <2>1. CASE builder = "vsfs" /\ filecnt = 1
    <3>1. entries' = <<entry>>
      <4>1. Len(entries) = 1 /\ entries[1].inum = 0
        BY <1>7, <2>1 DEF Lost
      <4> QED
        BY <1>5, <1>6, <1>7, <4>1, PlacedIs, Zenon
    <3> QED
      BY <3>1
  <2>2. CASE ~(builder = "vsfs" /\ filecnt = 1)
    <3>1. entries' = Append(entries, entry)
      <4>1. \A k \in DOMAIN entries : entries[k].inum # 0
        BY <1>7, <2>2, Zenon
      <4> QED
        BY <1>5, <1>6, <1>7, <4>1, PlacedIs, Zenon
    <3> QED
      BY <1>5, <1>7, <3>1
  <2> QED
    BY <2>1, <2>2
<1>16. \A k \in DOMAIN entries' : Found2(entries'[k])
  <2> HIDE DEF Found2
  <2> QED
    BY <1>13, <1>14, <1>15, Zenon
<1>17. \A k \in DOMAIN entries' : EntryFinds(k)'
  BY <1>16, Zenon DEF EntryFinds
<1>18. PICK lost \in Nat : lost = IF builder = "vsfs" /\ filecnt + 1 > 1 THEN 1 ELSE 0
  OBVIOUS
<1>19. Lost' = lost
  BY <1>6, <1>18, Zenon DEF Lost
<1>20. /\ entries' \in Seq([file : Nat, inum : Nat]) /\ Len(entries') = (filecnt + 1) - lost
       /\ \A k \in DOMAIN entries' : /\ entries'[k].file = k + lost
                                     /\ entries'[k].inum = 0 <=> builder = "vsfs" /\ filecnt + 1 = 1
  <2>1. CASE builder = "vsfs" /\ filecnt = 1
    <3>1. entries' = <<entry>>
      <4>1. Len(entries) = 1 /\ entries[1].inum = 0
        BY <1>7, <2>1 DEF Lost
      <4> QED
        BY <1>5, <1>6, <1>7, <4>1, PlacedIs, Zenon
    <3>2. lost = 1
      BY <1>18, <2>1
    <3> QED
      BY <1>5, <2>1, <3>1, <3>2
  <2>2. CASE ~(builder = "vsfs" /\ filecnt = 1)
    <3>1. entries' = Append(entries, entry)
      <4>1. \A k \in DOMAIN entries : entries[k].inum # 0
        BY <1>7, <2>2, Zenon
      <4> QED
        BY <1>5, <1>6, <1>7, <4>1, PlacedIs, Zenon
    <3>2. Lost = lost \/ filecnt = 0
      BY <1>18, <2>2 DEF Lost
    <3>3. Len(entries') = Len(entries) + 1 /\ entries' \in Seq([file : Nat, inum : Nat])
          /\ DOMAIN entries' = 1 .. Len(entries) + 1
          /\ entries'[Len(entries) + 1] = entry
          /\ \A k \in 1 .. Len(entries) : entries'[k] = entries[k]
      BY <1>5, <1>7, <3>1
    <3>4. CASE filecnt = 0
      <4>1. Len(entries) = 0 /\ lost = 0
        BY <1>7, <1>18, <3>4 DEF Lost
      <4> QED
        BY <1>5, <3>3, <3>4, <4>1
    <3>5. CASE filecnt # 0
      <4>1. Lost = lost /\ Len(entries) = filecnt - lost
        BY <1>7, <3>2, <3>5
      <4>2. \A k \in 1 .. Len(entries) : entries'[k].file = k + lost /\ entries'[k].inum # 0
        BY <1>7, <2>2, <3>3, <4>1, Zenon
      <4>3. entry.file = (Len(entries) + 1) + lost /\ entry.inum # 0
        BY <1>5, <3>5, <4>1
      <4>4. \A k \in DOMAIN entries' : k \in 1 .. Len(entries) \/ k = Len(entries) + 1
        BY <1>7, <3>3
      <4>5. Len(entries') = (filecnt + 1) - lost
        BY <3>3, <4>1
      <4>6. filecnt + 1 # 1
        BY <3>5
      <4> QED
        BY <3>3, <4>2, <4>3, <4>4, <4>5, <4>6, Zenon
    <3> QED
      BY <3>4, <3>5
  <2> QED
    BY <2>1, <2>2
<1> QED
  BY <1>6, <1>9, <1>17, <1>19, <1>20, Zenon DEF EntriesInv
-----------------------------------------------------------------------------
(* Vsfs: the texts.                                                        *)

Small(f) == Reads(f.size) <= IF builder = "vsfs" THEN 1 ELSE 2

\* An inode has a text's bytes as far as TextsAreStored promises.
HasText(node, f, st) ==
  f.text =>
    /\ Small(f) => Len(node.addr) >= Reads(f.size)
    /\ \A k \in DOMAIN node.addr : node.addr[k] # 32 =>
         /\ st[node.addr[k]].file = node.file
         /\ Small(f) /\ k <= Reads(f.size) => st[node.addr[k]].read = k

LEMMA TextsOf ==
  TextsAreStored <=> \A ino \in DOMAIN dinode \ {32} : HasText(dinode[ino], argv[dinode[ino].file], stored)
BY Zenon DEF TextsAreStored, HasText, Small

\* A text that is small takes the blocks it has bytes for, each with its read.
LEMMA SmallIsWhole ==
  ASSUME TwoBuilders, NEW f \in File, f.size \in Nat, f.text, Small(f),
         NEW size \in CountedSizes(f)
  PROVE  /\ BlocksRequired(size) >= Reads(f.size)
         /\ \A k \in 1 .. Reads(f.size) : Copied(f.size, k) = k
<1>1. PICK s \in Nat : s = f.size
  OBVIOUS
<1>2. PICK r \in Nat : r = Reads(s)
  BY DEF Reads, BSIZE
<1>3. size = CountedAfter(s, r)
  BY <1>1, <1>2 DEF CountedSizes
<1>4. r \in {0, 1, 2} /\ (r = 2 => builder # "vsfs")
  BY <1>1, <1>2 DEF Small
<1>5. CountedAfter(s, 0) = 0 /\ CountedAfter(s, 1) = Got(s, 1)
      /\ (builder # "vsfs" => CountedAfter(s, 2) = Got(s, 1) + (BSIZE + Got(s, 2)))
  BY CountedIs
<1>6. (r = 0 => s = 0) /\ (r = 1 => s \in 1 .. 4096) /\ (r = 2 => s \in 4097 .. 8192)
  BY <1>2, <1>4 DEF Reads, BSIZE
<1>7. r = 1 => BlocksRequired(Got(s, 1)) = 1
  <2> SUFFICES ASSUME r = 1 PROVE BlocksRequired(Got(s, 1)) = 1
    OBVIOUS
  <2>1. CASE s = 4096
    <3>1. Got(s, 1) = 4096
      BY <2>1 DEF Got, BSIZE
    <3> QED
      BY <3>1 DEF BlocksRequired, BSIZE
  <2>2. CASE s # 4096
    <3>1. s \in 1 .. 4095
      BY <1>6, <2>2
    <3>2. Got(s, 1) = s
      BY <3>1 DEF Got, BSIZE
    <3> QED
      BY <3>1, <3>2 DEF BlocksRequired, BSIZE
  <2> QED
    BY <2>1, <2>2
<1>8. r = 2 => Got(s, 1) = BSIZE
  BY <1>6 DEF Got, BSIZE
<1>9. r = 2 => BlocksRequired(size) >= 2
  <2> SUFFICES ASSUME r = 2 PROVE BlocksRequired(size) >= 2
    OBVIOUS
  <2>1. size = BSIZE + (BSIZE + Got(s, 2))
    BY <1>3, <1>4, <1>5, <1>8
  <2>2. PICK g \in Nat : g = Got(s, 2)
    <3>1. Got(s, 2) \in 0 .. BSIZE
      BY StrlenIsNat
    <3>2. BSIZE \in Nat
      BY DEF BSIZE
    <3> QED
      BY <3>1, <3>2
  <2>3. size \in Nat /\ size = 8192 + g
    BY <2>1, <2>2 DEF BSIZE
  <2>4. size \div 4096 >= 2
    BY <2>2, <2>3
  <2>5. BlocksRequired(size) = size \div 4096
    BY <2>3, <2>4 DEF BlocksRequired, BSIZE
  <2> QED
    BY <2>4, <2>5
<1>10. BlocksRequired(size) >= r
  <2>1. r = 0 => BlocksRequired(size) = 0
    BY <1>3, <1>5 DEF BlocksRequired, BSIZE
  <2>2. r = 1 => BlocksRequired(size) = 1
    BY <1>3, <1>5, <1>7, Zenon
  <2> QED
    BY <1>4, <1>9, <2>1, <2>2
<1>11. ASSUME NEW k \in 1 .. r
       PROVE  Copied(s, k) = k
  <2>1. CASE builder = "vsfs"
    <3>1. r = 1 /\ k = 1
      BY <1>4, <2>1
    <3> QED
      BY <1>2, <2>1, <3>1 DEF Copied, Copied64
  <2>2. CASE builder # "vsfs"
    <3> DEFINE here == {q \in 1 .. Reads(s) : CountedAfter(s, q - 1) = (k - 1) * BSIZE}
    <3>1. \A q \in 1 .. r : CountedAfter(s, q - 1) = (k - 1) * BSIZE <=> q = k
      <4> TAKE q \in 1 .. r
      <4>1. (q = 1 \/ (q = 2 /\ r = 2)) /\ (k = 1 \/ (k = 2 /\ r = 2))
        BY <1>4
      <4>2. (q = 1 => CountedAfter(s, q - 1) = 0) /\ (q = 2 /\ r = 2 => CountedAfter(s, q - 1) = BSIZE)
        <5>1. q = 1 => q - 1 = 0
          OBVIOUS
        <5>2. q = 2 => q - 1 = 1
          OBVIOUS
        <5> QED
          BY <1>5, <1>8, <5>1, <5>2, Zenon
      <4>3. (k = 1 => (k - 1) * BSIZE = 0) /\ (k = 2 => (k - 1) * BSIZE = BSIZE) /\ BSIZE # 0
        BY DEF BSIZE
      <4>4a. PICK c : c = CountedAfter(s, q - 1)
        BY Zenon
      <4>4b. PICK b : b = (k - 1) * BSIZE
        BY Zenon
      <4>4. PICK z : z = BSIZE
        BY Zenon
      <4>5. /\ q = 1 => c = 0
            /\ q = 2 => c = z
            /\ k = 1 => b = 0
            /\ k = 2 => b = z
            /\ z # 0
        BY <4>1, <4>2, <4>3, <4>4, <4>4a, <4>4b, Zenon
      <4>6. c = b <=> q = k
        BY ONLY <4>1, <4>5
      <4> QED
        BY <4>4a, <4>4b, <4>6, Zenon
    <3>2. here = {k}
      <4>1. \A q : q \in here <=> q = k
        BY <1>2, <3>1
      <4> HIDE DEF here
      <4> QED
        BY <4>1
    <3>3. Copied32(s, k) = IF here = {} THEN 0 ELSE CHOOSE q \in here : TRUE
      BY Zenon DEF Copied32
    <3> HIDE DEF here
    <3>4. Copied32(s, k) = k
      BY <3>2, <3>3
    <3> QED
      BY <2>2, <3>4 DEF Copied
  <2> QED
    BY <2>1, <2>2
<1> QED
  BY <1>1, <1>2, <1>10, <1>11, Zenon

LEMMA StoreKeepsTexts ==
  ASSUME TwoBuilders, NumbersInv, TextsInv, NEW m \in Nat, Asked(m), filecnt \in Nat,
         vsfsPc = "files",
         NEW f \in File, f.size # NoFile, f = argv[filecnt + 1],
         NEW size \in CountedSizes(f), ~Fails(f, size), Store(f, size)
  PROVE  TextsInv'
<1>1. PICK n : n = BlocksRequired(size)
  OBVIOUS
<1>2. f.size \in Nat /\ size \in Nat
  BY SizeIsNat
<1>3. n \in 0 .. NDIRECT /\ (\A k \in 1 .. n : NextBlock(m + k - 1) # None) /\ FoundBit(ibmap) # None
  BY <1>1, <1>2, NoBlockFails DEF Asked
<1>4. n \in Nat /\ m + n \in Nat
  BY <1>3 DEF NDIRECT
<1>5. PICK addr : addr = NewBlocks(m, n)
  OBVIOUS
<1>6. DOMAIN addr = 1 .. n /\ (\A k \in 1 .. n : addr[k] = NextBlock(m + k - 1)) /\ Len(addr) = n
  BY <1>4, <1>5 DEF NewBlocks
<1>7. \A k \in 1 .. n : /\ addr[k] # 32 => addr[k] = m + k - 1
                        /\ addr[k] \notin Given(m) \/ addr[k] = 32
  <2>1. Room(m) /\ NoneFails(m, n)
    BY <1>3, Zenon DEF Asked, Room, NoneFails
  <2>2. AnewGiven(m, n, addr)
    BY <1>3, <1>5, <2>1, NewBlocksGiven, Zenon
  <2> QED
    BY <2>2, Zenon DEF AnewGiven
<1>8. PICK bit : bit = FoundBit(ibmap)
  OBVIOUS
<1>9. dinode' = WithInode(bit, size, addr) /\ stored' = Rewritten(addr, f)
  <2>1. dbmap = Word(m)
    BY DEF Asked
  <2>2. StoredAre(m, n, f, size)
    BY <1>1, <1>2, <2>1, StoreIs
  <2> QED
    BY <1>5, <1>8, <2>2, Zenon DEF StoredAre
<1>10. /\ \A b \in DOMAIN stored : (\A k \in 1 .. n : addr[k] # b) => stored'[b] = stored[b]
       /\ \A k \in 1 .. n : addr[k] # 32 =>
            stored'[addr[k]] = [file |-> filecnt + 1, read |-> Copied(f.size, k)]
  <2>1. InARow(addr, n, m)
    BY <1>6, <1>7, Zenon DEF InARow
  <2>2. AreWritten(Rewritten(addr, f), addr, n, f)
    BY <1>4, <2>1, RewrittenIs
  <2> QED
    BY <1>9, <2>2, Zenon DEF AreWritten
<1>11. builder' = builder /\ argv' = argv /\ filecnt' = filecnt + 1
  BY Zenon DEF Store
<1>12. /\ DOMAIN dinode' = DOMAIN dinode \cup {bit}
       /\ dinode'[bit] = [file |-> filecnt + 1, size |-> size, addr |-> addr]
       /\ \A ino \in DOMAIN dinode : ino # bit => dinode'[ino] = dinode[ino]
  BY <1>9 DEF WithInode
<1>13. ASSUME NEW ino \in DOMAIN dinode' \ {32}
       PROVE  HasText(dinode'[ino], argv[dinode'[ino].file], stored')
  <2>1. CASE ino = bit
    <3>1. PICK node : node = dinode'[ino]
      OBVIOUS
    <3>2. node.file = filecnt + 1 /\ node.addr = addr
      BY <1>12, <2>1, <3>1
    <3>3. \A k \in 1 .. n : addr[k] # 32 =>
            stored'[addr[k]].file = filecnt + 1 /\ stored'[addr[k]].read = Copied(f.size, k)
      <4> TAKE k \in 1 .. n
      <4> SUFFICES ASSUME addr[k] # 32
                   PROVE  stored'[addr[k]].file = filecnt + 1 /\ stored'[addr[k]].read = Copied(f.size, k)
        OBVIOUS
      <4>1. PICK it : it = stored'[addr[k]]
        OBVIOUS
      <4>2. it = [file |-> filecnt + 1, read |-> Copied(f.size, k)]
        BY <1>10, <4>1, Zenon
      <4>3. it.file = filecnt + 1 /\ it.read = Copied(f.size, k)
        BY <4>2
      <4> QED
        BY <4>1, <4>3, Zenon
    <3>4. f.text /\ Small(f) => n >= Reads(f.size) /\ \A k \in 1 .. Reads(f.size) : Copied(f.size, k) = k
      BY <1>1, <1>2, SmallIsWhole
    <3>5. Reads(f.size) \in Nat
      BY <1>2 DEF Reads, BSIZE
    <3>6. \A k \in 1 .. n : k <= Reads(f.size) => k \in 1 .. Reads(f.size)
      BY <1>4, <3>5
    <3>7. HasText(node, f, stored')
      BY <1>6, <3>2, <3>3, <3>4, <3>6, Zenon DEF HasText
    <3> QED
      BY <3>1, <3>2, <3>7, Zenon
  <2>2. CASE ino # bit
    <3>1. ino \in DOMAIN dinode /\ ino # 32 /\ dinode'[ino] = dinode[ino]
      BY <1>12, <2>2
    <3>2. HasText(dinode[ino], argv[dinode[ino].file], stored)
      <4>1. ino \in DOMAIN dinode \ {32}
        BY <3>1
      <4> QED
        BY <4>1, TextsOf, Zenon DEF TextsInv
    <3>3. \A k \in DOMAIN dinode[ino].addr : dinode[ino].addr[k] \in Given(m) \cap DOMAIN stored
      BY <3>1, Zenon DEF Asked, AddressesIn
    <3>4. \A k \in DOMAIN dinode[ino].addr : dinode[ino].addr[k] # 32 =>
            stored'[dinode[ino].addr[k]] = stored[dinode[ino].addr[k]]
      <4> TAKE k \in DOMAIN dinode[ino].addr
      <4> SUFFICES ASSUME dinode[ino].addr[k] # 32
                   PROVE  stored'[dinode[ino].addr[k]] = stored[dinode[ino].addr[k]]
        OBVIOUS
      <4>1. PICK b : b = dinode[ino].addr[k]
        OBVIOUS
      <4>2. b \in Given(m) /\ b \in DOMAIN stored /\ b # 32
        BY <3>3, <4>1
      <4>3. \A q \in 1 .. n : addr[q] # b
        BY <1>7, <4>2, Zenon
      <4> QED
        BY <1>10, <4>1, <4>2, <4>3, Zenon
    <3>5. HasText(dinode[ino], argv[dinode[ino].file], stored')
      BY <3>2, <3>4, Zenon DEF HasText
    <3> QED
      BY <3>1, <3>5, Zenon
  <2> QED
    BY <2>1, <2>2
<1>14. TextsAreStored'
  BY <1>11, <1>13, Zenon DEF TextsAreStored, HasText, Small
<1>15. \A ino \in DOMAIN dinode' : dinode'[ino].file \in 1 .. filecnt + 1
  <2> TAKE ino \in DOMAIN dinode'
  <2>1. CASE ino = bit
    BY <1>12, <2>1
  <2>2. CASE ino # bit
    BY <1>12, <2>2 DEF TextsInv
  <2> QED
    BY <2>1, <2>2
<1> QED
  BY <1>11, <1>14, <1>15, Zenon DEF TextsInv
-----------------------------------------------------------------------------
(* Vsfs: every step.                                                       *)

LEMMA ArgvTyped ==
  ASSUME RunsInv
  PROVE  /\ argv \in Seq(File) /\ filecnt \in Nat
         /\ filecnt < Len(argv) => argv[filecnt + 1] \in File
<1>1. argv \in Seq(File) /\ filecnt \in 0 .. Len(argv)
  BY VsfsAssumption DEF RunsInv
<1> QED
  BY <1>1

LEMMA InitVsfs == VsfsInit => VsfsInv
<1> SUFFICES ASSUME VsfsInit
             PROVE  VsfsInv
  OBVIOUS
<1>1. /\ builder \in Builders /\ argv \in CommandLines /\ filecnt = 0
      /\ ibmap = {} /\ dbmap = {} /\ DOMAIN dinode = {} /\ entries = <<>> /\ vsfsPc = "root"
  BY DEF VsfsInit, Builds
<1>2. RunsInv
  <2>1. argv \in Seq(File)
    BY <1>1, VsfsAssumption
  <2> QED
    BY <1>1, <2>1 DEF RunsInv
<1>3. NumbersInv
  BY <1>1 DEF NumbersInv
<1>4. BlocksInv
  <2>1. dbmap = Word(0)
    BY <1>1 DEF Word
  <2>2. Asked(0)
    BY <1>1, <2>1 DEF Asked, AddressesIn
  <2>3. AddressesOwn
    BY <1>1 DEF AddressesOwn
  <2> QED
    BY <2>2, <2>3 DEF BlocksInv
<1>5. EntriesInv
  <2>1. DirentPlaces \in Nat
    BY DEF DirentPlaces
  <2> QED
    BY <1>1, <2>1 DEF EntriesInv, Lost
<1>6. TextsInv
  BY <1>1, Zenon DEF TextsInv, TextsAreStored
<1> QED
  BY <1>2, <1>3, <1>4, <1>5, <1>6 DEF VsfsInv

\* The root's blocks are the first, in vsfs.
LEMMA RootKeeps ==
  ASSUME VsfsInv, create_root
  PROVE  VsfsInv'
<1>0. RunsInv /\ NumbersInv /\ BlocksInv /\ EntriesInv /\ TextsInv /\ TwoBuilders /\ filecnt \in Nat
  BY RunsTwo, ArgvTyped DEF VsfsInv
<1>1. /\ vsfsPc = "root" /\ vsfsPc' = "files"
      /\ UNCHANGED <<builder, argv, filecnt, dinode, stored, entries>>
  BY DEF create_root
<1>2. filecnt = 0 /\ DOMAIN dinode = {} /\ entries = <<>> /\ 0 \notin ibmap /\ dbmap = {}
  BY <1>0, <1>1 DEF NumbersInv
<1>3. RunsInv'
  BY <1>0, <1>1 DEF RunsInv
<1>4. NumbersInv'
  <2>1. ibmap' \subseteq 0 .. (IF builder = "vsfs" THEN 63 ELSE 31) /\ 0 \notin ibmap'
    <3>1. CASE builder = "vsfs"
      <4>1. ibmap' = {1}
        BY <3>1 DEF create_root, ROOTINO
      <4> QED
        BY <3>1, <4>1
    <3>2. CASE builder # "vsfs"
      <4>1. ibmap' = ibmap
        BY <3>2 DEF create_root
      <4>2. ibmap \subseteq 0 .. (IF builder = "vsfs" THEN 63 ELSE 31)
        BY <1>0, Zenon DEF NumbersInv
      <4> QED
        BY <1>2, <4>1, <4>2, Zenon
    <3> QED
      BY <3>1, <3>2
  <2> QED
    BY <1>1, <1>2, <2>1 DEF NumbersInv
<1>5. (\E m \in Nat : Asked(m))'
  <2>1. \A m \in Nat : AddressesIn(m)'
    BY <1>1, <1>2 DEF AddressesIn
  <2>2. CASE builder = "vsfs"
    <3>1. Word(0) = {}
      BY DEF Word
    <3>2. NDIRECT \in Nat /\ NDIRECT <= 32
      BY DEF NDIRECT
    <3>3. Allocated(Word(0), NDIRECT) = After(0, NDIRECT)
      BY <1>0, <3>2, AllocatedIs
    <3>4. After(0, NDIRECT).map = Word(0 + NDIRECT) /\ 0 + NDIRECT = NDIRECT
      BY <3>2 DEF After
    <3>5. dbmap' = Allocated({}, NDIRECT).map
      BY <2>2 DEF create_root
    <3>6. dbmap' = Word(NDIRECT)
      BY <3>1, <3>3, <3>4, <3>5, Zenon
    <3>7. Word(NDIRECT)' = Word(NDIRECT)
      BY <1>1, Zenon DEF Word
    <3>8. Asked(NDIRECT)'
      BY <1>1, <2>1, <3>2, <3>6, <3>7 DEF Asked
    <3> QED
      BY <3>2, <3>8, Zenon
  <2>3. CASE builder # "vsfs"
    <3>1. PICK m \in Nat : Asked(m)
      BY <1>0 DEF BlocksInv
    <3>2. dbmap' = dbmap /\ builder' = builder
      BY <1>1, <2>3 DEF create_root
    <3>3. Word(m)' = Word(m)
      BY <3>2, Zenon DEF Word
    <3>4. dbmap = Word(m)
      BY <3>1 DEF Asked
    <3>5. Asked(m)'
      BY <2>1, <2>3, <3>2, <3>3, <3>4 DEF Asked
    <3> QED
      BY <3>5, Zenon
  <2> QED
    BY <2>2, <2>3
<1>6. AddressesOwn'
  BY <1>1, <1>2 DEF AddressesOwn
<1>7. EntriesInv'
  <2>1. entries' = <<>> /\ filecnt' = 0 /\ DirentPlaces \in Nat
    BY <1>1, <1>2 DEF DirentPlaces
  <2> QED
    BY <2>1 DEF EntriesInv, Lost
<1>8. TextsInv'
  <2>1. DOMAIN dinode' = {}
    BY <1>1, <1>2
  <2> QED
    BY <2>1, Zenon DEF TextsInv, TextsAreStored
<1> QED
  BY <1>3, <1>4, <1>5, <1>6, <1>7, <1>8, Zenon DEF VsfsInv, BlocksInv

\* Nothing changes but where the builder is, if that.
LEMMA StopKeeps ==
  ASSUME VsfsInv, UNCHANGED <<builder, argv, filecnt, image>>,
         \/ vsfsPc' = vsfsPc
         \/ vsfsPc = "files" /\ vsfsPc' \in {"written", "abort", "overrun"}
  PROVE  VsfsInv'
<1>1. /\ builder' = builder /\ argv' = argv /\ filecnt' = filecnt /\ ibmap' = ibmap /\ dbmap' = dbmap
      /\ dinode' = dinode /\ stored' = stored /\ entries' = entries
  BY DEF image
<1>2. vsfsPc' = "root" <=> vsfsPc = "root"
  OBVIOUS
<1>3. RunsInv'
  BY <1>1 DEF VsfsInv, RunsInv
<1>4. NumbersInv'
  BY <1>1, <1>2, Zenon DEF VsfsInv, NumbersInv
<1>5. (\E m \in Nat : Asked(m))'
  <2>1. PICK m \in Nat : Asked(m)
    BY DEF VsfsInv, BlocksInv
  <2>2. Word(m)' = Word(m) /\ Given(m)' = Given(m)
    BY <1>1, Zenon DEF Word, Given
  <2>3. AddressesIn(m)'
    BY <1>1, <2>1, <2>2, Zenon DEF Asked, AddressesIn
  <2>4. Asked(m)'
    BY <1>1, <1>2, <2>1, <2>2, <2>3, Zenon DEF Asked
  <2> QED
    BY <2>4, Zenon
<1>6. AddressesOwn'
  BY <1>1, Zenon DEF VsfsInv, BlocksInv, AddressesOwn
<1>7. EntriesInv'
  <2>1. Lost' = Lost /\ \A ino : InumOf(ino)' = InumOf(ino)
    BY <1>1, Zenon DEF Lost, InumOf
  <2>2. \A k \in DOMAIN entries : EntryFinds(k)'
    BY <1>1, <2>1, Zenon DEF VsfsInv, EntriesInv, EntryFinds
  <2>3. EntriesInv
    BY DEF VsfsInv
  <2> QED
    BY <1>1, <2>1, <2>2, <2>3, Zenon DEF EntriesInv
<1>8. TextsInv'
  <2>1. Small(argv)' = Small(argv)
    BY <1>1, Zenon DEF Small
  <2>2. TextsAreStored /\ \A ino \in DOMAIN dinode : dinode[ino].file \in 1 .. filecnt
    BY Zenon DEF VsfsInv, TextsInv
  <2>3. TextsAreStored'
    BY <1>1, <2>2 DEF TextsAreStored
  <2> QED
    BY <1>1, <2>2, <2>3, Zenon DEF TextsInv
<1> QED
  BY <1>3, <1>4, <1>5, <1>6, <1>7, <1>8, Zenon DEF VsfsInv, BlocksInv

LEMMA StoreKeepsVsfs ==
  ASSUME VsfsInv, vsfsPc = "files", NEW f, f = argv[filecnt + 1], MoreFiles, f.size # NoFile,
         NEW size \in CountedSizes(f), ~Fails(f, size), PlaceFor <= DirentPlaces, Store(f, size)
  PROVE  VsfsInv'
<1>0. RunsInv /\ NumbersInv /\ BlocksInv /\ EntriesInv /\ TextsInv /\ TwoBuilders
  BY RunsTwo DEF VsfsInv
<1>1. argv \in Seq(File) /\ filecnt \in Nat /\ f \in File /\ filecnt < Len(argv)
  BY <1>0, ArgvTyped DEF MoreFiles
<1>2. size \in Nat
  BY <1>1, SizeIsNat
<1>3. FoundBit(ibmap) # None
  BY Zenon DEF Fails
<1>4. FoundBit(ibmap) \in DOMAIN dinode => FoundBit(ibmap) = 32
  <2>1. FoundBit(ibmap) \notin ibmap
    BY <1>0, <1>1, <1>3, FoundInode, Zenon
  <2> QED
    BY <1>0, <2>1 DEF NumbersInv
<1>5. PICK m \in Nat : Asked(m)
  BY <1>0 DEF BlocksInv
<1>6. NumbersInv'
  BY <1>0, <1>1, <1>3, StoreKeepsNumbers
<1>7. BlocksInv'
  <2>1. AddressesOwn
    BY <1>0 DEF BlocksInv
  <2> QED
    BY <1>0, <1>2, <1>4, <1>5, <2>1, StoreKeepsBlocks
<1>8. EntriesInv'
  BY <1>0, <1>1, <1>3, StoreKeepsEntries
<1>9. TextsInv'
  BY <1>0, <1>1, <1>5, StoreKeepsTexts
<1>10. RunsInv'
  <2>1. /\ builder' = builder /\ argv' = argv /\ vsfsPc' = vsfsPc /\ filecnt' = filecnt + 1
    BY Zenon DEF Store
  <2>2. filecnt + 1 \in 0 .. Len(argv)
    BY <1>1
  <2> QED
    BY <1>0, <2>1, <2>2, Zenon DEF RunsInv
<1> QED
  BY <1>6, <1>7, <1>8, <1>9, <1>10, Zenon DEF VsfsInv

LEMMA StepVsfs == VsfsInv /\ [VsfsNext]_vsfsVars => VsfsInv'
<1> SUFFICES ASSUME VsfsInv, [VsfsNext]_vsfsVars
             PROVE  VsfsInv'
  OBVIOUS
<1>1. CASE create_root
  BY <1>1, RootKeeps
<1>2. CASE AddFile
  <2>1. PICK f : f = argv[filecnt + 1]
    OBVIOUS
  <2>2. ASSUME NEW size, NEW how \in {"abort", "overrun"}, Stop(f, size, how)
        PROVE  VsfsInv'
    <3>1. vsfsPc = "files" /\ vsfsPc' \in {"written", "abort", "overrun"}
          /\ UNCHANGED <<builder, argv, filecnt, image>>
      BY <1>2, <2>2 DEF AddFile, Stop
    <3> QED
      BY <3>1, StopKeeps
  <2>3. ASSUME NEW size \in CountedSizes(f), f.size # NoFile, ~Fails(f, size),
               ~(PlaceFor > DirentPlaces), Store(f, size)
        PROVE  VsfsInv'
    <3>1. vsfsPc = "files" /\ MoreFiles
      BY <1>2 DEF AddFile
    <3>2. PlaceFor <= DirentPlaces
      <4>1. DirentPlaces \in Nat
        BY DEF DirentPlaces
      <4>2. PlaceFor \in Int
        <5>1. EntriesInv /\ filecnt \in Nat
          BY ArgvTyped DEF VsfsInv
        <5> QED
          BY <5>1, PlaceIsNat
      <4> QED
        BY <2>3, <4>1, <4>2
    <3> QED
      BY <2>1, <2>3, <3>1, <3>2, StoreKeepsVsfs
  <2>4. \/ Stop(f, 0, "abort")
        \/ \E size \in CountedSizes(f) :
             \/ Stop(f, size, "overrun") \/ Stop(f, size, "abort")
             \/ f.size # NoFile /\ ~Fails(f, size) /\ ~(PlaceFor > DirentPlaces) /\ Store(f, size)
    BY <1>2, <2>1, Zenon DEF AddFile
  <2> QED
    BY <2>2, <2>3, <2>4
<1>3. CASE WriteImage
  <2>1. vsfsPc = "files" /\ vsfsPc' = "written" /\ UNCHANGED <<builder, argv, filecnt, image>>
    BY <1>3 DEF WriteImage
  <2> QED
    BY <2>1, StopKeeps
<1>4. CASE UNCHANGED vsfsVars
  <2>1. UNCHANGED <<builder, argv, filecnt, image>> /\ vsfsPc' = vsfsPc
    BY <1>4 DEF vsfsVars
  <2> QED
    BY <2>1, StopKeeps
<1> QED
  BY <1>1, <1>2, <1>3, <1>4 DEF VsfsNext

LEMMA VsfsInvariance == VsfsSpec => []VsfsInv
BY InitVsfs, StepVsfs, PTL DEF VsfsSpec

\* The words keep their 64 and 32 bits, and no inode has more blocks than it has
\* addresses (vsfs/vsfs.c:124-147, vsfs_0.1/vsfs.c:88-110).
THEOREM VsfsTyped == VsfsSpec => []VsfsTypeOK
<1>1. VsfsInv => VsfsTypeOK
  <2> SUFFICES ASSUME VsfsInv
               PROVE  VsfsTypeOK
    OBVIOUS
  <2>1. RunsInv /\ NumbersInv /\ EntriesInv /\ TwoBuilders /\ argv \in Seq(File)
    BY RunsTwo, ArgvTyped DEF VsfsInv
  <2>2. PICK m \in Nat : Asked(m)
    BY DEF VsfsInv, BlocksInv
  <2>3. dbmap \subseteq 0 .. (IF builder = "vsfs" THEN 63 ELSE 31)
    <3>1. dbmap = Word(m) /\ (builder = "vsfs" => m <= 32)
      BY <2>2 DEF Asked
    <3>2. CASE m <= 31
      <4>1. Word(m) = 0 .. m - 1
        BY <3>2 DEF Word
      <4> QED
        BY <2>2, <3>1, <3>2, <4>1
    <3>3. CASE m > 31 /\ builder # "vsfs"
      <4>1. Word(m) = 0 .. 31
        BY <2>2, <3>3 DEF Word
      <4> QED
        BY <3>1, <3>3, <4>1
    <3>4. CASE m > 31 /\ builder = "vsfs"
      <4>1. m = 32
        BY <2>2, <3>1, <3>4
      <4>2. Word(m) = 0 .. 63
        BY <3>4, <4>1 DEF Word
      <4> QED
        BY <3>1, <3>4, <4>2
    <3> QED
      BY <2>2, <3>2, <3>3, <3>4
  <2>4. \A ino \in DOMAIN dinode : Len(dinode[ino].addr) <= NDIRECT
    BY <2>2, Zenon DEF Asked, AddressesIn
  <2>5. ibmap \cup dbmap \subseteq 0 .. (IF builder = "vsfs" THEN 63 ELSE 31)
    <3>1. ibmap \subseteq 0 .. (IF builder = "vsfs" THEN 63 ELSE 31)
      BY <2>1, Zenon DEF NumbersInv
    <3> QED
      BY <2>3, <3>1
  <2> QED
    BY <2>1, <2>4, <2>5, Zenon DEF VsfsTypeOK, RunsInv, EntriesInv
<1> QED
  BY <1>1, VsfsInvariance, PTL

\* Whatever files the builders are given, no block has two owners or is the root's
\* but the one behind the word of vsfs_0.1: vsfs runs out of bits first
\* (vsfs/vsfs.c:138-147, vsfs_0.1/vsfs.c:105-110).
THEOREM BlocksStayOwn == VsfsSpec => []BlocksAreOwn
<1>1. VsfsInv => BlocksAreOwn
  <2> SUFFICES ASSUME VsfsInv, NEW b \in DOMAIN stored,
                      ~(builder = "vsfs_0.1" /\ b = 32),
                      NEW one \in Owners(b), NEW two \in Owners(b)
               PROVE  one = two /\ (builder = "vsfs" => b >= NDIRECT)
    BY Zenon DEF BlocksAreOwn
  <2>1. TwoBuilders /\ AddressesOwn
    BY RunsTwo DEF VsfsInv, BlocksInv
  <2>2. PICK m \in Nat : Asked(m)
    BY DEF VsfsInv, BlocksInv
  <2>3. ASSUME NEW place \in Owners(b)
        PROVE  /\ place = <<place[1], place[2]>> /\ place[1] \in DOMAIN dinode
               /\ place[2] \in DOMAIN dinode[place[1]].addr /\ dinode[place[1]].addr[place[2]] = b
    <3>1. /\ place \in (DOMAIN dinode) \X (1 .. NDIRECT)
          /\ place[2] <= Len(dinode[place[1]].addr) /\ dinode[place[1]].addr[place[2]] = b
      BY DEF Owners
    <3>2. NDIRECT \in Nat
      BY DEF NDIRECT
    <3>3. place[1] \in DOMAIN dinode /\ place[2] \in 1 .. NDIRECT /\ place = <<place[1], place[2]>>
      BY <3>1
    <3>4. dinode[place[1]].addr \in Seq(Int)
      BY <2>2, <3>3 DEF Asked, AddressesIn
    <3>5. place[2] \in DOMAIN dinode[place[1]].addr
      <4>1. DOMAIN dinode[place[1]].addr = 1 .. Len(dinode[place[1]].addr)
            /\ Len(dinode[place[1]].addr) \in Nat
        BY <3>4
      <4> QED
        BY <3>1, <3>2, <3>3, <4>1
    <3> QED
      BY <3>1, <3>3, <3>5
  <2>4. b \in Given(m)
    <3>1. one[1] \in DOMAIN dinode /\ one[2] \in DOMAIN dinode[one[1]].addr
          /\ dinode[one[1]].addr[one[2]] = b
      BY <2>3
    <3>2. AddressesIn(m)
      BY <2>2 DEF Asked
    <3> QED
      BY <3>1, <3>2, Zenon DEF AddressesIn
  <2>5. b # 32 /\ (builder = "vsfs" => b >= NDIRECT)
    BY <2>1, <2>4 DEF Given, TwoBuilders
  <2>6. one[1] = two[1] /\ one[2] = two[2]
    <3>1. Distinct(dinode[one[1]].addr, dinode[two[1]].addr, one[1] = two[1])
      BY <2>1, <2>3, Zenon DEF AddressesOwn
    <3> QED
      BY <2>3, <2>5, <3>1 DEF Distinct
  <2>7. one = two
    BY <2>3, <2>6, Zenon
  <2> QED
    BY <2>5, <2>7
<1> QED
  BY <1>1, VsfsInvariance, PTL

\* Every file has one entry, but the first of vsfs after the second was written over
\* it (vsfs/vsfs.c:178-179).  Those of vsfs lead to the inodes of their files; those of
\* vsfs_0.1 lead to none, however many files there are (vsfs_0.1/vsfs.c:65, 77, 126).
THEOREM EntriesFind == VsfsSpec => []EntriesFindFiles
<1>1. VsfsInv => EntriesFindFiles
  <2> SUFFICES ASSUME VsfsInv, NEW n \in 1 .. filecnt
               PROVE  LET own == {k \in DOMAIN entries : entries[k].file = n}
                      IN  IF builder = "vsfs" /\ n = 1 /\ filecnt > 1 THEN own = {}
                          ELSE \E k \in own :
                                 /\ own = {k}
                                 /\ IF builder = "vsfs"
                                      THEN \E ino \in DOMAIN dinode :
                                             Led(entries[k]) = {ino} /\ dinode[ino].file = n
                                      ELSE Led(entries[k]) = {}
    BY Zenon DEF EntriesFindFiles
  <2> DEFINE own == {k \in DOMAIN entries : entries[k].file = n}
  <2>1. EntriesInv /\ filecnt \in Nat
    BY ArgvTyped DEF VsfsInv
  <2>2. DOMAIN entries = 1 .. filecnt - Lost
    <3>1. Len(entries) = filecnt - Lost /\ entries \in Seq([file : Nat, inum : Nat])
      BY <2>1 DEF EntriesInv
    <3> QED
      BY <3>1
  <2>3. \A k \in DOMAIN entries : entries[k].file = k + Lost
    BY <2>1 DEF EntriesInv
  <2>4. \A ino \in DOMAIN dinode : ino \in Int /\ (builder # "vsfs" => ino <= 32)
    <3>1. /\ ibmap \subseteq 0 .. (IF builder = "vsfs" THEN 63 ELSE 31)
          /\ DOMAIN dinode \subseteq ibmap \cup {32}
      BY Zenon DEF VsfsInv, NumbersInv
    <3>2. \A ino \in ibmap : ino \in Int /\ (builder # "vsfs" => ino <= 32)
      BY <3>1
    <3>3. \A ino \in DOMAIN dinode : ino \in ibmap \/ ino = 32
      BY <3>1, Zenon
    <3>4. 32 \in Int /\ 32 <= 32
      OBVIOUS
    <3> QED
      BY <3>2, <3>3, <3>4, Zenon
  <2>5. \A k \in own : entries[k].inum \in Nat
    <3>1. entries \in Seq([file : Nat, inum : Nat])
      BY <2>1 DEF EntriesInv
    <3>2. \A k \in 1 .. Len(entries) : entries[k].inum \in Nat
      <4> DEFINE Dirents == [file : Nat, inum : Nat]
      <4>1. \A e \in Dirents : e.inum \in Nat
        OBVIOUS
      <4> HIDE DEF Dirents
      <4>2. entries \in Seq(Dirents)
        BY <3>1 DEF Dirents
      <4>3. \A k \in 1 .. Len(entries) : entries[k] \in Dirents
        BY <4>2
      <4> QED
        BY <4>1, <4>3, Zenon
    <3>3. DOMAIN entries = 1 .. Len(entries)
      BY <3>1
    <3> QED
      BY <3>2, <3>3, Zenon
  <2>6. ASSUME NEW k \in own
        PROVE  IF builder = "vsfs"
                 THEN \E ino \in DOMAIN dinode : Led(entries[k]) = {ino} /\ dinode[ino].file = n
                 ELSE Led(entries[k]) = {}
    <3>1. CASE builder = "vsfs"
      <4>1. PICK ino \in DOMAIN dinode : InumOf(ino) = entries[k].inum /\ dinode[ino].file = n
        BY <2>1, <3>1, Zenon DEF EntriesInv, EntryFinds
      <4>2. entries[k].inum = ino
        BY <3>1, <4>1 DEF InumOf
      <4>3. \A jno \in DOMAIN dinode : InodeAt(jno) = TableAt(entries[k].inum) <=> jno = ino
        <5>1. \A bit, c \in Int : bit * 56 + 3 * 4096 = c * 56 + 3 * 4096 <=> bit = c
          OBVIOUS
        <5>2. ino \in Int
          BY <2>4
        <5> QED
          BY <2>4, <3>1, <4>2, <5>1, <5>2 DEF InodeAt, TableAt, BSIZE
      <4>4. Led(entries[k]) = {ino}
        BY <4>1, <4>3 DEF Led
      <4> QED
        BY <3>1, <4>1, <4>4
    <3>2. CASE builder # "vsfs"
      <4>1. \A ino \in DOMAIN dinode : InodeAt(ino) # TableAt(entries[k].inum)
        BY <2>4, <2>5, <3>2 DEF InodeAt, TableAt, BSIZE
      <4> QED
        BY <3>2, <4>1 DEF Led
    <3> QED
      BY <3>1, <3>2
  <2>7. CASE builder = "vsfs" /\ n = 1 /\ filecnt > 1
    <3>1. Lost = 1
      BY <2>7 DEF Lost
    <3>2. own = {}
      BY <2>1, <2>2, <2>3, <2>7, <3>1
    <3> QED
      BY <2>7, <3>2
  <2>8. CASE ~(builder = "vsfs" /\ n = 1 /\ filecnt > 1)
    <3>1. Lost \in 0 .. 1 /\ n - Lost \in 1 .. filecnt - Lost
      BY <2>1, <2>8 DEF Lost
    <3>2. own = {n - Lost}
      BY <2>1, <2>2, <2>3, <3>1
    <3>3. n - Lost \in own
      BY <3>2
    <3> HIDE DEF own
    <3> QED
      BY <2>6, <2>8, <3>2, <3>3, Zenon DEF own
  <2> QED
    BY <2>7, <2>8
<1> QED
  BY <1>1, VsfsInvariance, PTL

\* The blocks of a text of any length are its own, and as long as it is not longer
\* than one block, with vsfs_0.1 two, they are all there and in order
\* (vsfs/vsfs.c:51-53, vsfs_0.1/vsfs.c:207-208).
THEOREM TextsStayStored == VsfsSpec => []TextsAreStored
<1>1. VsfsInv => TextsAreStored
  BY DEF VsfsInv, TextsInv
<1> QED
  BY <1>1, VsfsInvariance, PTL

-----------------------------------------------------------------------------
(* IpLab.  The octets of the mask of n bits are those of its bits, the table *)
(* is searched in every order of its lines, and what is asked is in the      *)
(* network it is found in.                                                   *)

\* The sizes that the part of a network in an octet may have.
Sizes == {1, 2, 4, 8, 16, 32, 64, 128, 256}

LEMMA BitsAre ==
  ASSUME NEW k \in Places, NEW n \in 0 .. 32
  PROVE  /\ BitsIn(k, n) \in 0 .. 8
         /\ \A m \in n .. 32 : BitsIn(k, n) <= BitsIn(k, m)
BY DEF BitsIn, Places

\* The sizes by the bits.
SizeOf(b) ==
  IF b = 0 THEN 256 ELSE IF b = 1 THEN 128 ELSE IF b = 2 THEN 64 ELSE IF b = 3 THEN 32
  ELSE IF b = 4 THEN 16 ELSE IF b = 5 THEN 8 ELSE IF b = 6 THEN 4 ELSE IF b = 7 THEN 2 ELSE 1

LEMMA DevicesIs ==
  ASSUME NEW k \in Places, NEW n \in 0 .. 32
  PROVE  Devices(k, n) = SizeOf(BitsIn(k, n)) /\ Devices(k, n) \in Sizes
<1>1. PICK b \in 0 .. 8 : b = BitsIn(k, n)
  BY BitsAre
<1>2. PICK t : t = <<256, 128, 64, 32, 16, 8, 4, 2, 1>>
  OBVIOUS
<1>3. /\ t[1] = 256 /\ t[2] = 128 /\ t[3] = 64 /\ t[4] = 32 /\ t[5] = 16 /\ t[6] = 8
      /\ t[7] = 4 /\ t[8] = 2 /\ t[9] = 1
  BY <1>2
<1>4. Devices(k, n) = t[b + 1]
  BY <1>1, <1>2, Zenon DEF Devices
<1>5. b = 0 \/ b = 1 \/ b = 2 \/ b = 3 \/ b = 4 \/ b = 5 \/ b = 6 \/ b = 7 \/ b = 8
  OBVIOUS
<1>6. t[b + 1] = SizeOf(b) /\ SizeOf(b) \in Sizes
  BY <1>3, <1>5 DEF SizeOf, Sizes
<1> QED
  BY <1>1, <1>4, <1>6

\* A longer mask leaves no more.
LEMMA DevicesFall ==
  ASSUME NEW k \in Places, NEW n \in 0 .. 32, NEW m \in n .. 32
  PROVE  Devices(k, m) <= Devices(k, n)
<1>1. PICK b \in 0 .. 8, c \in 0 .. 8 : b = BitsIn(k, n) /\ c = BitsIn(k, m) /\ b <= c
  BY BitsAre
<1>2. SizeOf(c) <= SizeOf(b)
  BY <1>1 DEF SizeOf
<1>3. m \in 0 .. 32
  OBVIOUS
<1> QED
  BY <1>1, <1>2, <1>3, DevicesIs

LEMMA RestOfSize ==
  ASSUME NEW oct \in Octet, NEW s \in Sizes
  PROVE  oct % s \in 0 .. s - 1 /\ oct - (oct % s) \in Octet /\ oct % s \in Octet
<1>1. CASE s = 1
  BY <1>1 DEF Octet
<1>2. CASE s = 2
  BY <1>2 DEF Octet
<1>3. CASE s = 4
  BY <1>3 DEF Octet
<1>4. CASE s = 8
  BY <1>4 DEF Octet
<1>5. CASE s = 16
  BY <1>5 DEF Octet
<1>6. CASE s = 32
  BY <1>6 DEF Octet
<1>7. CASE s = 64
  BY <1>7 DEF Octet
<1>8. CASE s = 128
  BY <1>8 DEF Octet
<1>9. CASE s = 256
  BY <1>9, SMTT(40) DEF Octet
<1> QED
  BY <1>1, <1>2, <1>3, <1>4, <1>5, <1>6, <1>7, <1>8, <1>9 DEF Sizes

\* An address is made up of its two parts.
LEMMA PartsAre ==
  ASSUME NEW addr \in Addresses, NEW n \in 0 .. 32
  PROVE  /\ DevOf(addr, n) \in Addresses /\ NetOf(addr, n) \in Addresses
         /\ make_mask(n) \in Addresses
         /\ \A k \in Places : /\ DevOf(addr, n)[k] = addr[k] % Devices(k, n)
                              /\ NetOf(addr, n)[k] = addr[k] - (addr[k] % Devices(k, n))
                              /\ make_mask(n)[k] = 256 - Devices(k, n)
                              /\ addr[k] = NetOf(addr, n)[k] + DevOf(addr, n)[k]
<1>1. ASSUME NEW k \in Places
      PROVE  /\ addr[k] % Devices(k, n) \in Octet
             /\ addr[k] - (addr[k] % Devices(k, n)) \in Octet
             /\ 256 - Devices(k, n) \in Octet
             /\ addr[k] = (addr[k] - (addr[k] % Devices(k, n))) + (addr[k] % Devices(k, n))
  <2>1. PICK oct \in Octet : oct = addr[k]
    BY DEF Addresses
  <2>2. PICK s \in Sizes : s = Devices(k, n)
    BY DevicesIs
  <2>3. oct % s \in Octet /\ oct - (oct % s) \in Octet
    BY <2>1, RestOfSize
  <2>4. 256 - s \in Octet
    BY DEF Octet, Sizes
  <2>5. oct = (oct - (oct % s)) + (oct % s)
    BY <2>1, <2>3 DEF Octet
  <2> QED
    BY <2>1, <2>2, <2>3, <2>4, <2>5, Zenon
<1>2. \A k \in Places : /\ DevOf(addr, n)[k] = addr[k] % Devices(k, n)
                        /\ NetOf(addr, n)[k] = addr[k] - (addr[k] % Devices(k, n))
                        /\ make_mask(n)[k] = 256 - Devices(k, n)
  BY Zenon DEF DevOf, NetOf, make_mask
<1>3. DevOf(addr, n) \in Addresses /\ NetOf(addr, n) \in Addresses /\ make_mask(n) \in Addresses
  <2>1. DevOf(addr, n) \in Addresses
    BY <1>1, Zenon DEF DevOf, Addresses
  <2>2. NetOf(addr, n) \in Addresses
    BY <1>1, <1>2, ZenonT(40) DEF NetOf, Addresses
  <2>3. make_mask(n) \in Addresses
    BY <1>1, Zenon DEF make_mask, Addresses
  <2> QED
    BY <2>1, <2>2, <2>3
<1> QED
  BY <1>1, <1>2, <1>3, ZenonT(40)

\* The addresses of networks have no bits behind their masks.
IsNetwork(addr, n) ==
  /\ addr \in Addresses /\ n \in 0 .. 32
  /\ \A k \in Places : addr[k] % Devices(k, n) = 0

LEMMA ZeroRests ==
  ASSUME NEW addr \in Addresses, NEW n \in 0 .. 32,
         \A k \in Places : addr[k] % SizeOf(BitsIn(k, n)) = 0
  PROVE  IsNetwork(addr, n)
<1>1. \A k \in Places : Devices(k, n) = SizeOf(BitsIn(k, n))
  BY DevicesIs
<1> QED
  BY <1>1, Zenon DEF IsNetwork

LEMMA FirstNetwork == IsNetwork(<<192, 168, 10, 0>>, 24)
<1>1. BitsIn(1, 24) = 8 /\ BitsIn(2, 24) = 8 /\ BitsIn(3, 24) = 8 /\ BitsIn(4, 24) = 0
  BY DEF BitsIn
<1>2. SizeOf(0) = 256 /\ SizeOf(8) = 1
  BY DEF SizeOf
<1>3. PICK addr : addr = <<192, 168, 10, 0>>
  OBVIOUS
<1>4. /\ addr \in Addresses
      /\ addr[1] = 192 /\ addr[2] = 168 /\ addr[3] = 10 /\ addr[4] = 0
  BY <1>3 DEF Addresses, Places, Octet
<1>5. 192 % 1 = 0 /\ 168 % 1 = 0 /\ 10 % 1 = 0 /\ 0 % 256 = 0
  OBVIOUS
<1>6. IsNetwork(addr, 24)
  <2>1. 24 \in 0 .. 32
    OBVIOUS
  <2>2. addr[1] % SizeOf(BitsIn(1, 24)) = 0
    BY <1>1, <1>2, <1>4, <1>5
  <2>3. addr[2] % SizeOf(BitsIn(2, 24)) = 0
    BY <1>1, <1>2, <1>4, <1>5
  <2>4. addr[3] % SizeOf(BitsIn(3, 24)) = 0
    BY <1>1, <1>2, <1>4, <1>5
  <2>5. addr[4] % SizeOf(BitsIn(4, 24)) = 0
    BY <1>1, <1>2, <1>4, <1>5
  <2>6. \A k \in Places : addr[k] % SizeOf(BitsIn(k, 24)) = 0
    BY <2>2, <2>3, <2>4, <2>5 DEF Places
  <2> QED
    BY <1>4, <2>1, <2>6, ZeroRests
<1> QED
  BY <1>3, <1>6, Zenon

LEMMA SecondNetwork == IsNetwork(<<192, 168, 160, 0>>, 19)
<1>1. BitsIn(1, 19) = 8 /\ BitsIn(2, 19) = 8 /\ BitsIn(3, 19) = 3 /\ BitsIn(4, 19) = 0
  BY DEF BitsIn
<1>2. SizeOf(0) = 256 /\ SizeOf(3) = 32 /\ SizeOf(8) = 1
  BY DEF SizeOf
<1>3. PICK addr : addr = <<192, 168, 160, 0>>
  OBVIOUS
<1>4. /\ addr \in Addresses
      /\ addr[1] = 192 /\ addr[2] = 168 /\ addr[3] = 160 /\ addr[4] = 0
  BY <1>3 DEF Addresses, Places, Octet
<1>5. 192 % 1 = 0 /\ 168 % 1 = 0 /\ 160 % 32 = 0 /\ 0 % 256 = 0
  OBVIOUS
<1>6. IsNetwork(addr, 19)
  <2>1. 19 \in 0 .. 32
    OBVIOUS
  <2>2. addr[1] % SizeOf(BitsIn(1, 19)) = 0
    BY <1>1, <1>2, <1>4, <1>5
  <2>3. addr[2] % SizeOf(BitsIn(2, 19)) = 0
    BY <1>1, <1>2, <1>4, <1>5
  <2>4. addr[3] % SizeOf(BitsIn(3, 19)) = 0
    BY <1>1, <1>2, <1>4, <1>5
  <2>5. addr[4] % SizeOf(BitsIn(4, 19)) = 0
    BY <1>1, <1>2, <1>4, <1>5
  <2>6. \A k \in Places : addr[k] % SizeOf(BitsIn(k, 19)) = 0
    BY <2>2, <2>3, <2>4, <2>5 DEF Places
  <2> QED
    BY <1>4, <2>1, <2>6, ZeroRests
<1> QED
  BY <1>3, <1>6, Zenon

LEMMA ThirdNetwork == IsNetwork(<<141, 127, 0, 0>>, 16)
<1>1. BitsIn(1, 16) = 8 /\ BitsIn(2, 16) = 8 /\ BitsIn(3, 16) = 0 /\ BitsIn(4, 16) = 0
  BY DEF BitsIn
<1>2. SizeOf(0) = 256 /\ SizeOf(8) = 1
  BY DEF SizeOf
<1>3. PICK addr : addr = <<141, 127, 0, 0>>
  OBVIOUS
<1>4. /\ addr \in Addresses
      /\ addr[1] = 141 /\ addr[2] = 127 /\ addr[3] = 0 /\ addr[4] = 0
  BY <1>3 DEF Addresses, Places, Octet
<1>5. 141 % 1 = 0 /\ 127 % 1 = 0 /\ 0 % 256 = 0 /\ 0 % 256 = 0
  OBVIOUS
<1>6. IsNetwork(addr, 16)
  <2>1. 16 \in 0 .. 32
    OBVIOUS
  <2>2. addr[1] % SizeOf(BitsIn(1, 16)) = 0
    BY <1>1, <1>2, <1>4, <1>5
  <2>3. addr[2] % SizeOf(BitsIn(2, 16)) = 0
    BY <1>1, <1>2, <1>4, <1>5
  <2>4. addr[3] % SizeOf(BitsIn(3, 16)) = 0
    BY <1>1, <1>2, <1>4, <1>5
  <2>5. addr[4] % SizeOf(BitsIn(4, 16)) = 0
    BY <1>1, <1>2, <1>4, <1>5
  <2>6. \A k \in Places : addr[k] % SizeOf(BitsIn(k, 16)) = 0
    BY <2>2, <2>3, <2>4, <2>5 DEF Places
  <2> QED
    BY <1>4, <2>1, <2>6, ZeroRests
<1> QED
  BY <1>3, <1>6, Zenon

LEMMA FourthNetwork == IsNetwork(<<195, 0, 172, 0>>, 22)
<1>1. BitsIn(1, 22) = 8 /\ BitsIn(2, 22) = 8 /\ BitsIn(3, 22) = 6 /\ BitsIn(4, 22) = 0
  BY DEF BitsIn
<1>2. SizeOf(0) = 256 /\ SizeOf(6) = 4 /\ SizeOf(8) = 1
  BY DEF SizeOf
<1>3. PICK addr : addr = <<195, 0, 172, 0>>
  OBVIOUS
<1>4. /\ addr \in Addresses
      /\ addr[1] = 195 /\ addr[2] = 0 /\ addr[3] = 172 /\ addr[4] = 0
  BY <1>3 DEF Addresses, Places, Octet
<1>5. 195 % 1 = 0 /\ 0 % 1 = 0 /\ 172 % 4 = 0 /\ 0 % 256 = 0
  OBVIOUS
<1>6. IsNetwork(addr, 22)
  <2>1. 22 \in 0 .. 32
    OBVIOUS
  <2>2. addr[1] % SizeOf(BitsIn(1, 22)) = 0
    BY <1>1, <1>2, <1>4, <1>5
  <2>3. addr[2] % SizeOf(BitsIn(2, 22)) = 0
    BY <1>1, <1>2, <1>4, <1>5
  <2>4. addr[3] % SizeOf(BitsIn(3, 22)) = 0
    BY <1>1, <1>2, <1>4, <1>5
  <2>5. addr[4] % SizeOf(BitsIn(4, 22)) = 0
    BY <1>1, <1>2, <1>4, <1>5
  <2>6. \A k \in Places : addr[k] % SizeOf(BitsIn(k, 22)) = 0
    BY <2>2, <2>3, <2>4, <2>5 DEF Places
  <2> QED
    BY <1>4, <2>1, <2>6, ZeroRests
<1> QED
  BY <1>3, <1>6, Zenon

LEMMA NetworksAre ==
  /\ DOMAIN Networks = 1 .. 4
  /\ \A k \in 1 .. 4 : IsNetwork(Networks[k].addr, Networks[k].mask)
  /\ \A j, k \in 1 .. 4 : j # k => Networks[j].addr # Networks[k].addr
<1>1. PICK oct, b, c, d : /\ oct = <<192, 168, 10, 0>> /\ b = <<192, 168, 160, 0>>
                        /\ c = <<141, 127, 0, 0>> /\ d = <<195, 0, 172, 0>>
  OBVIOUS
<1>2. oct # b /\ oct # c /\ oct # d /\ b # c /\ b # d /\ c # d
  <2>1. oct[3] = 10 /\ b[3] = 160 /\ oct[1] = 192 /\ b[1] = 192 /\ c[1] = 141 /\ d[1] = 195
    BY <1>1
  <2> QED
    BY <2>1
<1>3. Networks = << [addr |-> oct, mask |-> 24], [addr |-> b, mask |-> 19],
                    [addr |-> c, mask |-> 16], [addr |-> d, mask |-> 22] >>
  BY <1>1, ZenonT(40) DEF Networks
<1>4. /\ DOMAIN Networks = 1 .. 4
      /\ Networks[1].addr = oct /\ Networks[2].addr = b /\ Networks[3].addr = c
      /\ Networks[4].addr = d
      /\ Networks[1].mask = 24 /\ Networks[2].mask = 19 /\ Networks[3].mask = 16
      /\ Networks[4].mask = 22
  BY <1>3
<1>5. IsNetwork(oct, 24) /\ IsNetwork(b, 19) /\ IsNetwork(c, 16) /\ IsNetwork(d, 22)
  BY <1>1, FirstNetwork, SecondNetwork, ThirdNetwork, FourthNetwork, Zenon
<1>6. \A k \in 1 .. 4 : k = 1 \/ k = 2 \/ k = 3 \/ k = 4
  OBVIOUS
<1>7. \A k \in 1 .. 4 : IsNetwork(Networks[k].addr, Networks[k].mask)
  BY <1>4, <1>5, <1>6, Zenon
<1>8. \A j, k \in 1 .. 4 : j # k => Networks[j].addr # Networks[k].addr
  BY <1>2, <1>4, <1>6
<1> QED
  BY <1>4, <1>7, <1>8, Zenon

\* Two addresses with the same octets are one.
LEMMA SameOctets ==
  ASSUME NEW oct \in Addresses, NEW b \in Addresses, \A k \in Places : oct[k] = b[k]
  PROVE  oct = b
BY DEF Addresses

LEMMA OwnNetwork ==
  ASSUME NEW addr, NEW n, IsNetwork(addr, n)
  PROVE  NetOf(addr, n) = addr
<1>1. addr \in Addresses /\ n \in 0 .. 32 /\ \A k \in Places : addr[k] % Devices(k, n) = 0
  BY Zenon DEF IsNetwork
<1>2. ASSUME NEW k \in Places
      PROVE  NetOf(addr, n)[k] = addr[k]
  <2>1. PICK oct \in Octet : oct = addr[k]
    BY <1>1 DEF Addresses
  <2>2. NetOf(addr, n)[k] = addr[k] - (addr[k] % Devices(k, n))
    BY <1>1, PartsAre, SMTT(40)
  <2>3. addr[k] % Devices(k, n) = 0
    BY <1>1
  <2> QED
    BY <2>1, <2>2, <2>3 DEF Octet
<1> QED
  BY <1>1, <1>2, PartsAre, SameOctets

LEMMA RestOfSum ==
  ASSUME NEW v \in Int, NEW r \in Int, 0 <= r, NEW t \in Int, t > 0, r < t, v % t = 0
  PROVE  (v + r) % t = r
<1>1. PICK q \in Int : v = t * q
  <2>1. v = t * (v \div t) + (v % t) /\ v \div t \in Int
    OBVIOUS
  <2> QED
    BY <2>1
<1>2. PICK oct \in Int : oct = v + r
  OBVIOUS
<1>3. PICK wid \in Int, z \in Int : oct = t * wid + z /\ 0 <= z /\ z < t /\ z = oct % t
  <2>1. PICK wid \in Int, z \in Int : wid = oct \div t /\ z = oct % t
    OBVIOUS
  <2>2. oct = t * (oct \div t) + (oct % t) /\ oct % t \in 0 .. t - 1
    OBVIOUS
  <2>3. oct = t * wid + z
    BY <2>1, <2>2, Zenon
  <2>4. 0 <= z /\ z < t
    BY <2>1, <2>2
  <2> QED
    BY <2>1, <2>3, <2>4, Zenon
<1>4. t * q + r = t * wid + z
  BY <1>1, <1>2, <1>3
<1>5. PICK d \in Int : d = q - wid
  OBVIOUS
<1>6. t * d = z - r
  BY <1>3, <1>4, <1>5
<1>7. CASE d = 0
  BY <1>2, <1>3, <1>6, <1>7
<1>8. CASE d >= 1
  <2>1. t * d >= t
    BY <1>8
  <2> QED
    BY <1>3, <1>6, <2>1
<1>9. CASE d <= -1
  <2>1. t * d <= -t
    BY <1>9
  <2> QED
    BY <1>3, <1>6, <2>1
<1> QED
  BY <1>5, <1>7, <1>8, <1>9

LEMMA InLargerNetwork ==
  ASSUME NEW oct \in Octet, NEW v \in Octet, NEW s \in Sizes, NEW t \in Sizes, s <= t,
         oct - (oct % s) = v, v % t = 0
  PROVE  oct - (oct % t) = v
<1>1. oct % s \in 0 .. s - 1
  BY RestOfSize
<1>2. oct \in Int /\ v \in Int /\ s \in Int /\ t \in Int /\ t > 0
  BY DEF Octet, Sizes
<1>3. PICK r \in Int : r = oct % s /\ 0 <= r /\ r < s /\ oct = v + r
  BY <1>1, <1>2
<1>4. oct % t = r
  BY <1>2, <1>3, RestOfSum
<1> QED
  BY <1>2, <1>3, <1>4

\* What is in a network with a longer mask is in it.
LEMMA InLonger ==
  ASSUME NEW addr \in Addresses, NEW net, NEW m, IsNetwork(net, m), NEW n \in m .. 32,
         NetOf(addr, n) = net
  PROVE  NetOf(addr, m) = net
<1>1. net \in Addresses /\ m \in 0 .. 32 /\ \A k \in Places : net[k] % Devices(k, m) = 0
  BY Zenon DEF IsNetwork
<1>2. n \in 0 .. 32
  BY <1>1
<1>3. ASSUME NEW k \in Places
      PROVE  NetOf(addr, m)[k] = net[k]
  <2>1. PICK oct \in Octet : oct = addr[k]
    BY DEF Addresses
  <2>2. PICK v \in Octet : v = net[k]
    BY <1>1 DEF Addresses
  <2>3. PICK s \in Sizes : s = Devices(k, n)
    BY <1>2, DevicesIs
  <2>4. PICK t \in Sizes : t = Devices(k, m)
    BY <1>1, DevicesIs
  <2>5. s <= t
    BY <1>1, <2>3, <2>4, DevicesFall
  <2>6. oct - (oct % s) = v /\ v % t = 0
    BY <1>1, <1>2, <2>1, <2>2, <2>3, <2>4, PartsAre, ZenonT(40)
  <2>7. oct - (oct % t) = v
    BY <2>5, <2>6, InLargerNetwork
  <2> QED
    BY <1>1, <2>1, <2>2, <2>4, <2>7, PartsAre, Zenon
<1> QED
  BY <1>1, <1>3, PartsAre, SameOctets

\* What is stored of a line is an address and an octet.
LEMMA StoredIs ==
  ASSUME NEW line \in Lines
  PROVE  Stored(line)[5] \in Octet /\ SubSeq(Stored(line), 1, 4) \in Addresses
<1>1. line \in [1 .. 5 -> Nat]
  BY LinesAssumption
<1>2. PICK kept : kept = Stored(line)
  OBVIOUS
<1>3. kept \in [1 .. 5 -> Octet]
  BY <1>1, <1>2, SMTT(40) DEF Stored, Octet
<1>4. \A k \in 1 .. 4 : kept[k] \in Octet
  BY <1>3
<1>5. PICK part : part = SubSeq(kept, 1, 4)
  OBVIOUS
<1>6. part \in Seq(Octet) /\ Len(part) = 4
  BY <1>4, <1>5, SubSeqProperties
<1>7. part \in [1 .. Len(part) -> Octet]
  BY <1>6, LenProperties
<1>8. SubSeq(kept, 1, 4) \in Addresses
  BY <1>5, <1>6, <1>7, Zenon DEF Addresses, Places
<1> QED
  BY <1>2, <1>3, <1>8

LEMMA LookupFinds ==
  ASSUME NEW info
  PROVE  \/ ip_network_lookup(info) = 0 /\ \A k \in 1 .. 4 : ~Matches(info, k)
         \/ ip_network_lookup(info) \in 1 .. 4 /\ Matches(info, ip_network_lookup(info))
<1>1. CASE \A k \in 1 .. 4 : ~Matches(info, k)
  BY <1>1, NetworksAre, Zenon DEF ip_network_lookup
<1>2. CASE \E k \in 1 .. 4 : Matches(info, k)
  <2> DEFINE S == {k \in 1 .. 4 : Matches(info, k)}
  <2>1. S # {} /\ S \subseteq Nat
    BY <1>2
  <2>2. PICK m \in S : \A k \in S : m <= k
    BY <2>1, LeastElement
  <2>3. \A j \in 1 .. m - 1 : ~Matches(info, j)
    BY <2>2
  <2>4. m \in 1 .. 4 /\ Matches(info, m)
    BY <2>2
  <2>5. ip_network_lookup(info) = CHOOSE k \in 1 .. 4 :
           Matches(info, k) /\ \A j \in 1 .. k - 1 : ~Matches(info, j)
    BY <1>2, NetworksAre, Zenon DEF ip_network_lookup
  <2> HIDE DEF S
  <2> QED
    BY <2>3, <2>4, <2>5, Zenon
<1> QED
  BY <1>1, <1>2, Zenon

\* A network that matches has the address in it, where the mask is as long as its own.
LEMMA MatchIsNetwork ==
  ASSUME NEW addr \in Addresses, NEW n \in 0 .. 32, NEW info, info = ip_init(addr, n),
         NEW k \in 1 .. 4
  PROVE  /\ Matches(info, k) <=> NetOf(addr, n) = Networks[k].addr
         /\ NetOf(addr, n) = Networks[k].addr /\ n >= Networks[k].mask => Inside(addr, k)
<1>1. IsNetwork(Networks[k].addr, Networks[k].mask)
  BY NetworksAre
<1>2. NetOf(Networks[k].addr, Networks[k].mask) = Networks[k].addr
  BY <1>1, OwnNetwork, Zenon
<1>3. Matches(info, k) <=> NetOf(addr, n) = Networks[k].addr
  <2>1. info.net_addr = NetOf(addr, n)
    BY DEF ip_init
  <2> QED
    BY <1>2, <2>1, Zenon DEF Matches
<1>4. ASSUME NetOf(addr, n) = Networks[k].addr, n >= Networks[k].mask
      PROVE  Inside(addr, k)
  <2>1. Networks[k].mask \in 0 .. 32
    BY <1>1, Zenon DEF IsNetwork
  <2>2. n \in Networks[k].mask .. 32
    BY <1>4, <2>1
  <2> QED
    BY <1>1, <1>4, <2>2, InLonger, ZenonT(40) DEF Inside
<1> QED
  BY <1>3, <1>4, Zenon

\* The masks of the ranges have their lengths.
LEMMA LengthOfMask ==
  ASSUME NEW n \in 0 .. 32
  PROVE  /\ make_mask(n) = <<255, 0, 0, 0>> => n = 8
         /\ make_mask(n) # <<63, 240, 0, 0>>
         /\ make_mask(n) = <<255, 240, 0, 0>> => n = 12
         /\ make_mask(n) = <<255, 255, 0, 0>> => n = 16
<1>1. PICK mask : mask = make_mask(n)
  OBVIOUS
<1>2. \A k \in Places : mask[k] = 256 - SizeOf(BitsIn(k, n)) /\ BitsIn(k, n) \in 0 .. 8
  BY <1>1, DevicesIs, BitsAre, Zenon DEF make_mask
<1>3. /\ mask[1] = 256 - SizeOf(BitsIn(1, n)) /\ BitsIn(1, n) \in 0 .. 8
      /\ mask[2] = 256 - SizeOf(BitsIn(2, n)) /\ BitsIn(2, n) \in 0 .. 8
      /\ mask[3] = 256 - SizeOf(BitsIn(3, n)) /\ BitsIn(3, n) \in 0 .. 8
  BY <1>2 DEF Places
<1>4. \A b \in 0 .. 8 : /\ 256 - SizeOf(b) = 255 => b = 8
                        /\ 256 - SizeOf(b) = 0 => b = 0
                        /\ 256 - SizeOf(b) = 240 => b = 4
                        /\ 256 - SizeOf(b) # 63
  BY DEF SizeOf
<1>5. /\ BitsIn(1, n) = 8 => n >= 8
      /\ BitsIn(2, n) = 0 => n <= 8
      /\ BitsIn(2, n) = 4 => n = 12
      /\ BitsIn(2, n) = 8 => n >= 16
      /\ BitsIn(3, n) = 0 => n <= 16
  BY DEF BitsIn
<1>6. ASSUME mask = <<255, 0, 0, 0>> PROVE n = 8
  <2>1. mask[1] = 255 /\ mask[2] = 0
    BY <1>6
  <2>2. BitsIn(1, n) = 8 /\ BitsIn(2, n) = 0
    BY <1>3, <1>4, <2>1
  <2> QED
    BY <1>5, <2>2
<1>7. ASSUME mask = <<63, 240, 0, 0>> PROVE FALSE
  <2>1. mask[1] = 63
    BY <1>7
  <2> QED
    BY <1>3, <1>4, <2>1
<1>8. ASSUME mask = <<255, 240, 0, 0>> PROVE n = 12
  <2>1. mask[2] = 240
    BY <1>8
  <2>2. BitsIn(2, n) = 4
    BY <1>3, <1>4, <2>1
  <2> QED
    BY <1>5, <2>2
<1>9. ASSUME mask = <<255, 255, 0, 0>> PROVE n = 16
  <2>1. mask[2] = 255 /\ mask[3] = 0
    BY <1>9
  <2>2. BitsIn(2, n) = 8 /\ BitsIn(3, n) = 0
    BY <1>3, <1>4, <2>1
  <2> QED
    BY <1>5, <2>2
<1> QED
  BY <1>1, <1>6, <1>7, <1>8, <1>9, Zenon

\* The four variants of a local address.
IsLocalIn(addr, n) ==
  \/ \E range \in Table \ {Shared} : InRange(addr, range) /\ n = range.mask
  \/ addr[1] = 127 /\ n = 8

LEMMA InTable ==
  ASSUME NEW addr, NEW n, NEW range \in Table \ {Shared}, InRange(addr, range), n = range.mask
  PROVE  IsLocalIn(addr, n)
BY DEF IsLocalIn

LEMMA LocalIsInTable ==
  ASSUME NEW addr \in Addresses, NEW n \in 0 .. 32, NEW info, info = ip_init(addr, n),
         ip_is_local(info)
  PROVE  IsLocalIn(addr, n)
<1>1. info.ip_addr = addr /\ info.net_mask = make_mask(n)
  BY DEF ip_init
<1>2. \/ addr[1] = 10 /\ n = 8
      \/ addr[1] = 127 /\ n = 8
      \/ addr[1] = 172 /\ addr[2] \in 16 .. 31 /\ n = 12
      \/ addr[1] = 192 /\ addr[2] = 168 /\ n = 16
  <2>1. \/ addr[1] \in {10, 127} /\ make_mask(n) = <<255, 0, 0, 0>>
        \/ make_mask(n) = <<63, 240, 0, 0>>
        \/ addr[1] = 172 /\ addr[2] \in 16 .. 31 /\ make_mask(n) = <<255, 240, 0, 0>>
        \/ addr[1] = 192 /\ addr[2] = 168 /\ make_mask(n) = <<255, 255, 0, 0>>
    BY <1>1 DEF ip_is_local
  <2>2. CASE addr[1] \in {10, 127} /\ make_mask(n) = <<255, 0, 0, 0>>
    <3>1. n = 8
      BY <2>2, LengthOfMask, Zenon
    <3> QED
      BY <2>2, <3>1
  <2>3. CASE make_mask(n) = <<63, 240, 0, 0>>
    BY <2>3, LengthOfMask, Zenon
  <2>4. CASE addr[1] = 172 /\ addr[2] \in 16 .. 31 /\ make_mask(n) = <<255, 240, 0, 0>>
    <3>1. n = 12
      <4>1. make_mask(n) = <<255, 240, 0, 0>>
        BY <2>4, Zenon
      <4> QED
        BY <4>1, LengthOfMask
    <3> QED
      BY <2>4, <3>1
  <2>5. CASE addr[1] = 192 /\ addr[2] = 168 /\ make_mask(n) = <<255, 255, 0, 0>>
    <3>1. n = 16
      <4>1. make_mask(n) = <<255, 255, 0, 0>>
        BY <2>5, Zenon
      <4> QED
        BY <4>1, LengthOfMask
    <3> QED
      BY <2>5, <3>1
  <2> QED
    BY <2>1, <2>2, <2>3, <2>4, <2>5, Zenon
<1>3. addr[1] \in Nat /\ addr[2] \in Nat /\ addr[2] <= 255
  BY DEF Addresses, Places, Octet
<1>4. CASE addr[1] = 10 /\ n = 8
  <2>1. PICK range : range = [first |-> <<10, 0>>, last |-> <<10, 255>>, mask |-> 8]
    OBVIOUS
  <2>2. /\ range.mask = 8 /\ range.first[1] = 10 /\ range.first[2] = 0
        /\ range.last[1] = 10 /\ range.last[2] = 255
    BY <2>1
  <2>3. range \in Table /\ range # Shared
    BY <2>1, <2>2 DEF Table, Shared
  <2>4. InRange(addr, range)
    BY <1>3, <1>4, <2>2 DEF InRange
  <2>5. n = range.mask
    BY <1>4, <2>2, Zenon
  <2> QED
    BY <2>3, <2>4, <2>5, InTable, Zenon
<1>5. CASE addr[1] = 172 /\ addr[2] \in 16 .. 31 /\ n = 12
  <2>1. PICK range : range = [first |-> <<172, 16>>, last |-> <<172, 31>>, mask |-> 12]
    OBVIOUS
  <2>2. /\ range.mask = 12 /\ range.first[1] = 172 /\ range.first[2] = 16
        /\ range.last[1] = 172 /\ range.last[2] = 31
    BY <2>1
  <2>3. range \in Table /\ range # Shared
    BY <2>1, <2>2 DEF Table, Shared
  <2>4. InRange(addr, range)
    BY <1>3, <1>5, <2>2 DEF InRange
  <2>5. n = range.mask
    BY <1>5, <2>2, Zenon
  <2> QED
    BY <2>3, <2>4, <2>5, InTable, Zenon
<1>6. CASE addr[1] = 192 /\ addr[2] = 168 /\ n = 16
  <2>1. PICK range : range = [first |-> <<192, 168>>, last |-> <<192, 168>>, mask |-> 16]
    OBVIOUS
  <2>2. /\ range.mask = 16 /\ range.first[1] = 192 /\ range.first[2] = 168
        /\ range.last[1] = 192 /\ range.last[2] = 168
    BY <2>1
  <2>3. range \in Table /\ range # Shared
    BY <2>1, <2>2 DEF Table, Shared
  <2>4. InRange(addr, range)
    BY <1>3, <1>6, <2>2 DEF InRange
  <2>5. n = range.mask
    BY <1>6, <2>2, Zenon
  <2> QED
    BY <2>3, <2>4, <2>5, InTable, Zenon
<1>7. CASE addr[1] = 127 /\ n = 8
  BY <1>7, Zenon DEF IsLocalIn
<1> QED
  BY <1>2, <1>4, <1>5, <1>6, <1>7

\* The lengths of the ranges have their masks.
LEMMA MaskOfLength ==
  /\ make_mask(8)  = <<255, 0, 0, 0>>
  /\ make_mask(12) = <<255, 240, 0, 0>>
  /\ make_mask(16) = <<255, 255, 0, 0>>
<1>1. \A n \in {8, 12, 16} : \A k \in Places :
        make_mask(n)[k] = 256 - SizeOf(BitsIn(k, n)) /\ make_mask(n) = [j \in Places |-> make_mask(n)[j]]
  BY DevicesIs DEF make_mask
<1>2. SizeOf(0) = 256 /\ SizeOf(4) = 16 /\ SizeOf(8) = 1
  BY DEF SizeOf
<1>3. \A k \in {1, 2, 3, 4} : BitsIn(k, 8) = (IF k = 1 THEN 8 ELSE 0)
  BY DEF BitsIn
<1>4. \A k \in {1, 2, 3, 4} : BitsIn(k, 12) = (IF k = 1 THEN 8 ELSE IF k = 2 THEN 4 ELSE 0)
  BY DEF BitsIn
<1>5. \A k \in {1, 2, 3, 4} : BitsIn(k, 16) = (IF k \in {1, 2} THEN 8 ELSE 0)
  BY DEF BitsIn
<1>6. Places = {1, 2, 3, 4}
  BY DEF Places
<1>7. ASSUME NEW n \in {8, 12, 16}, NEW v \in [1 .. 4 -> Int],
             \A k \in Places : v[k] = 256 - SizeOf(BitsIn(k, n))
      PROVE  make_mask(n) = v
  BY <1>1, <1>7 DEF Places
<1>8. make_mask(8) = <<255, 0, 0, 0>>
  <2>1. PICK v : v = <<255, 0, 0, 0>>
    OBVIOUS
  <2>2. v \in [1 .. 4 -> Int] /\ v[1] = 255 /\ v[2] = 0 /\ v[3] = 0 /\ v[4] = 0
    BY <2>1
  <2>3. \A k \in Places : v[k] = 256 - SizeOf(BitsIn(k, 8))
    BY <1>2, <1>3, <1>6, <2>2
  <2> QED
    BY <1>7, <2>1, <2>2, <2>3
<1>9. make_mask(12) = <<255, 240, 0, 0>>
  <2>1. PICK v : v = <<255, 240, 0, 0>>
    OBVIOUS
  <2>2. v \in [1 .. 4 -> Int] /\ v[1] = 255 /\ v[2] = 240 /\ v[3] = 0 /\ v[4] = 0
    BY <2>1
  <2>3. \A k \in Places : v[k] = 256 - SizeOf(BitsIn(k, 12))
    BY <1>2, <1>4, <1>6, <2>2
  <2> QED
    BY <1>7, <2>1, <2>2, <2>3
<1>10. make_mask(16) = <<255, 255, 0, 0>>
  <2>1. PICK v : v = <<255, 255, 0, 0>>
    OBVIOUS
  <2>2. v \in [1 .. 4 -> Int] /\ v[1] = 255 /\ v[2] = 255 /\ v[3] = 0 /\ v[4] = 0
    BY <2>1
  <2>3. \A k \in Places : v[k] = 256 - SizeOf(BitsIn(k, 16))
    BY <1>2, <1>5, <1>6, <2>2
  <2> QED
    BY <1>7, <2>1, <2>2, <2>3
<1> QED
  BY <1>8, <1>9, <1>10

\* In the table but for 100.64/10, an address is answered local.
LEMMA InTableIsLocal ==
  ASSUME NEW addr \in Addresses, NEW n \in 0 .. 32, NEW info, info = ip_init(addr, n),
         IsLocalIn(addr, n)
  PROVE  ip_is_local(info)
<1>1. info.ip_addr = addr /\ info.net_mask = make_mask(n)
  BY DEF ip_init
<1>2. addr[1] \in Nat /\ addr[2] \in Nat
  BY DEF Addresses, Places, Octet
<1>3. SUFFICES \/ addr[1] \in {10, 127} /\ n = 8
               \/ addr[1] = 172 /\ addr[2] \in 16 .. 31 /\ n = 12
               \/ addr[1] = 192 /\ addr[2] = 168 /\ n = 16
  BY <1>1, MaskOfLength DEF ip_is_local
<1>4. CASE addr[1] = 127 /\ n = 8
  BY <1>4
<1>5. CASE \E range \in Table \ {Shared} : InRange(addr, range) /\ n = range.mask
  <2>1. PICK range \in Table \ {Shared} : InRange(addr, range) /\ n = range.mask
    BY <1>5
  <2>2. addr[1] \in range.first[1] .. range.last[1] /\ addr[2] \in range.first[2] .. range.last[2]
    BY <2>1 DEF InRange
  <2>3. \/ range = [first |-> <<10, 0>>,    last |-> <<10, 255>>,  mask |-> 8]
        \/ range = [first |-> <<172, 16>>,  last |-> <<172, 31>>,  mask |-> 12]
        \/ range = [first |-> <<192, 168>>, last |-> <<192, 168>>, mask |-> 16]
    BY Zenon DEF Table
  <2>4. \/ range.mask = 8 /\ range.first[1] = 10 /\ range.last[1] = 10
        \/ /\ range.mask = 12 /\ range.first[1] = 172 /\ range.last[1] = 172
           /\ range.first[2] = 16 /\ range.last[2] = 31
        \/ /\ range.mask = 16 /\ range.first[1] = 192 /\ range.last[1] = 192
           /\ range.first[2] = 168 /\ range.last[2] = 168
    BY <2>3
  <2> QED
    BY <1>2, <2>1, <2>2, <2>4
<1> QED
  BY <1>4, <1>5, Zenon DEF IsLocalIn

\* The octet behind the last of a part of a network is in the next part.
LEMMA NextPart ==
  ASSUME NEW oct \in Octet, oct < 255, NEW s \in Sizes, oct % s = s - 1
  PROVE  (oct + 1) - ((oct + 1) % s) # oct - (oct % s)
<1>1. CASE s = 1
  BY <1>1 DEF Octet
<1>2. CASE s = 2
  BY <1>2 DEF Octet
<1>3. CASE s = 4
  BY <1>3 DEF Octet
<1>4. CASE s = 8
  BY <1>4 DEF Octet
<1>5. CASE s = 16
  BY <1>5 DEF Octet
<1>6. CASE s = 32
  BY <1>6 DEF Octet
<1>7. CASE s = 64
  BY <1>7 DEF Octet
<1>8. CASE s = 128
  BY <1>8 DEF Octet
<1>9. CASE s = 256
  BY <1>9 DEF Octet
<1> QED
  BY <1>1, <1>2, <1>3, <1>4, <1>5, <1>6, <1>7, <1>8, <1>9 DEF Sizes

\* The place that the address behind one is counted up at.
IsStep(addr, k) == addr[k] < 255 /\ \A later \in k + 1 .. 4 : addr[later] = 255

LEMMA StepIs ==
  ASSUME NEW addr \in Addresses, addr # <<255, 255, 255, 255>>
  PROVE  \E k \in Places : IsStep(addr, k)
<1>1. \A k \in 1 .. 4 : addr[k] \in Nat /\ addr[k] <= 255
  BY DEF Addresses, Places, Octet
<1>2. \E k \in 1 .. 4 : addr[k] # 255
  BY DEF Addresses, Places
<1>3. CASE addr[4] # 255
  BY <1>1, <1>3 DEF IsStep, Places
<1>4. CASE addr[4] = 255 /\ addr[3] # 255
  BY <1>1, <1>4 DEF IsStep, Places
<1>5. CASE addr[4] = 255 /\ addr[3] = 255 /\ addr[2] # 255
  BY <1>1, <1>5 DEF IsStep, Places
<1>6. CASE addr[4] = 255 /\ addr[3] = 255 /\ addr[2] = 255
  BY <1>1, <1>2, <1>6 DEF IsStep, Places
<1> QED
  BY <1>3, <1>4, <1>5, <1>6

LEMMA NextIsElsewhere ==
  ASSUME NEW addr \in Addresses, NEW n \in 0 .. 32, NEW info, info = ip_init(addr, n),
         ip_is_broadcast(info), NEW k \in Places, addr[k] < 255, NEW next,
         next[k] = addr[k] + 1
  PROVE  NetOf(next, n) # NetOf(addr, n)
<1>1. PICK s \in Sizes : s = Devices(k, n)
  BY DevicesIs
<1>2. PICK oct \in Octet : oct = addr[k]
  BY DEF Addresses
<1>3. oct % s = s - 1
  <2>1. info.dev_addr = DevOf(addr, n) /\ info.net_mask = make_mask(n)
    BY DEF ip_init
  <2>2. DevOf(addr, n)[k] = 255 - make_mask(n)[k]
    <3>1. DevOf(addr, n) = [j \in Places |-> 255 - make_mask(n)[j]]
      BY <2>1, Zenon DEF ip_is_broadcast
    <3> QED
      BY <3>1
  <2>3. DevOf(addr, n)[k] = oct % s /\ make_mask(n)[k] = 256 - s
    BY <1>1, <1>2, Zenon DEF DevOf, make_mask
  <2>4. s \in Nat
    BY DEF Sizes
  <2> QED
    BY <2>2, <2>3, <2>4
<1>4. NetOf(next, n)[k] = (oct + 1) - ((oct + 1) % s) /\ NetOf(addr, n)[k] = oct - (oct % s)
  BY <1>1, <1>2, Zenon DEF NetOf, DevOf
<1>5. NetOf(next, n)[k] # NetOf(addr, n)[k]
  BY <1>2, <1>3, <1>4, NextPart
<1> QED
  BY <1>5

\* What is in the variables of main is what ip_init makes of an address, and the
\* answers are those to it.
IpInv ==
  /\ nmask \in 0 .. 32 /\ status \in {-1, 1}
  /\ \E addr \in Addresses : ip = ip_init(addr, nmask)
  /\ (answers = Nothing /\ nmask = 32) \/ answers = Answers(ip)

LEMMA IpKept == IpSpec => []IpInv
<1>1. IpInit => IpInv
  <2> SUFFICES ASSUME IpInit PROVE IpInv
    OBVIOUS
  <2>1. <<0, 0, 0, 0>> \in Addresses
    BY DEF Addresses, Places, Octet
  <2> QED
    BY <2>1 DEF IpInit, IpInv
<1>2. IpInv /\ [IpNext]_ipVars => IpInv'
  <2> SUFFICES ASSUME IpInv, [IpNext]_ipVars PROVE IpInv'
    OBVIOUS
  <2>1. ASSUME NEW line \in Lines, Answer(line)
        PROVE  IpInv'
    <3>1. Stored(line)[5] \in Octet /\ SubSeq(Stored(line), 1, 4) \in Addresses
      BY StoredIs
    <3>2. /\ Stored(line)[5] <= 32 /\ nmask' = Stored(line)[5]
          /\ ip' = ip_init(SubSeq(Stored(line), 1, 4), nmask')
          /\ answers' = Answers(ip') /\ status' = status
      BY <2>1, Zenon DEF Answer, IsMask
    <3>3. nmask' \in 0 .. 32
      BY <3>1, <3>2 DEF Octet
    <3> QED
      BY <3>1, <3>2, <3>3, Zenon DEF IpInv
  <2>2. ASSUME NEW line, Refuse(line)
        PROVE  IpInv'
    BY <2>2 DEF Refuse, IpInv
  <2>3. CASE UNCHANGED ipVars
    BY <2>3, Zenon DEF IpInv, ipVars
  <2> QED
    BY <2>1, <2>2, <2>3 DEF IpNext
<1> QED
  BY <1>1, <1>2, PTL DEF IpSpec

LEMMA IpInvMeans == IpInv => IpTypeOK /\ AnswersRight
<1> SUFFICES ASSUME IpInv PROVE IpTypeOK /\ AnswersRight
  OBVIOUS
<1>1. nmask \in 0 .. 32 /\ status \in {-1, 1}
  BY DEF IpInv
<1>2. PICK addr \in Addresses : ip = ip_init(addr, nmask)
  BY DEF IpInv
<1>3. /\ ip.ip_addr = addr /\ ip.net_mask = make_mask(nmask)
      /\ ip.net_addr = NetOf(addr, nmask) /\ ip.dev_addr = DevOf(addr, nmask)
  BY <1>2 DEF ip_init
<1>4. /\ ip.ip_addr \in Addresses /\ ip.net_mask \in Addresses
      /\ ip.net_addr \in Addresses /\ ip.dev_addr \in Addresses
      /\ \A k \in Places : ip.ip_addr[k] = ip.net_addr[k] + ip.dev_addr[k]
  <2>1. PICK n \in 0 .. 32 : n = nmask
    BY <1>1
  <2>2. /\ DevOf(addr, n) \in Addresses /\ NetOf(addr, n) \in Addresses
        /\ make_mask(n) \in Addresses
        /\ \A k \in Places : addr[k] = NetOf(addr, n)[k] + DevOf(addr, n)[k]
    BY PartsAre
  <2> QED
    BY <1>3, <2>1, <2>2, Zenon
<1>5. Len(Networks) = 4
  BY DEF Networks
<1>6. CASE answers = Nothing /\ nmask = 32
  <2>1. answers.network = 0 /\ ~answers.local /\ ~answers.broadcast
    BY <1>6 DEF Nothing
  <2>2. answers.network \in 0 .. Len(Networks)
    BY <1>5, <2>1
  <2>3. LookupRight /\ BroadcastIsLast
    BY <1>6, <2>1, Zenon DEF LookupRight, BroadcastIsLast
  <2>4. LocalInTable
    <3>1. \A range \in Table : range.mask # 32
      BY DEF Table, Shared
    <3>2. nmask # 8
      BY <1>6
    <3> QED
      BY <1>6, <2>1, <3>1, <3>2, Zenon DEF LocalInTable
  <2> QED
    BY <1>1, <1>4, <2>2, <2>3, <2>4 DEF IpTypeOK, AnswersRight
<1>7. CASE answers = Answers(ip)
  <2>1. /\ answers.net = NetOf(addr, nmask) /\ answers.local = ip_is_local(ip)
        /\ answers.broadcast = ip_is_broadcast(ip) /\ answers.network = ip_network_lookup(ip)
    BY <1>3, <1>7 DEF Answers
  <2>2. \/ answers.network = 0 /\ \A k \in 1 .. 4 : ~Matches(ip, k)
        \/ answers.network \in 1 .. 4 /\ Matches(ip, answers.network)
    BY <2>1, LookupFinds, Zenon
  <2>3. answers.network \in 0 .. Len(Networks)
    BY <1>5, <2>2
  <2>4. ASSUME answers.network > 0
        PROVE  answers.network \in 1 .. 4 /\ NetOf(addr, nmask) = Networks[answers.network].addr
    BY <1>1, <1>2, <2>2, <2>4, MatchIsNetwork
  <2>5. ASSUME answers.network > 0, nmask >= Networks[answers.network].mask
        PROVE  Inside(ip.ip_addr, answers.network)
    BY <1>1, <1>2, <1>3, <2>4, <2>5, MatchIsNetwork
  <2>6. ASSUME NEW k \in 1 .. 4, nmask = Networks[k].mask, Inside(ip.ip_addr, k)
        PROVE  answers.network = k
    <3>1. NetOf(addr, nmask) = Networks[k].addr
      BY <1>3, <2>6, Zenon DEF Inside
    <3>2. Matches(ip, k)
      BY <1>1, <1>2, <3>1, MatchIsNetwork
    <3>3. answers.network \in 1 .. 4 /\ Matches(ip, answers.network)
      BY <2>2, <3>2, Zenon
    <3>4. NetOf(addr, nmask) = Networks[answers.network].addr
      BY <1>1, <1>2, <3>3, MatchIsNetwork
    <3> QED
      BY <3>1, <3>3, <3>4, NetworksAre, Zenon
  <2>7. LookupRight
    BY <2>5, <2>6, NetworksAre, Zenon DEF LookupRight
  <2>8. LocalInTable
    <3>1. ip_is_local(ip) => IsLocalIn(addr, nmask)
      BY <1>1, <1>2, LocalIsInTable
    <3>2. IsLocalIn(addr, nmask) => ip_is_local(ip)
      BY <1>1, <1>2, InTableIsLocal
    <3> QED
      BY <1>3, <2>1, <3>1, <3>2, Zenon DEF LocalInTable, IsLocalIn
  <2>9. BroadcastIsLast
    <3> DEFINE K == CHOOSE j \in Places : ip.ip_addr[j] < 255
                                        /\ \A later \in j + 1 .. 4 : ip.ip_addr[later] = 255
               N == [j \in Places |-> IF j < K THEN ip.ip_addr[j]
                                      ELSE IF j = K THEN ip.ip_addr[j] + 1 ELSE 0]
    <3>1. SUFFICES ASSUME answers.broadcast, ip.ip_addr # <<255, 255, 255, 255>>
                   PROVE  NetOf(N, nmask) # answers.net
      BY Zenon DEF BroadcastIsLast
    <3>2. ip_is_broadcast(ip)
      BY <2>1, <3>1, Zenon
    <3>3. \E k \in Places : IsStep(ip.ip_addr, k)
      BY <1>3, <3>1, StepIs, ZenonT(40)
    <3>4. K \in Places /\ ip.ip_addr[K] < 255
      <4>1. \E j \in Places : ip.ip_addr[j] < 255 /\ \A later \in j + 1 .. 4 : ip.ip_addr[later] = 255
        BY <3>3, Zenon DEF IsStep
      <4> QED
        BY <4>1, Zenon
    <3> HIDE DEF K
    <3>5. N[K] = ip.ip_addr[K] + 1
      <4>1. ~(K < K)
        BY <3>4 DEF Places
      <4> QED
        BY <3>4, <4>1, Zenon
    <3> HIDE DEF N
    <3>6. N[K] = addr[K] + 1 /\ addr[K] < 255
      BY <1>3, <3>4, <3>5, Zenon
    <3> QED
      BY <1>1, <1>2, <2>1, <3>2, <3>4, <3>6, NextIsElsewhere
  <2> QED
    BY <1>1, <1>4, <2>3, <2>7, <2>8, <2>9 DEF IpTypeOK, AnswersRight
<1> QED
  BY <1>6, <1>7 DEF IpInv

\* Whatever is typed, the octets are octets, the two parts of an address make it up,
\* and the length of the mask is one that main takes (ipdata.c:18-34, main.c:12-38).
THEOREM IpTyped == IpSpec => []IpTypeOK
BY IpKept, IpInvMeans, PTL

\* Whatever is typed: the network that is found has the address in it if the mask is as
\* long as the network's, no other is found before it, an address is local just in the
\* ranges of the table but 100.64/10, which never is, and in 127/8, and behind a
\* broadcast another network begins (ipfuncs.c:26-76, ipdata.c:9-16).
THEOREM AnswersAreRight == IpSpec => []AnswersRight
BY IpKept, IpInvMeans, PTL

-----------------------------------------------------------------------------
(* All of them.                                                            *)

\* A step of Programs is one of the program's, or leaves it alone.
LEMMA OneStep ==
  ASSUME [Next]_vars
  PROVE  /\ [BitsNext]_bitsVars
         /\ [IntsNext]_intsVars
         /\ [StartNext]_startVars
         /\ [TableNext]_tableVars
         /\ [ForksNext]_forksVars
         /\ [VsfsNext]_vsfsVars
         /\ [DumpNext]_dumpVars
         /\ [IpNext]_ipVars
         /\ [PrintfNext]_printfVars
<1>1. CASE Next
  BY <1>1 DEF Next, Computes, Only
<1>2. CASE UNCHANGED vars
  BY <1>2 DEF vars
<1> QED
  BY <1>1, <1>2

\* printf, when it is not the one that runs, is at the beginning of one of its calls.
LEMMA PrintfBegins == PrintfIdle => PrintfInit
<1>1. OneCall \in Calls /\ OneOf(Behind) \in Behind
  BY FormatsAssumption, Zenon DEF OneCall, OneOf
<1> QED
  BY <1>1, Zenon DEF PrintfIdle, PrintfInit

\* Programs implements each of the nine, with or without the others running
\* (atomic-operations/main.c, int-funcs, ktiny/startup/startup.S, cpp_oop/task0,
\* pthread/main.c and fork/fork.c, vsfs/vsfs.c and vsfs_0.1/vsfs.c, pico-programmer.py
\* with vdump8to32.py, lab-ip, riscv/console/console.c).
THEOREM EachRunsAsAlone ==
  Spec => /\ BitsSafety /\ IntsSafety /\ StartSafety /\ TableSafety /\ ForksSafety
          /\ VsfsSpec /\ DumpSpec /\ IpSpec /\ PrintfSafety
<1>1. Init => /\ BitsInit /\ IntsInit /\ StartInit /\ TableInit /\ ForksInit
              /\ VsfsInit /\ DumpInit /\ IpInit /\ PrintfInit
  <2>1. Init => /\ BitsInit /\ IntsInit /\ StartInit /\ TableInit /\ ForksInit
                /\ VsfsInit /\ DumpInit /\ IpInit
    BY Zenon DEF Init, BitsIdle, IntsIdle, StartIdle, TableIdle, ForksIdle, VsfsIdle, DumpIdle
  <2>2. Init => PrintfInit
    BY PrintfBegins, Zenon DEF Init
  <2> QED
    BY <2>1, <2>2
<1>2. [Next]_vars =>
        /\ [BitsNext]_bitsVars /\ [IntsNext]_intsVars
        /\ [StartNext]_startVars /\ [TableNext]_tableVars /\ [ForksNext]_forksVars
        /\ [VsfsNext]_vsfsVars /\ [DumpNext]_dumpVars
        /\ [IpNext]_ipVars /\ [PrintfNext]_printfVars
  BY OneStep
<1> QED
  BY <1>1, <1>2, PTL
    DEF Spec, BitsSafety, IntsSafety, StartSafety, TableSafety, ForksSafety, VsfsSpec, DumpSpec,
        IpSpec, PrintfSafety

LEMMA OneOfThemRuns == Spec => [](running \in Running)
<1>1. Init => running \in Running
  BY Zenon DEF Init
<1>2. running \in Running /\ [Next]_vars => (running \in Running)'
  <2>1. [Next]_vars => running' = running
    BY DEF Next, Computes, Only, vars
  <2> QED
    BY <2>1
<1> QED
  BY <1>1, <1>2, PTL DEF Spec

\* In every behaviour of the programs, with ints of 16 or of 32 bits, every variable of
\* the nine has its type and what is counted in it stays in its bounds, whichever runs.
THEOREM ProgramsTyped ==
  ASSUME IntMax \in Widths
  PROVE  Spec => []ProgramTypeOK
<1>1. /\ running \in Running
      /\ BitsTypeOK /\ VsfsTypeOK /\ ForksTypeOK /\ IntsTypeOK /\ IpTypeOK /\ StartTypeOK
      /\ TableTypeOK /\ DumpTypeOK /\ PrintfTypeOK
      => ProgramTypeOK
  BY Zenon DEF ProgramTypeOK
<1>2. IntsSafety => []IntsTypeOK
  BY IntsTyped
<1> QED
  BY <1>1, <1>2, OneOfThemRuns, EachRunsAsAlone, BitsTyped, VsfsTyped, ForksTyped, IpTyped,
     TypeCorrectness, TableTyped, DumpTyped, PrintfTyped, PTL

\* In every behaviour of the programs no int of 16 or of 32 bits overflows in
\* reverse or reverse1 (reverse.c:5-47).
THEOREM ProgramsNeverOverflow ==
  ASSUME IntMax \in Widths
  PROVE  Spec => []NeverOverflows
BY EachRunsAsAlone, NothingOverflows, PTL

\* In every behaviour of the programs main finds RAM as it was at reset but for one
\* word, and the text on the UART (startup.S:9-40).
THEOREM ProgramsMainFinds == Spec => []MainFinds
BY EachRunsAsAlone, MainFindsOneWord, PTL

\* In every behaviour of the programs the threads that use the atomic instruction
\* lose no bit, those that do not invent none, and the three tests answer right
\* (atomic-operations/main.c:19-73).
THEOREM ProgramsLoseNoBit == Spec => [](NoBitLost /\ TestsAnswer) /\ NoBitInvented
BY EachRunsAsAlone, NoBitIsLost, NoBitIsInvented, TestsAnswerRight, PTL

\* In every behaviour of the programs the four functions compute what they are for.
THEOREM ProgramsResultsRight ==
  ASSUME IntMax \in Widths
  PROVE  Spec => []ResultsRight
BY EachRunsAsAlone, ResultsAreRight, PTL

\* In every behaviour of the programs the table keeps its names and what its checks
\* and its additions promise.
THEOREM ProgramsTableRight == Spec => [](TableTypeOK /\ TableRight)
BY EachRunsAsAlone, TableTyped, TableIsRight, PTL

\* In every behaviour of the programs those that fork stay within the kernel's limit,
\* get through their forks only below it, and write every line once.
THEOREM ProgramsForksRight == Spec => [](ForksTypeOK /\ EndedChildrenCount /\ LinesInOrder)
BY EachRunsAsAlone, ForksTyped, EndedChildrenStay, LinesStayInOrder, PTL

\* In every behaviour of the programs the two earlier builders give no block to two
\* owners, but for one block of vsfs_0.1, and the blocks of a text are the text's; the
\* entries of vsfs lead to the inodes of their files, those of vsfs_0.1 to none.
THEOREM ProgramsVsfsRight ==
  Spec => [](VsfsTypeOK /\ BlocksAreOwn /\ EntriesFindFiles /\ TextsAreStored)
BY EachRunsAsAlone, VsfsTyped, BlocksStayOwn, EntriesFind, TextsStayStored, PTL

\* In every behaviour of the programs what the two scripts make of a dump is the dump:
\* where its sections overlap the program has the byte of the last, the memory the bits
\* of all; where they do not and the dump begins at 0 the two agree.
THEOREM ProgramsDumpRead == Spec => [](DumpTypeOK /\ DumpIsRead /\ ReadersAgree)
BY EachRunsAsAlone, DumpTyped, DumpStaysRead, ReadersStayAgreed, PTL

\* In every behaviour of the programs the network of an address is one that it is in,
\* an address is local if and only if it is in a listed range other than 100.64/10, or
\* in 127/8, and one that is a broadcast is the last of its network
\* (lab-ip/ipfuncs.c:26-76).
THEOREM ProgramsAnswersRight == Spec => []AnswersRight
BY EachRunsAsAlone, AnswersAreRight, PTL

\* In every behaviour of the programs printf writes each character and each %d, %x and
\* %p of its format once and in order, and nothing for %s and %f, and goes beyond it
\* only for a "%" at its end (console.c:21-110).
THEOREM ProgramsFormatWritten == Spec => []FormatIsWritten
BY EachRunsAsAlone, FormatStaysWritten, PTL
=============================================================================
