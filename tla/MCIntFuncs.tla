----------------------------- MODULE MCIntFuncs -----------------------------
(* IntFuncs with an int of 12 bits, and every int of it to be reversed.  Its *)
(* largest, 2047, begins with a digit as small as those of 16 and 32 bits. *)
EXTENDS IntFuncs

MCInts == -IntMax - 1 .. IntMax

\* The ends and the middle, for the function that takes no test.
MCWritten == {n \in MCInts : n < 5 - IntMax \/ n \in -101 .. 101 \/ n > IntMax - 50}

\* The texts of 0, of numbers up to INT_MAX and above, some with more behind.
Digits(n) == LET digit[k \in Nat] == IF k < 10 THEN <<Zero + k>>
                                     ELSE Append(digit[k \div 10], Zero + (k % 10))
             IN  digit[n]

MCTexts ==
  {<<>>, <<Minus, Zero + 1>>, <<Zero, Zero, Zero + 7>>, <<Zero + 4, 97, Zero + 2>>}
    \cup {Digits(n) : n \in 0 .. 20 \cup 1990 .. 2060 \cup 4090 .. 4150}
=============================================================================
