------------------------------ MODULE IntFuncs ------------------------------
(***************************************************************************)
(* int-funcs: reverse and reverse1 (reverse.c), stoi (stoi.c) and atoi     *)
(* (atoi.c), one iteration of a loop at a step.                            *)
(*                                                                         *)
(* An int goes from -IntMax - 1 to IntMax.  A signed overflow is undefined; *)
(* in the build it wraps, which overflowed records.  A character is its    *)
(* code: a digit d is 48 + d.                                              *)
(***************************************************************************)
EXTENDS Integers, Sequences

CONSTANTS
  IntMax,     \* INT_MAX
  Reversed,   \* what reverse and reverse1 are called with
  Written,    \* what stoi is
  Texts       \* what atoi is

Ints == -IntMax - 1 .. IntMax

ASSUME IntMaxAssumption == IntMax \in Nat /\ IntMax >= 127

ASSUME CallsAssumption ==
  /\ Reversed \subseteq Ints /\ Written \subseteq Ints
  /\ Texts \subseteq Seq(0 .. 127)

VARIABLES
  callee, arg,   \* what was called, and with what
  u,               \* ux, xt, u: what is left of the number
  res,             \* res; of stoi j
  text,            \* of stoi buf, and then what it wrote; of atoi the text from str on
  overflowed,      \* a signed overflow happened
  intsPc

intsVars == <<callee, arg, u, res, text, overflowed, intsPc>>

Zero  == 48   \* '0'
Minus == 45   \* '-'

Wrapped(n) ==
  IF n \in Ints THEN n ELSE ((n + IntMax + 1) % (2 * (IntMax + 1))) - IntMax - 1

\* abs of the smallest int is the smallest int.
Abs(n) == IF n = -IntMax - 1 THEN n ELSE IF n < 0 THEN -n ELSE n

Unsigned(n) == IF n < 0 THEN n + 2 * (IntMax + 1) ELSE n

Sign(n) == IF n < 0 THEN -1 ELSE 1

\* Division and remainder of C, towards 0.
Quotient(a, b)  == Sign(a) * ((Sign(a) * a) \div b)
Remainder(a, b) == a - b * Quotient(a, b)

Returns(n) == res' = n /\ intsPc' = "done"

-----------------------------------------------------------------------------
(* reverse, reverse1.                                                      *)

\* Mutant: a test that stops a digit early.
TooEarly(digit) == IntMax \div 10 <= res

\* reverse: INT_MAX/10 < res, and INT_MAX - ost < res after the product.
NoRoom(digit) == \/ IntMax \div 10 < res \/ -((IntMax + 1) \div 10) > res
                 \/ IntMax - digit < res * 10 \/ -IntMax - 1 + digit > res * 10

ReverseStep ==
  /\ intsPc = "loop" /\ callee = "reverse"
  /\ IF u = 0 THEN Returns(Sign(arg) * res) /\ UNCHANGED <<u, overflowed>>
     ELSE LET ost == u % 10
          IN  IF NoRoom(ost) THEN Returns(0) /\ UNCHANGED <<u, overflowed>>
              ELSE /\ res' = Wrapped(res * 10 + ost)
                   /\ overflowed' = (overflowed \/ res * 10 + ost \notin Ints)
                   /\ u' = (u - ost) \div 10
                   /\ UNCHANGED intsPc
  /\ UNCHANGED <<callee, arg, text>>

\* Mutant: a test of what was already stored.
TooLate1 == res > IntMax

NoRoom1 == res > IntMax \div 10

\* reverse1: the loop ends at its bottom, and tests before the product only.
Reverse1Step ==
  /\ intsPc = "loop" /\ callee = "reverse1"
  /\ IF NoRoom1 THEN Returns(0) /\ UNCHANGED <<u, overflowed>>
     ELSE LET cdig == u % 10
              sum  == Wrapped(res * 10 + cdig)
          IN  /\ overflowed' = (overflowed \/ res * 10 + cdig \notin Ints)
              /\ u' = (u - cdig) \div 10
              /\ IF u' = 0 THEN Returns(Sign(arg) * sum) ELSE res' = sum /\ UNCHANGED intsPc
  /\ UNCHANGED <<callee, arg, text>>

-----------------------------------------------------------------------------
(* stoi: the digits into buf, and from its end to res.                     *)

StoiDigit ==
  /\ intsPc = "loop" /\ callee = "stoi" /\ u # 0
  /\ text' = Append(text, Remainder(u, 10))
  /\ u' = Quotient(u, 10)
  /\ UNCHANGED <<callee, arg, res, overflowed, intsPc>>

Backwards(buf) == [k \in DOMAIN buf |-> Zero + buf[Len(buf) + 1 - k]]

\* No digit for 0, and no terminator for any number.
StoiWrites ==
  /\ intsPc = "loop" /\ callee = "stoi" /\ u = 0
  /\ text' = (IF arg < 0 THEN <<Minus>> ELSE <<>>) \o Backwards(text)
  /\ Returns(Len(text'))
  /\ UNCHANGED <<callee, arg, u, overflowed>>

-----------------------------------------------------------------------------
(* atoi.                                                                   *)

IsDigit(ch) == ch >= Zero /\ ch <= Zero + 9

Advanced(t) == Tail(t)

\* res*10 + ch, and '0' subtracted from that.
AtoiStep ==
  /\ intsPc = "loop" /\ callee = "atoi"
  /\ IF text # <<>> /\ IsDigit(Head(text))
       THEN LET product == res * 10
                sum     == Wrapped(product) + Head(text)
            IN  /\ res' = Wrapped(Wrapped(sum) - Zero)
                /\ overflowed' = \/ overflowed
                                 \/ {product, sum, Wrapped(sum) - Zero} \ Ints # {}
                /\ text' = Advanced(text)
                /\ UNCHANGED intsPc
       ELSE Returns(res) /\ UNCHANGED <<text, overflowed>>
  /\ UNCHANGED <<callee, arg, u>>

-----------------------------------------------------------------------------

IntsInit ==
  /\ \/ callee \in {"reverse", "reverse1"} /\ arg \in Reversed
     \/ callee = "stoi" /\ arg \in Written
     \/ callee = "atoi" /\ arg \in Texts
  /\ u = CASE callee = "stoi" -> Abs(arg)
           [] callee = "atoi" -> 0
           [] OTHER             -> Unsigned(Abs(arg))
  /\ res = 0 /\ overflowed = FALSE /\ intsPc = "loop"
  /\ text = IF callee = "atoi" THEN arg ELSE <<>>

IntsNext == ReverseStep \/ Reverse1Step \/ StoiDigit \/ StoiWrites \/ AtoiStep

\* The steps, whether or not any is taken.
IntsSafety == IntsInit /\ [][IntsNext]_intsVars

\* A program that runs takes its steps.
IntsSpec == IntsSafety /\ WF_intsVars(IntsNext)

-----------------------------------------------------------------------------
(* Properties.                                                             *)

\* Every variable has its type, and what a function returns is an int.
IntsTypeOK ==
  /\ \/ callee \in {"reverse", "reverse1", "stoi"} /\ arg \in Ints
     \/ callee = "atoi" /\ arg \in Texts
  /\ u \in -IntMax - 1 .. 2 * IntMax + 1 /\ res \in Ints
  /\ overflowed \in BOOLEAN /\ intsPc \in {"loop", "done"}

\* reverse returns before a product or a sum could overflow (reverse.c:35-41).
ReverseNeverOverflows == callee = "reverse" => ~overflowed

\* reverse1 tests the product and not the sum, which the first digit of an int
\* of 16 or of 32 bits is too small to make overflow (reverse.c:14-18).
Reverse1NeverOverflows == callee = "reverse1" => ~overflowed

\* The value of the decimal digits of a number, from its last on.
ReversalFrom[p \in Nat \X Nat] ==
  IF p[1] = 0 THEN p[2] ELSE ReversalFrom[<<p[1] \div 10, p[2] * 10 + (p[1] % 10)>>]

\* Both return the number with its digits in reverse, its sign kept, and 0 exactly
\* if that is not an int, whatever int they are given (reverse.c:5-47).
ReversalRight ==
  intsPc = "done" /\ callee \in {"reverse", "reverse1"} =>
    LET reversal == ReversalFrom[<<Sign(arg) * arg, 0>>]
    IN  res = IF reversal <= IntMax THEN Sign(arg) * reversal ELSE 0

\* The value of the first k characters of a text.
ValueTo(t, k) ==
  LET value[j \in 0 .. Len(t)] == IF j = 0 THEN 0 ELSE value[j - 1] * 10 + (t[j] - Zero)
  IN  value[k]

\* stoi writes the decimal digits of a number, the first not 0.  Of 0 it writes
\* nothing; of the smallest int, whose remainders are negative, characters from
\* '(' to '0' (stoi.c:8-24).
DecimalRight ==
  intsPc = "done" /\ callee = "stoi" =>
    LET digits == IF arg < 0 THEN Tail(text) ELSE text
    IN  CASE arg = 0           -> text = <<>>
          [] arg = -IntMax - 1 ->
               Head(text) = Minus /\ \A k \in DOMAIN digits : digits[k] \in Zero - 8 .. Zero
          [] OTHER             ->
               /\ arg < 0 => Head(text) = Minus
               /\ digits # <<>> /\ Head(digits) # Zero
               /\ \A k \in DOMAIN digits : digits[k] \in Zero .. Zero + 9
               /\ ValueTo(digits, Len(digits)) = Sign(arg) * arg

\* atoi returns the value of the digits at the front of a text if that is an int.
\* It overflows on the way if the value is one of the last 48 ints: it subtracts
\* '0' after it added the character (atoi.c:7-9).
AtoiRight ==
  intsPc = "done" /\ callee = "atoi" =>
    LET digits == CHOOSE k \in 0 .. Len(arg) :
                    /\ \A j \in 1 .. k : arg[j] \in Zero .. Zero + 9
                    /\ k < Len(arg) => arg[k + 1] \notin Zero .. Zero + 9
        value  == ValueTo(arg, digits)
    IN  /\ value <= IntMax => res = value
        /\ overflowed <=> (digits > 0 /\ value > IntMax - Zero)

\* Neither of the two ever overflows (reverse.c:5-47).
NeverOverflows == ReverseNeverOverflows /\ Reverse1NeverOverflows

\* What every function returns or writes is what it is for.
ResultsRight == ReversalRight /\ DecimalRight /\ AtoiRight
=============================================================================
