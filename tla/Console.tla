------------------------------- MODULE Console -------------------------------
(***************************************************************************)
(* riscv/drivers/console.c: printf, which writes to the UART; a conversion *)
(* or another character of the format at a step.                           *)
(*                                                                         *)
(* A character is a string of one letter, NUL the end of a string.  An int *)
(* goes from -MaxInt - 1 to MaxInt, an unsigned long from 0 to MaxPtr.     *)
(***************************************************************************)
EXTENDS Integers, Sequences, FiniteSets

CONSTANTS
  Calls,         \* calls: a format without its NUL, and the arguments
  Behind,        \* what memory may hold behind a format, up to a NUL that ends printf
  IntArgs, PtrArgs,    \* arguments
  Other,         \* an argument that is a string or a double
  MaxInt, MaxPtr,
  BUF            \* characters in buf, 16

NUL == "NUL"

-----------------------------------------------------------------------------
(* Formats.                                                                *)

Conversions == {"d", "x", "p"}
Letters     == {"d", "x", "p", "s", "f"}

\* The second characters of the conversions of a format, and those of the ones up
\* to k that are given an argument.
SecondsOf(f) ==
  LET second[k \in Nat] == k > 1 /\ f[k - 1] = "%" /\ ~second[k - 1]
  IN  {k \in DOMAIN f : second[k]}
LettersUpTo(f, k) == {j \in SecondsOf(f) : j <= k /\ f[j] \in Letters}

ArgumentsOf(c) == IF c \in {"d", "x"} THEN IntArgs ELSE IF c = "p" THEN PtrArgs ELSE {Other}

\* Every conversion is given an argument of its type.
IsCall(call) ==
  /\ call.fmt \in Seq(STRING) /\ call.args \in Seq(Int \cup {Other})
  /\ \A k \in DOMAIN call.fmt : call.fmt[k] # NUL
  /\ \A k \in SecondsOf(call.fmt) :
       call.fmt[k] \in Letters =>
         LET n == Cardinality(LettersUpTo(call.fmt, k))
         IN  n \in DOMAIN call.args /\ call.args[n] \in ArgumentsOf(call.fmt[k])

\* The NUL that ends printf is not the second character of a %.
IsMemory(b) ==
  /\ b \in Seq(STRING) /\ b # <<>> /\ b[Len(b)] = NUL
  /\ Len(b) > 1 => b[Len(b) - 1] # "%"

ASSUME FormatsAssumption ==
  /\ Calls # {} /\ \A call \in Calls : IsCall(call)
  /\ Behind # {} /\ \A b \in Behind : IsMemory(b)

VARIABLES
  fmt, behind,   \* the format, and memory behind its NUL
  args,          \* the arguments of the call
  taken,         \* how many va_arg took
  p,             \* the character that is next, from 1
  written,          \* what was written: characters, and where in memory they are from
  printfPc

printfVars == <<fmt, behind, args, taken, p, written, printfPc>>

Memory == fmt \o <<NUL>> \o behind

-----------------------------------------------------------------------------
(* Numbers.                                                                *)

digits == <<"0", "1", "2", "3", "4", "5", "6", "7",
            "8", "9", "a", "b", "c", "d", "e", "f">>

DigitsFrom[x \in Nat] ==
  [base \in {10, 16} |->
     <<digits[(x % base) + 1]>> \o (IF x \div base > 0 THEN DigitsFrom[x \div base][base] ELSE <<>>)]

\* buf: the digits from the lowest on, at least one.
convert(x, base) == DigitsFrom[x][base]

\* The least int has no negative, but the unsigned x is its value without the sign.
printint(n, base) == convert(IF n < 0 THEN -n ELSE n, base) \o (IF n < 0 THEN <<"-">> ELSE <<>>)

printptr(n) == convert(n, 16)

\* buf is written from its end.
FromItsEnd(buf) == [k \in DOMAIN buf |-> buf[Len(buf) + 1 - k]]

\* buf has the digits of the least int, a sign before them, and of the largest pointer.
ASSUME WidthsAssumption ==
  /\ MaxInt \in Nat /\ MaxPtr \in Nat /\ BUF \in Nat /\ Other \notin Int
  /\ IntArgs \subseteq -MaxInt - 1 .. MaxInt /\ PtrArgs \subseteq 0 .. MaxPtr
  /\ Len(convert(MaxInt + 1, 10)) < BUF /\ Len(convert(MaxPtr, 16)) <= BUF

-----------------------------------------------------------------------------
(* printf.                                                                 *)

\* What va_arg may find: the next argument, cut or widened, and anything in the
\* place of a string, or where there is no argument.
NextInt == IF taken = Len(args) \/ args[taken + 1] = Other THEN IntArgs
           ELSE {((args[taken + 1] + MaxInt + 1) % (2 * MaxInt + 2)) - MaxInt - 1}
NextPtr == IF taken = Len(args) \/ args[taken + 1] = Other THEN PtrArgs
           ELSE {args[taken + 1] % (MaxPtr + 1)}

Writes(chars) == written' = Append(written, [at |-> p, chars |-> chars])

Plain ==
  /\ printfPc = "loop" /\ Memory[p] \notin {"%", NUL}
  /\ Writes(<<Memory[p]>>)
  /\ p' = p + 1
  /\ UNCHANGED <<fmt, behind, args, taken, printfPc>>

Convert ==
  /\ printfPc = "loop" /\ Memory[p] = "%" /\ Memory[p + 1] \in Conversions
  /\ \/ /\ Memory[p + 1] # "p"
        /\ \E n \in NextInt :
             Writes(FromItsEnd(printint(n, IF Memory[p + 1] = "x" THEN 16 ELSE 10)))
     \/ /\ Memory[p + 1] = "p"
        /\ \E n \in NextPtr : Writes(<<"0", "x">> \o FromItsEnd(printptr(n)))
  /\ taken' = IF taken < Len(args) THEN taken + 1 ELSE taken
  /\ p' = p + 2
  /\ UNCHANGED <<fmt, behind, args, printfPc>>

\* Mutant: a default case steps p once more.
PastThree == p + 3

\* p is stepped for the second character too, whatever it is.
PastBoth == p + 2

\* %f, %s and what is no conversion write nothing and take no argument.
PassOver ==
  /\ printfPc = "loop" /\ Memory[p] = "%" /\ Memory[p + 1] \notin Conversions
  /\ p' = PastBoth
  /\ UNCHANGED <<fmt, behind, args, taken, written, printfPc>>

\* The NUL ends the loop; memory behind the one of Behind is not looked into.
Return ==
  /\ printfPc = "loop" /\ Memory[p] = NUL
  /\ printfPc' = "done"
  /\ UNCHANGED <<fmt, behind, args, taken, p, written>>

Begins(call, memory) ==
  /\ fmt = call.fmt /\ args = call.args /\ behind = memory
  /\ taken = 0 /\ p = 1 /\ written = <<>> /\ printfPc = "loop"

PrintfInit == \E call \in Calls, memory \in Behind : Begins(call, memory)

PrintfNext == Plain \/ Convert \/ PassOver \/ Return

\* A call that runs takes its steps.
PrintfSafety == PrintfInit /\ [][PrintfNext]_printfVars
PrintfSpec == PrintfSafety /\ WF_printfVars(PrintfNext)

-----------------------------------------------------------------------------
(* Properties.                                                             *)

\* Every variable has its type, and no number is more than buf holds: the least
\* int in decimals and the largest pointer just fit or are shorter.
PrintfTypeOK ==
  /\ behind \in Behind
  /\ taken \in 0 .. Len(args) /\ p \in 1 .. Len(Memory) /\ printfPc \in {"loop", "done"}
  /\ \A k \in DOMAIN written :
       LET number == IF Memory[written[k].at] # "%" THEN 0
                     ELSE IF Memory[written[k].at + 1] = "p" THEN Len(written[k].chars) - 2
                     ELSE Len(written[k].chars)
       IN  number <= BUF

\* s are the digits of n: no 0 before others, and their value.
DigitOf(c) == CHOOSE d \in 1 .. 16 : digits[d] = c
ValueOf(s, base) ==
  LET value[k \in 0 .. Len(s)] == IF k = 0 THEN 0 ELSE value[k - 1] * base + DigitOf(s[k]) - 1
  IN  value[Len(s)]
IsNumeral(s, n, base) ==
  /\ s # <<>> /\ \A k \in DOMAIN s : \E d \in 1 .. base : digits[d] = s[k]
  /\ Len(s) > 1 => s[1] # "0"
  /\ ValueOf(s, base) = n

\* What a conversion writes of an argument.
IsOf(chars, letter, n) ==
  IF letter = "p" THEN SubSeq(chars, 1, 2) = <<"0", "x">>
                       /\ IsNumeral(SubSeq(chars, 3, Len(chars)), n, 16)
  ELSE LET base == IF letter = "x" THEN 16 ELSE 10
       IN  IF n >= 0 THEN IsNumeral(chars, n, base)
           ELSE Head(chars) = "-" /\ IsNumeral(Tail(chars), -n, base)

\* Where no %s and no %f came before, a conversion writes its own argument, an int
\* with a sign in both bases and the least int too, a pointer without one
\* (console.c:7-55, 81-96).
NumbersAreArguments ==
  \A k \in DOMAIN written :
    LET at     == written[k].at
        before == LettersUpTo(fmt, at + 1)
    IN  at < Len(fmt) /\ fmt[at] = "%" /\ (\A j \in before : fmt[j] \in Conversions) =>
          IsOf(written[k].chars, fmt[at + 1], args[Cardinality(before)])

\* printf reads behind the NUL of a format only if it ends in a % that begins no
\* conversion; the memory behind is then written as if it were of the format
\* (console.c:73-79).
StaysInFormat ==
  p > Len(fmt) + 1 => fmt # <<>> /\ fmt[Len(fmt)] = "%" /\ Len(fmt) \notin SecondsOf(fmt)

\* The characters of a format that something is written for: those that stand for
\* themselves, and the % of a %d, %x or %p.
PlacesOf(f) ==
  {k \in DOMAIN f \ SecondsOf(f) :
     f[k] = "%" => k < Len(f) /\ f[k + 1] \in Conversions}

\* Of the format up to p each such character has been written, once and in its turn,
\* one that stands for itself as it is; nothing was written for a %s, a %f or a % that
\* begins no conversion (console.c:73-97).
PlacesAreWritten ==
  /\ {written[k].at : k \in DOMAIN written} \cap DOMAIN fmt = {q \in PlacesOf(fmt) : q < p}
  /\ \A j, k \in DOMAIN written : j < k => written[j].at < written[k].at
  /\ \A k \in DOMAIN written :
       written[k].at \in DOMAIN fmt /\ fmt[written[k].at] # "%" =>
         written[k].chars = <<fmt[written[k].at]>>

\* Each character and each %d, %x and %p of the format is written, in order and once,
\* a conversion as its own argument if no %s or %f came before, and %s, %f and what is
\* no conversion as nothing; printf goes on behind the format only for a % at its end
\* (console.c:73-97).
FormatIsWritten == NumbersAreArguments /\ StaysInFormat /\ PlacesAreWritten
=============================================================================
