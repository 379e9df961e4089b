------------------------------- MODULE HexDump -------------------------------
(***************************************************************************)
(* The two readers of the dump that objcopy -O verilog makes of the kernel: *)
(* pico-programmer.py, before it opens the port, and vdump8to32.py.        *)
(*                                                                         *)
(* A dump is a sequence of lines: an address, <<"@", a>>, or up to LINE    *)
(* bytes, <<"bytes", b>>; a section begins with its address.               *)
(***************************************************************************)
EXTENDS Integers, Sequences

CONSTANTS
  Dumps,    \* dumps, each a sequence of sections [at, bytes]
  Bases,    \* what memaddrbase may be
  Formats,  \* foutfmt
  LINE,     \* bytes of a line that is not the last of its section, 16
  MEMSIZE   \* the memory that is converted for, in bytes

\* No two bytes of a line come to the same byte of the memory.
ASSUME SizesAssumption ==
  LINE \in Nat \ {0} /\ MEMSIZE \in Nat /\ MEMSIZE % 4 = 0 /\ LINE <= MEMSIZE

VARIABLES
  dump, base, format,
  programmer, converter,    \* where each stands; the converter runs second
  at,                       \* the line that comes next, from 0
  lprog, plinecount, prog,  \* of pico-programmer.py
  wp,                       \* wp, waddr
  membuf,                   \* of vdump8to32.py: bytes, four to a word
  files                     \* what it wrote

dumpVars == <<dump, base, format, programmer, converter, at, lprog, plinecount, prog, wp, membuf, files>>

-----------------------------------------------------------------------------
(* objcopy.                                                                *)

LinesOf[bytes \in Seq(Nat)] ==
  IF bytes = <<>> THEN <<>>
  ELSE LET k == IF Len(bytes) < LINE THEN Len(bytes) ELSE LINE
       IN  << <<"bytes", SubSeq(bytes, 1, k)>> >> \o LinesOf[SubSeq(bytes, k + 1, Len(bytes))]

Sections == [at : Nat, bytes : Seq(Nat)]

ASSUME DumpsAssumption ==
  /\ Dumps \subseteq Seq(Sections) /\ Bases \subseteq Nat
  /\ \A d \in Dumps : \A k \in DOMAIN d :
       \A n \in DOMAIN d[k].bytes : d[k].bytes[n] <= 255

FileOf[sections \in Seq(Sections)] ==
  IF sections = <<>> THEN <<>>
  ELSE << <<"@", Head(sections).at>> >> \o LinesOf[Head(sections).bytes] \o FileOf[Tail(sections)]

file == FileOf[dump]

\* How many words a line splits into.
Split(line) == IF line[1] = "@" THEN 1 ELSE Len(line[2])

-----------------------------------------------------------------------------
(* pico-programmer.py.                                                     *)

CountedLines(count, begun) == IF begun THEN count + 1 ELSE count

\* Lines are kept from the first one with the address 0 on; one with it that comes
\* later is kept twice.
Collect ==
  /\ programmer = "collect" /\ at < Len(file)
  /\ LET line  == file[at + 1]
         begun == lprog # <<>>
         zero  == line = <<"@", 0>>
     IN  /\ lprog' = lprog \o (IF begun THEN <<line>> ELSE <<>>)
                           \o (IF zero THEN <<line>> ELSE <<>>)
         /\ plinecount' = CountedLines(plinecount, begun)
  /\ at' = at + 1
  /\ UNCHANGED <<dump, base, format, programmer, converter, prog, wp, membuf, files>>

\* lprog[plinecount-1] is the line before the last, for lprog has the address of 0
\* before those that were counted; lprog[-1] is the last.
nproglen(count, lines) ==
  LINE * (count - 1) + Split(IF count = 0 THEN lines[Len(lines)] ELSE lines[count])

\* A list that is less than empty is empty.
Zeroes(n) == [k \in 1 .. n |-> 0]

Allocate ==
  /\ programmer = "collect" /\ at = Len(file)
  /\ IF lprog = <<>>
       THEN programmer' = "IndexError" /\ UNCHANGED prog
       ELSE programmer' = "parse" /\ prog' = Zeroes(nproglen(plinecount, lprog))
  /\ at' = 0
  /\ UNCHANGED <<dump, base, format, converter, lprog, plinecount, wp, membuf, files>>

\* Mutant: the index is stepped before the byte.
PutNext(list, from, bytes) ==
  [k \in DOMAIN list |-> IF k - 2 \in from .. from + Len(bytes) - 1 THEN bytes[k - 1 - from]
                         ELSE list[k]]

Put(list, from, bytes) ==
  [k \in DOMAIN list |-> IF k - 1 \in from .. from + Len(bytes) - 1 THEN bytes[k - from]
                         ELSE list[k]]

\* The bytes of a line; prog has no room for what is behind nproglen.
Parse ==
  /\ programmer = "parse"
  /\ LET line == lprog[at + 1]
         last == wp + Len(line[2])
     IN  IF at = Len(lprog) THEN
              programmer' = "parsed" /\ at' = 0 /\ wp' = 0 /\ UNCHANGED prog
         ELSE IF line[1] = "@" THEN
              at' = at + 1 /\ wp' = line[2] /\ UNCHANGED <<programmer, prog>>
         ELSE /\ prog' = Put(prog, wp, line[2])
              /\ IF last > Len(prog)
                   THEN programmer' = "IndexError" /\ at' = 0 /\ wp' = 0
                   ELSE at' = at + 1 /\ wp' = last /\ UNCHANGED programmer
  /\ UNCHANGED <<dump, base, format, converter, lprog, plinecount, membuf, files>>

-----------------------------------------------------------------------------
(* vdump8to32.py.                                                          *)

Converts == programmer \in {"parsed", "IndexError"} /\ converter = "convert"

\* Mutant: the first word is the base's next.
NextIndex(a) == a + 1

\* An index of Python's: from the end if it is negative.
Index(a) == IF a < 0 THEN a + MEMSIZE ELSE a

\* |=, bit by bit.
Into[old \in Nat] == [b \in Nat |->
  IF old = 0 \/ b = 0 THEN old + b
  ELSE (IF old % 2 = 0 /\ b % 2 = 0 THEN 0 ELSE 1) + 2 * Into[old \div 2][b \div 2]]

\* membuf[waddr >> 2] |= b << 8*(waddr & 3), for every byte of a line.
ConvertLine ==
  /\ Converts /\ at < Len(file)
  /\ LET line == file[at + 1]
         last == wp + Len(line[2])
     IN  IF line[1] = "@" THEN wp' = line[2] - base /\ UNCHANGED <<membuf, converter>>
         ELSE /\ wp' = last
              /\ membuf' = [a \in 0 .. MEMSIZE - 1 |->
                   IF \E k \in 1 .. Len(line[2]) : Index(wp + k - 1) = a
                     THEN Into[membuf[a]][line[2][CHOOSE k \in 1 .. Len(line[2]) :
                                                    Index(wp + k - 1) = a]]
                     ELSE membuf[a]]
              /\ converter' = IF wp < -MEMSIZE \/ last > MEMSIZE THEN "IndexError" ELSE converter
  /\ at' = at + 1
  /\ UNCHANGED <<dump, base, format, programmer, lprog, plinecount, prog, files>>

Words == [w \in 1 .. MEMSIZE \div 4 |-> [lane \in 0 .. 3 |-> membuf[4 * (w - 1) + lane]]]

Lanes(words) == [lane \in 0 .. 3 |-> [w \in DOMAIN words |-> words[w][lane]]]

\* One file of words, or one of bytes for each of the four memories.
Write ==
  /\ Converts /\ at = Len(file)
  /\ files' = CASE format \in {"v32", "mif", "mi"} -> Words
                [] format \in {"vx4", "mix4"}      -> Lanes(Words)
                [] OTHER                           -> <<>>
  /\ converter' = "written"
  /\ UNCHANGED <<dump, base, format, programmer, at, lprog, plinecount, prog, wp, membuf>>

-----------------------------------------------------------------------------

NothingRead ==
  /\ programmer = "collect" /\ converter = "convert" /\ at = 0
  /\ lprog = <<>> /\ plinecount = 0 /\ prog = <<>> /\ wp = 0
  /\ membuf = [a \in 0 .. MEMSIZE - 1 |-> 0] /\ files = <<>>

DumpInit == dump \in Dumps /\ base \in Bases /\ format \in Formats /\ NothingRead

DumpNext == Collect \/ Allocate \/ Parse \/ ConvertLine \/ Write

DumpSpec == DumpInit /\ [][DumpNext]_dumpVars

-----------------------------------------------------------------------------
(* Properties.                                                             *)

Ends(section) == section.at + Len(section.bytes)

\* The byte at an address: the last section that has it.
HasByte(sections, a) ==
  \E k \in DOMAIN sections : a \in sections[k].at .. Ends(sections[k]) - 1
ByteAt(sections, a) ==
  LET k == CHOOSE j \in DOMAIN sections :
             /\ a \in sections[j].at .. Ends(sections[j]) - 1
             /\ ~HasByte(SubSeq(sections, j + 1, Len(sections)), a)
  IN  sections[k].bytes[a - sections[k].at + 1]

\* The sections from the first that begins at 0.
Begun(sections) ==
  LET first == CHOOSE j \in 1 .. Len(sections) + 1 :
                 /\ j <= Len(sections) => sections[j].at = 0
                 /\ \A i \in 1 .. j - 1 : sections[i].at # 0
  IN  SubSeq(sections, first, Len(sections))

\* The bytes at an address, of all the sections that have it.
BytesAt(sections, a) ==
  {sections[k].bytes[a - sections[k].at + 1] :
     k \in {j \in DOMAIN sections : a \in sections[j].at .. Ends(sections[j]) - 1}}

\* The bits of a byte, as the powers of 2 that it is the sum of.
BitsOf(b) == {v \in {1, 2, 4, 8, 16, 32, 64, 128} : (b \div v) % 2 = 1}

Overlap(sections) ==
  \E j, k \in DOMAIN sections :
    j # k /\ (sections[j].at .. Ends(sections[j]) - 1) \cap (sections[k].at .. Ends(sections[k]) - 1) # {}

\* Every variable has its type.
DumpTypeOK ==
  /\ programmer \in {"collect", "parse", "parsed", "IndexError"}
  /\ converter \in {"convert", "written", "IndexError"}
  /\ at \in 0 .. 2 * Len(file) /\ plinecount \in 0 .. Len(lprog)
  /\ \A k \in DOMAIN prog : prog[k] \in 0 .. 255
  /\ \A a \in DOMAIN membuf : membuf[a] \in 0 .. 255

\* A program that is read is the bytes of the dump from the section at 0 on, at
\* their addresses, with zeroes between and behind; a section with no byte needs no
\* room (pico-programmer.py:76-111).
ParsedIsDump ==
  programmer = "parsed" =>
    /\ \A k \in DOMAIN prog :
         prog[k] = IF HasByte(Begun(dump), k - 1) THEN ByteAt(Begun(dump), k - 1) ELSE 0
    /\ \A k \in DOMAIN Begun(dump) :
         Begun(dump)[k].bytes # <<>> => Ends(Begun(dump)[k]) <= Len(prog)

\* A program of one section that has more than one line is read, and no more than
\* the rest of its last line is behind it; one of a single line is refused if it
\* has more than one byte (pico-programmer.py:97, 110).
OneSectionIsRead ==
  programmer \in {"parsed", "IndexError"} /\ Len(dump) = 1 /\ dump[1].at = 0 =>
    LET size == Len(dump[1].bytes)
    IN  IF size > LINE THEN programmer = "parsed" /\ Len(prog) - size \in 0 .. LINE - 1
        ELSE programmer = "IndexError" <=> size > 1

\* What was converted is the dump from its base on, and what is below the base at
\* most as far as the memory is large comes to its end; where several bytes come to
\* one of the memory, of sections that overlap or from below the base, it has the bits
\* of all of them, and no other bit is set; the files have all of the memory
\* (vdump8to32.py:22-33, 41-90).
ConvertedIsDump ==
  converter = "written" =>
    /\ \A a \in 0 .. MEMSIZE - 1 :
         BitsOf(membuf[a]) =
           UNION {BitsOf(b) : b \in BytesAt(dump, base + a) \cup BytesAt(dump, base + a - MEMSIZE)}
    /\ format \in {"vx4", "mix4"} =>
         \A a \in 0 .. MEMSIZE - 1 : files[a % 4][a \div 4 + 1] = membuf[a]
    /\ format \in {"v32", "mif", "mi"} =>
         \A a \in 0 .. MEMSIZE - 1 : files[a \div 4 + 1][a % 4] = membuf[a]

\* What each of the scripts makes of a dump is the dump; where sections overlap the
\* program has the byte of the last, and the memory the bits of all.
DumpIsRead == ParsedIsDump /\ OneSectionIsRead /\ ConvertedIsDump

\* The two scripts read the same program out of a dump that begins at 0 and whose
\* sections do not overlap (pico-programmer.py:105-111, vdump8to32.py:25-33).
ReadersAgree ==
  programmer = "parsed" /\ converter = "written" /\ base = 0 /\ Begun(dump) = dump
      /\ ~Overlap(dump) =>
    \A k \in DOMAIN prog : k <= MEMSIZE => prog[k] = membuf[k - 1]
=============================================================================
