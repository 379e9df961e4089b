----------------------------- MODULE KernelStart -----------------------------
(***************************************************************************)
(* The start of the picotiny kernel: startup.S, from reset to main, over a *)
(* memory laid out by kernel.ld.                                           *)
(*                                                                         *)
(* A cell is a byte of the text or a word.  FLASH comes before RAM, RAM    *)
(* before the UART.  RAM holds anything at reset.                          *)
(***************************************************************************)
EXTENDS Integers, Sequences

CONSTANTS
  Text,        \* str before its two zeroes, no character of it 0
  DataValues,  \* the initial values of .data, each a sequence of words
  BssSizes,    \* how many words .bss may have
  Junk,        \* a word that RAM holds at reset, other than 0
  RAM, UART    \* where RAM and the UART begin

ASSUME LayoutAssumption ==
  /\ Text \in Seq(Int \ {0}) /\ DataValues \subseteq Seq(Int) /\ BssSizes \subseteq Nat
  /\ Junk \in Int \ {0}
  /\ RAM \in Nat /\ \A data \in DataValues : Len(Text) + 3 + Len(data) < RAM
  /\ UART \in Nat
  /\ \A data \in DataValues, bss \in BssSizes : RAM + Len(data) + bss < UART

VARIABLES
  data, bss,      \* the sections .data and .bss of the image
  reset,          \* RAM at reset
  ram,            \* and now, from _ram_start
  label,             \* the label reached
  a0, a1,         \* registers
  uart,           \* what was stored to the UART
  divided         \* uart_init was called

startVars == <<data, bss, reset, ram, label, a0, a1, uart, divided>>

str        == 1
_sidata    == str + Len(Text) + 2
_sdata     == RAM
_bss_start == _sdata + Len(data)
_bss_end   == _bss_start + bss
_end       == _bss_end

\* A word of FLASH behind the image.
Erased == -1

\* RAM has a word beyond _end.
RamCells == RAM .. _end

\* There is no .rodata between the text and the values of .data.
FLASH == [a \in str .. _sidata + Len(data) - 1 |->
            IF a < str + Len(Text) THEN Text[a] ELSE
            IF a < _sidata THEN 0 ELSE data[a - _sidata + 1]]

\* What a load finds.
Load(a) == IF a \in DOMAIN FLASH THEN FLASH[a] ELSE IF a \in RamCells THEN ram[a] ELSE Erased

-----------------------------------------------------------------------------

AtEnd == Load(a1) = 0

\* One round of print: a character to the UART.
PrintChar ==
  /\ label = "print" /\ ~AtEnd
  /\ uart' = Append(uart, Load(a1)) /\ a1' = a1 + 1
  /\ UNCHANGED <<data, bss, reset, ram, label, a0, divided>>

\* The branch leaves crt_start out, which would load the ends of .bss: a0 is the
\* UART still, a1 the end of the text.
TextPrinted ==
  /\ label = "print" /\ AtEnd
  /\ label' = "bss_init"
  /\ UNCHANGED <<data, bss, reset, ram, a0, a1, uart, divided>>

\* Nothing jumps back to bss_init; then _sdata and _sidata are loaded.
BssInit ==
  /\ label = "bss_init"
  /\ ram' = IF a0 < a1 THEN [ram EXCEPT ![a0] = 0] ELSE ram
  /\ a0' = _sdata /\ a1' = _sidata /\ label' = "data_init"
  /\ UNCHANGED <<data, bss, reset, uart, divided>>

\* Mutant: a jump to data_init.
BackToData == "data_init"

\* Nothing jumps back to data_init either.
AfterData == "main"

DataInit ==
  /\ label = "data_init"
  /\ IF a1 < _end
       THEN /\ ram' = [ram EXCEPT ![a0] = Load(a1)]
            /\ a0' = a0 + 1 /\ a1' = a1 + 1 /\ label' = AfterData
       ELSE label' = "main" /\ UNCHANGED <<ram, a0, a1>>
  /\ UNCHANGED <<data, bss, reset, uart, divided>>

\* uart_init sets the divider; main returns to nobody.
MainReturns ==
  /\ label = "main"
  /\ divided' = TRUE /\ label' = "returned"
  /\ UNCHANGED <<data, bss, reset, ram, a0, a1, uart>>

StartInit ==
  /\ data \in DataValues /\ bss \in BssSizes
  /\ reset \in [RamCells -> {0, Junk}] /\ ram = reset
  /\ label = "print" /\ a0 = UART /\ a1 = str
  /\ uart = <<>> /\ divided = FALSE

StartNext == PrintChar \/ TextPrinted \/ BssInit \/ DataInit \/ MainReturns

\* The steps, whether or not any is taken.
StartSafety == StartInit /\ [][StartNext]_startVars

\* A processor that has power takes the next instruction.
StartSpec == StartSafety /\ WF_startVars(StartNext)

-----------------------------------------------------------------------------
(* Properties.                                                             *)

\* Every variable has its type, and RAM no cell that it did not have at reset.
StartTypeOK ==
  /\ DOMAIN ram = RamCells
  /\ label \in {"print", "bss_init", "data_init", "main", "returned"}
  /\ a1 \in str .. _end /\ divided \in BOOLEAN

\* main finds RAM as it was at reset, .bss too, but for the first word, whatever
\* it is of: into it came the first word behind the text (startup.S:16-40), which is all
\* that is done of "one task of the startup to copy the initial values" (kernel.ld:55).
OneWordChanges ==
  label \in {"main", "returned"} =>
    /\ \A a \in RamCells \ {_sdata} : ram[a] = reset[a]
    /\ ram[_sdata] = IF data = <<>> THEN Erased ELSE data[1]

\* The whole text goes to the UART, in order and once, before its divider is set
\* (startup.S:9-14, uart.c:3-6).
TextBeforeDivider ==
  /\ uart = SubSeq(Text, 1, Len(uart))
  /\ divided => uart = Text

\* Both: what main finds, in RAM and on the UART.
MainFinds == OneWordChanges /\ TextBeforeDivider
=============================================================================
