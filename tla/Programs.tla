------------------------------ MODULE Programs ------------------------------
(***************************************************************************)
(* The programs of the repository that stand alone.  They share nothing: a *)
(* behaviour runs one of them, and the variables of the others stay at one *)
(* of their beginnings.                                                    *)
(***************************************************************************)
EXTENDS AtomicBits, Vsfs, Forks, IntFuncs, IpLab, KernelStart, Characteristics, HexDump,
        Console

CONSTANT Running   \* the programs that are run

ASSUME RunningAssumption ==
  Running \subseteq {"AtomicBits", "Vsfs", "Forks", "IntFuncs", "IpLab", "KernelStart",
                     "Characteristics", "HexDump", "Console"}

VARIABLE running

vars == <<running, bitsVars, vsfsVars, forksVars, intsVars, ipVars, startVars, tableVars,
          dumpVars, printfVars>>

-----------------------------------------------------------------------------
(* One of the beginnings of each, for when it is not the one that runs.    *)

OneOf(S) == CHOOSE x \in S : TRUE

OneCommandLine == OneOf(CommandLines)
OneDump == OneOf(Dumps)
OneCall == OneOf(Calls)

BitsIdle   == body = OneOf(Functions) /\ BitsInit
VsfsIdle   == builder = OneOf(Builders) /\ argv = OneCommandLine /\ VsfsInit
ForksIdle  == program = OneOf(Forking) /\ limit = OneOf(Limits) /\ tty = TRUE /\ ForksInit
IntsIdle   == callee = "stoi" /\ arg = OneOf(Written) /\ IntsInit
StartIdle  == /\ data = OneOf(DataValues) /\ bss = OneOf(BssSizes)
              /\ reset = [cell \in RamCells |-> 0]
              /\ StartInit
TableIdle  == names = OneOf(Tables) /\ TableInit
DumpIdle   == dump = OneDump /\ base = OneOf(Bases) /\ format = OneOf(Formats) /\ DumpInit
PrintfIdle == Begins(OneCall, OneOf(Behind))

Init ==
  /\ running \in Running
  /\ running # "AtomicBits"      => BitsIdle
  /\ running # "Vsfs"            => VsfsIdle
  /\ running # "Forks"           => ForksIdle
  /\ running # "IntFuncs"        => IntsIdle
  /\ running # "KernelStart"     => StartIdle
  /\ running # "Characteristics" => TableIdle
  /\ running # "HexDump"         => DumpIdle
  /\ running # "Console"         => PrintfIdle
  /\ running = "AtomicBits"      => BitsInit
  /\ running = "Vsfs"            => VsfsInit
  /\ running = "Forks"           => ForksInit
  /\ running = "IntFuncs"        => IntsInit
  /\ running = "KernelStart"     => StartInit
  /\ running = "Characteristics" => TableInit
  /\ running = "HexDump"         => DumpInit
  /\ running = "Console"         => PrintfInit
  /\ IpInit

-----------------------------------------------------------------------------

\* One program runs, and no other changes anything.
Only(it) ==
  /\ running = it
  /\ it # "AtomicBits"      => UNCHANGED bitsVars
  /\ it # "Vsfs"            => UNCHANGED vsfsVars
  /\ it # "Forks"           => UNCHANGED forksVars
  /\ it # "IntFuncs"        => UNCHANGED intsVars
  /\ it # "IpLab"           => UNCHANGED ipVars
  /\ it # "KernelStart"     => UNCHANGED startVars
  /\ it # "Characteristics" => UNCHANGED tableVars
  /\ it # "HexDump"         => UNCHANGED dumpVars
  /\ it # "Console"         => UNCHANGED printfVars
  /\ UNCHANGED running

\* What has loops of its own to come out of, and what takes one file, line or
\* call after another.
Computes ==
  \/ Only("AtomicBits")      /\ BitsNext
  \/ Only("Forks")           /\ ForksNext
  \/ Only("IntFuncs")        /\ IntsNext
  \/ Only("KernelStart")     /\ StartNext
  \/ Only("HexDump")         /\ DumpNext
  \/ Only("Console")         /\ PrintfNext

Next ==
  \/ Computes
  \/ Only("Vsfs")            /\ VsfsNext
  \/ Only("IpLab")           /\ IpNext
  \/ Only("Characteristics") /\ TableNext

\* A program that can take a step takes one.  Which of its threads or processes
\* that is, is left open; and nobody has to go on typing or calling.
Spec == Init /\ [][Next]_vars /\ WF_vars(Computes)

-----------------------------------------------------------------------------
(* Properties.                                                             *)

\* Every variable has its type, and what is counted in it stays in its bounds,
\* each program's as its module says.
ProgramTypeOK ==
  /\ running \in Running
  /\ BitsTypeOK /\ VsfsTypeOK /\ ForksTypeOK /\ IntsTypeOK /\ IpTypeOK /\ StartTypeOK
  /\ TableTypeOK /\ DumpTypeOK /\ PrintfTypeOK

HasEnded ==
  CASE running = "AtomicBits"  -> bitsPc = "end"
    [] running = "Forks"       -> AllEnded
    [] running = "IntFuncs"    -> intsPc = "done"
    [] running = "KernelStart" -> label = "returned"
    [] running = "HexDump"     -> converter # "convert"
    [] running = "Console"     -> printfPc = "done"
    [] OTHER                   -> TRUE

\* Every loop ends: main joins threads that all return
\* (atomic-operations/main.c:44-49), nobody joins those of nop, which go with their
\* process (pthread/main.c:9-13, 93), the start comes to main whatever the sections
\* (startup.S:40), and every loop ends on every argument (reverse.c:20, 32,
\* stoi.c:10, 22, atoi.c:7, console.c:73, pico-programmer.py:104).
EveryProgramEnds == <>HasEnded
=============================================================================
