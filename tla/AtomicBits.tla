----------------------------- MODULE AtomicBits -----------------------------
(***************************************************************************)
(* atomic-operations/main.c: main starts NTH threads that each set one bit *)
(* of cnt, waits for all of them, prints cnt, and tests and sets its bit   *)
(* 31 three times.  cnt, a 64-bit word, is the set of its bits that are 1. *)
(*                                                                         *)
(* main starts the threads on _sync_qwerty; qwerty, beside it, does the    *)
(* same without the atomic instruction, as a load and a store.             *)
(***************************************************************************)
EXTENDS Integers, FiniteSets

CONSTANTS
  NTH,       \* how many threads, 31
  Functions  \* what they may run: "_sync_qwerty", "qwerty"

Positions == 0 .. 63

ASSUME ThreadsAssumption == NTH \in 0 .. 31 /\ Functions \subseteq {"_sync_qwerty", "qwerty"}

Threads == 0 .. NTH - 1

VARIABLES
  body,  \* what the threads run
  cnt,
  thread,   \* "none", "started", "loaded" (in qwerty) or "returned"
  loaded,   \* what each thread loaded from cnt
  bitsPc,       \* the loop or the statement of main
  i,        \* the counter of main's loops
  a         \* what foobar printed last, -1 before

bitsVars == <<body, cnt, thread, loaded, bitsPc, i, a>>

\* Mutant: bits are numbered from 1.
ShiftOneMore(pos) == {pos + 1}

\* The bits of the int 1 << pos once it is widened to 64 bits, its sign with it.
IntShift(pos) == IF pos = 31 THEN 31 .. 63 ELSE {pos}

\* Mutant: nothing is stored when another bit is set already.
SetUnlessSet(word, bits) == IF word = {} THEN bits ELSE word

\* __sync_fetch_and_or, and the | of qwerty.
Or(word, bits) == word \cup bits

-----------------------------------------------------------------------------

MoreThreads == i < NTH

\* The loops of main.  The thread created last may run before it is.
Create ==
  /\ bitsPc = "create"
  /\ IF MoreThreads
       THEN /\ thread' = [thread EXCEPT ![i] = "started"]
            /\ i' = i + 1
            /\ UNCHANGED bitsPc
       ELSE bitsPc' = "join" /\ i' = 0 /\ UNCHANGED thread
  /\ UNCHANGED <<body, cnt, loaded, a>>

\* Mutant: a thread that was started is joined.
IsStarted(t) == thread[t] # "none"

\* Mutant: a thread that returned before it is joined is waited for.
StillRuns(t) == thread[t] # "returned"

HasReturned(t) == thread[t] = "returned"

Join ==
  /\ bitsPc = "join"
  /\ \/ /\ i < NTH /\ HasReturned(i)
        /\ i' = i + 1
        /\ UNCHANGED bitsPc
     \/ /\ i = NTH
        /\ bitsPc' = "first"
        /\ UNCHANGED i
  /\ UNCHANGED <<body, cnt, thread, loaded, a>>

_sync_qwerty(t) ==
  /\ body = "_sync_qwerty" /\ thread[t] = "started"
  /\ cnt' = Or(cnt, {t})
  /\ thread' = [thread EXCEPT ![t] = "returned"]
  /\ UNCHANGED <<body, loaded, bitsPc, i, a>>

qwerty(t) ==
  /\ body = "qwerty"
  /\ \/ /\ thread[t] = "started"
        /\ loaded' = [loaded EXCEPT ![t] = cnt]
        /\ thread' = [thread EXCEPT ![t] = "loaded"]
        /\ UNCHANGED cnt
     \/ /\ thread[t] = "loaded"
        /\ cnt' = Or(loaded[t], IntShift(t))
        /\ thread' = [thread EXCEPT ![t] = "returned"]
        /\ UNCHANGED loaded
  /\ UNCHANGED <<body, bitsPc, i, a>>

\* foobar: atomic_bit_test_and_set(&cnt, 31), twice, and once after a reset.
atomic_bit_test_and_set(pos) ==
  /\ a' = IF pos \in cnt THEN 1 ELSE 0
  /\ cnt' = Or(cnt, IntShift(pos))

foobar ==
  /\ \/ /\ bitsPc \in {"first", "second", "third"}
        /\ atomic_bit_test_and_set(31)
        /\ bitsPc' = CASE bitsPc = "first"  -> "second"
                   [] bitsPc = "second" -> "reset"
                   [] bitsPc = "third"  -> "end"
     \/ /\ bitsPc = "reset"
        /\ cnt' = {}
        /\ bitsPc' = "third"
        /\ UNCHANGED a
  /\ UNCHANGED <<body, thread, loaded, i>>

BitsInit ==
  /\ body \in Functions
  /\ cnt = {}
  /\ thread = [t \in Threads |-> "none"]
  /\ loaded = [t \in Threads |-> {}]
  /\ bitsPc = "create" /\ i = 0 /\ a = -1

BitsNext ==
  \/ Create \/ Join \/ foobar
  \/ \E t \in Threads : _sync_qwerty(t) \/ qwerty(t)

\* The steps, whether or not any is taken.
BitsSafety == BitsInit /\ [][BitsNext]_bitsVars

\* The kernel runs a thread that can run.
BitsSpec == BitsSafety /\ WF_bitsVars(BitsNext)

-----------------------------------------------------------------------------
(* Properties.                                                             *)

\* Every variable has its type; main starts no more than NTH threads.
BitsTypeOK ==
  /\ body \in Functions
  /\ cnt \subseteq Positions
  /\ thread \in [Threads -> {"none", "started", "loaded", "returned"}]
  /\ loaded \in [Threads -> SUBSET Positions]
  /\ bitsPc \in {"create", "join", "first", "second", "reset", "third", "end"}
  /\ i \in 0 .. NTH
  /\ a \in {-1, 0, 1}

\* No bit is lost: when main prints cnt (main.c:51) the bits are those of all
\* the threads, in whatever order they ran and were joined.
NoBitLost == body = "_sync_qwerty" /\ bitsPc = "first" => cnt = Threads

\* A step leaves in cnt no bit of a thread that has not returned, and the bit of
\* the thread that returns in it.
StoresOwnBit ==
  /\ cnt' \subseteq {t \in Threads : thread'[t] = "returned"}
  /\ \A t \in Threads : thread[t] # "returned" /\ thread'[t] = "returned" => t \in cnt'

\* Even without the atomic instruction the threads set no bit but their own: until
\* all are joined cnt has no bit of a thread that has not returned, however old
\* what was loaded of it is, and each thread, as it stores and returns, leaves its
\* own bit there (main.c:19-26).
NoBitInvented == [][bitsPc = "create" \/ bitsPc = "join" => StoresOwnBit]_bitsVars

\* The three tests answer 0, 1 and, after the reset, 0: bit 31 is not among the
\* threads' (main.c:62-73).
TestsAnswer ==
  /\ bitsPc = "second" => a = 0
  /\ bitsPc = "reset" => a = 1
  /\ bitsPc = "end" => a = 0

-----------------------------------------------------------------------------
(* A part of the inductive invariant of the proofs in ProgramsProofs.      *)

\* The threads started are those the first loop passed, those joined have
\* returned, and cnt has the bits of those that returned.
ThreadsInv ==
  /\ bitsPc = "create" => \A t \in Threads : thread[t] # "none" => t < i
  /\ bitsPc = "join" => \A t \in Threads : t < i => thread[t] = "returned"
  /\ bitsPc \in {"first", "second", "reset", "third", "end"} =>
       \A t \in Threads : thread[t] = "returned"
  /\ body = "_sync_qwerty" => \A t \in Threads : thread[t] # "loaded"
  /\ body = "_sync_qwerty" /\ bitsPc \in {"create", "join", "first"} =>
       cnt = {t \in Threads : thread[t] = "returned"}
=============================================================================
