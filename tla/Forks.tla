-------------------------------- MODULE Forks --------------------------------
(***************************************************************************)
(* The programs that fork: pthread/main.c, whose main runs                 *)
(* allocStacksTest1 and keeps allocStacksTest beside it, and fork/fork.c.  *)
(*                                                                         *)
(* The kernel is outside the repository.  It has a limit on its tasks: a   *)
(* task is a thread of a process, or a process that has ended and was not  *)
(* waited for.  A process that ends takes its threads with it; its entry   *)
(* stays until its parent waits for it or ends.  printf writes at once if  *)
(* stdout is a terminal, and to a buffer of the process otherwise: fork    *)
(* copies the buffer, exit writes it.  A sleep is a time, not an order: the *)
(* process goes on whenever it does.                                       *)
(***************************************************************************)
EXTENDS Integers, Sequences

CONSTANTS
  Forking,   \* what is run
  FORKS,      \* children of allocStacksTest1, 10000
  THREADS1,   \* threads of each, N/4
  THREADS,    \* threads of each child of allocStacksTest, N/3
  Limits      \* how many tasks the kernel may allow

ASSUME ForksAssumption ==
  /\ Forking \subseteq {"allocStacksTest1", "allocStacksTest", "fork"}
  /\ FORKS \in Nat \ {0} /\ {THREADS1, THREADS} \subseteq Nat
  /\ Limits \subseteq Nat \ {0}

VARIABLES
  program, limit, tty,  \* what is run, under which limit, on a terminal or not
  proc,                 \* the processes; 0 is main's
  forks,                \* the children that were made
  exitStatus,               \* main's exit status, -1 before
  out                   \* what was written to stdout

forksVars == <<program, limit, tty, proc, forks, exitStatus, out>>

Parent   == 0
Children == CASE program = "allocStacksTest1" -> FORKS
              [] program = "allocStacksTest"  -> 3
              [] program = "fork"             -> 1
PerChild == CASE program = "allocStacksTest1" -> THREADS1
              [] program = "allocStacksTest"  -> THREADS
              [] program = "fork"             -> 0
MaxForks == IF FORKS > 3 THEN FORKS ELSE 3
Pids     == 0 .. MaxForks

\* b and c of fork.c.
Locals == [b : Int, c : Int]

\* Lines: what a process prints after a call of pthread_create, the k-th, with
\* what it returned; what main prints when fork fails; and those of fork.c.
ThreadLine(p, k, made) == <<"thread", p, k, made>>
FailedLine(k)          == <<"failed", k>>
MemoryLine(p, k, mem)  == <<"memory", p, k, mem>>

NoProcess == [pc |-> "none", tried |-> 0, threads |-> 0, mem |-> [b |-> 10, c |-> 0],
              buf |-> <<>>]

Alive(p) == proc[p].pc \notin {"none", "zombie", "gone"}

\* The tasks of the processes up to p.
TasksUpTo[p \in Pids] ==
  LET own == IF Alive(p) THEN 1 + proc[p].threads ELSE IF proc[p].pc = "zombie" THEN 1 ELSE 0
  IN  IF p = 0 THEN own ELSE own + TasksUpTo[p - 1]

HasRoom == TasksUpTo[MaxForks] < limit

-----------------------------------------------------------------------------
(* The calls.                                                              *)

\* The process r after it printed a line, and stdout after that.
WithLine(r, line)  == IF tty THEN r ELSE [r EXCEPT !.buf = Append(@, line)]
Shown(line)       == IF tty THEN Append(out, line) ELSE out

\* A child is a copy of its parent, but for where fork returns.
ChildOf(r, at) == [r EXCEPT !.pc = at]

\* Mutant: one thread more.
OneMoreToStart(r) == r.tried <= PerChild

MoreToStart(r) == r.tried < PerChild

\* A thread runs nop, which never returns; what pthread_create returns is
\* printed and not looked at.
WithThread(r) ==
  [r EXCEPT !.tried = @ + 1, !.threads = IF HasRoom THEN @ + 1 ELSE @]

-----------------------------------------------------------------------------
(* main.                                                                   *)

\* The loop of allocStacksTest1, the three forks of allocStacksTest, the one of
\* fork.c.
Fork ==
  /\ proc[Parent].pc = "fork" /\ forks < Children /\ HasRoom
  /\ proc' = [proc EXCEPT
       ![forks + 1] = ChildOf(proc[Parent], IF program = "fork" THEN "child" ELSE "create"),
       ![Parent].pc = IF program = "fork" THEN "parent" ELSE "fork"]
  /\ forks' = forks + 1
  /\ UNCHANGED <<program, limit, tty, exitStatus, out>>

\* pthread/main.c exits with 1; fork.c prints as the parent and waits for nobody.
ForkFails ==
  /\ proc[Parent].pc = "fork" /\ forks < Children /\ ~HasRoom
  /\ IF program = "fork"
       THEN /\ proc' = [proc EXCEPT ![Parent].pc = "parent"]
            /\ UNCHANGED <<exitStatus, out>>
       ELSE /\ proc' = [proc EXCEPT
                 ![Parent] = [WithLine(@, FailedLine(forks)) EXCEPT !.pc = "exit"]]
            /\ out' = Shown(FailedLine(forks))
            /\ exitStatus' = 1
  /\ UNCHANGED <<program, limit, tty, forks>>

\* sleep(10); in allocStacksTest a last thread after it.
ForksDone ==
  /\ proc[Parent].pc = "fork" /\ forks = Children
  /\ proc' = [proc EXCEPT ![Parent].pc = IF program = "allocStacksTest" THEN "last" ELSE "exit"]
  /\ UNCHANGED <<program, limit, tty, forks, exitStatus, out>>

LastThread ==
  /\ proc[Parent].pc = "last"
  /\ LET line == ThreadLine(Parent, 0, HasRoom)
     IN  /\ proc' = [proc EXCEPT
              ![Parent] = [WithLine(WithThread(@), line) EXCEPT !.pc = "exit"]]
         /\ out' = Shown(line)
  /\ UNCHANGED <<program, limit, tty, forks, exitStatus>>

Waitable(p) == proc[p].pc = "zombie"

\* Mutant: without the wait.
AtOnceAgain(first) == IF first /\ forks > 0 THEN "again" ELSE "exit"

\* pid > 0: after its first line the parent of a child waits.
AfterLine(first) == IF first /\ forks > 0 THEN "wait" ELSE "exit"

\* fork.c: a line, the wait for the child if there is one, and the line again.
ParentPrints ==
  /\ proc[Parent].pc \in {"parent", "again"}
  /\ LET first == proc[Parent].pc = "parent"
         line  == MemoryLine(Parent, IF first THEN 1 ELSE 2, proc[Parent].mem)
     IN  /\ proc' = [proc EXCEPT ![Parent] =
              [WithLine(@, line) EXCEPT !.pc = AfterLine(first)]]
         /\ out' = Shown(line)
  /\ UNCHANGED <<program, limit, tty, forks, exitStatus>>

Wait ==
  /\ proc[Parent].pc = "wait"
  /\ \E p \in Pids :
       /\ Waitable(p)
       /\ proc' = [proc EXCEPT ![p].pc = "gone", ![Parent].pc = "again"]
  /\ UNCHANGED <<program, limit, tty, forks, exitStatus, out>>

-----------------------------------------------------------------------------
(* The children.                                                           *)

\* The threads of pthread/main.c, then exit(0), in allocStacksTest after a sleep.
CreateThread(p) ==
  /\ proc[p].pc = "create"
  /\ IF MoreToStart(proc[p])
       THEN LET line == ThreadLine(p, proc[p].tried, HasRoom)
            IN  /\ proc' = [proc EXCEPT ![p] = WithLine(WithThread(@), line)]
                /\ out' = Shown(line)
       ELSE proc' = [proc EXCEPT ![p].pc = "exit"] /\ UNCHANGED out
  /\ UNCHANGED <<program, limit, tty, forks, exitStatus>>

\* fork.c: the child changes its b and c, and prints them.
ChildPrints(p) ==
  /\ proc[p].pc = "child"
  /\ LET mem  == [b |-> proc[p].mem.b + 1, c |-> proc[p].mem.c + 2]
         line == MemoryLine(p, 1, mem)
     IN  /\ proc' = [proc EXCEPT
              ![p] = [WithLine([@ EXCEPT !.mem = mem], line) EXCEPT !.pc = "exit"]]
         /\ out' = Shown(line)
  /\ UNCHANGED <<program, limit, tty, forks, exitStatus>>

-----------------------------------------------------------------------------
(* Ends.                                                                   *)

\* The process ends, all of its threads with it.
Ended(r) == [r EXCEPT !.pc = "zombie", !.threads = 0, !.buf = <<>>]

\* exit writes the buffer.
LeftToWrite(r) == r.buf

\* A child stays in the table as long as main does not end.
ChildExit(p) ==
  /\ p # Parent /\ proc[p].pc = "exit"
  /\ out' = out \o LeftToWrite(proc[p])
  /\ proc' = [proc EXCEPT ![p] =
       IF Alive(Parent) THEN Ended(@) ELSE [Ended(@) EXCEPT !.pc = "gone"]]
  /\ UNCHANGED <<program, limit, tty, forks, exitStatus>>

\* main ends, and those that ended before it leave the table.
MainExit ==
  /\ proc[Parent].pc = "exit"
  /\ out' = out \o LeftToWrite(proc[Parent])
  /\ proc' = [p \in Pids |->
       IF p = Parent THEN [Ended(proc[p]) EXCEPT !.pc = "gone"]
       ELSE IF proc[p].pc = "zombie" THEN [proc[p] EXCEPT !.pc = "gone"] ELSE proc[p]]
  /\ exitStatus' = IF exitStatus = -1 THEN 0 ELSE exitStatus
  /\ UNCHANGED <<program, limit, tty, forks>>

ForksInit ==
  /\ program \in Forking /\ limit \in Limits /\ tty \in BOOLEAN
  /\ proc = [p \in Pids |-> IF p = Parent THEN [NoProcess EXCEPT !.pc = "fork"] ELSE NoProcess]
  /\ forks = 0 /\ exitStatus = -1 /\ out = <<>>

ForksMain     == Fork \/ ForkFails \/ ForksDone \/ LastThread \/ ParentPrints \/ Wait \/ MainExit
ForksChild(p) == CreateThread(p) \/ ChildPrints(p) \/ ChildExit(p)

ForksNext == ForksMain \/ \E p \in Pids : ForksChild(p)

\* The kernel runs a process that can run.
ForksSpec == ForksInit /\ [][ForksNext]_forksVars /\ WF_forksVars(ForksNext)

-----------------------------------------------------------------------------
(* Properties.                                                             *)

Points == {"none", "fork", "last", "parent", "wait", "again", "create", "child", "exit",
           "zombie", "gone"}

\* Every variable has its type; there are no more tasks than the kernel allows,
\* and a child starts no more threads than its loop has rounds.
ForksTypeOK ==
  /\ program \in Forking /\ limit \in Limits /\ tty \in BOOLEAN
  /\ \A p \in Pids :
       /\ proc[p].pc \in Points /\ proc[p].mem \in Locals
       /\ proc[p].threads <= proc[p].tried
       /\ proc[p].tried <= IF p = Parent THEN 1 ELSE PerChild
  /\ TasksUpTo[MaxForks] <= limit
  /\ forks \in 0 .. Children
  /\ exitStatus \in {-1, 0, 1}

AllEnded == \A p \in Pids : proc[p].pc \in {"none", "gone"}

\* Children that ended and were not waited for count: allocStacksTest1 never gets
\* through its loop when the loop has as many rounds as the kernel has tasks,
\* however short its children live; and a fork fails only when main, its children
\* and all of their threads are as many as the kernel allows
\* (pthread/main.c:79-94).
EndedChildrenCount ==
  program # "fork" =>
    /\ exitStatus = 0 => forks = Children /\ Children < limit
    /\ exitStatus = 1 => forks < Children /\ 1 + forks * (1 + PerChild) >= limit

\* At the end every line was written, and once: main prints nothing before it
\* forks, so a child has no line of main's in its copy of the buffer
\* (pthread/main.c:79-92, fork.c:15-28).
EachLineOnce ==
  /\ \A j, k \in DOMAIN out : j # k => out[j] # out[k]
  /\ AllEnded => Len(out) = IF program = "fork" THEN 1 + 2 * forks
                            ELSE forks * PerChild + (IF program = "allocStacksTest" /\ exitStatus = 0
                                                     THEN 1 ELSE exitStatus)

\* What fork.c shows: the last line of the parent comes after the child's, and the
\* child's changes are not in it (fork.c:17-28).
ParentPrintsLast ==
  \A k \in DOMAIN out :
    out[k][1] = "memory" /\ out[k][2] = Parent =>
      /\ out[k][4] = [b |-> 10, c |-> 0]
      /\ out[k][3] = 2 => \E j \in 1 .. k - 1 : out[j] = MemoryLine(1, 1, [b |-> 11, c |-> 2])

\* Both: what is written, and in which order.
LinesInOrder == EachLineOnce /\ ParentPrintsLast
=============================================================================
