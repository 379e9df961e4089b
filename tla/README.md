# Verification of *interesting-things*

The repository is a collection of small programs written to learn how systems
work: a file system with its image builder, two earlier builders, bit operations shared by
threads, the tool that flashes a board, kernels that do little but start, and
single-page experiments. This directory holds TLA+ models of the ones that have
state and behaviour, the TLC configurations that check them, and theorems about
them that TLAPS proves. Line numbers are those of the repository.

Contents: [inventory](#1-inventory) · [modules](#2-modules) · [runs](#3-runs) ·
[fairness](#4-fairness) · [proofs](#5-proofs) ·
[what the code does not do](#6-what-the-code-does-not-do) ·
[not modelled](#7-what-is-not-modelled) · [plan](#8-plan)

## 1. Inventory

### little-fs: device (`little-fs/little_fs.h`)
*State*: superblock, inode bitmap, data bitmap (one block each), inode table (5
blocks of it in use), data blocks; a root directory (inode 2) whose 11 data
blocks hold dirents of 44 bytes, 93 to a block and 4 bytes left. *Used by* the builder and the runtime through a
shared mapping of one file; there is no other channel between them.
*Correct when*: every block an inode refers to is marked, no two inodes share a
block, the entries of the directory name allocated inodes, each once.

### little-fs: runtime (`little-fs/main.c`)
*State*: a pool of 10 in-memory blocks, a pool of 10 in-memory inodes, a table of
4 open files with a counter, and the mapped device. *Operations*: `fs_open` (with
lookup, creation and truncation), `fs_close`, `fs_read`, `fs_write`; mount and
unmount at the process's start and end. *Interactions*: every function on the
device takes a block from the pool, changes it, writes it back and frees it;
every lookup locks inodes of the pool; an open file keeps a pointer to one.
*Hard*: a process that dies between the two or three writes of a creation and is
started again; pools that leak; descriptors numbered by how many are open;
offsets at the ends of blocks, files and 32 bits; private copies of an inode over
shared blocks. *Correct when*: the device stays consistent at every write, the
pools do not run out while the calls are legal, descriptors behave as a table of
independent descriptors, and reads return what was last written.

### little-fs: image builder (`little-fs/little_fs.c`)
*State*: the image, the file being added. *Operations*: superblock, root, and for
every file of the command line: size, inode number, blocks, inode, data, dirent.
*Hard*: assertions that stop it half way through a file; a size that is counted on
top of what was left in a variable; sizes at multiples of a block; a directory, whose
reads all fail; full tables; a root directory of several blocks that dirents do not
divide. *Correct when*: what it leaves, wherever it stops, can be
mounted, and the files hold their data and their size.

### atomic-operations (`atomic-operations/main.c`)
*State*: a 64-bit word shared by main and 31 threads. *Operations*: set a bit with
an atomic instruction, or with a load and a store; test-and-set of one bit.
*Hard*: every interleaving. *Correct when*: no bit is lost or invented, and a bit
tested and set answers whether it was set.

### pico-programmer (`picotiny/ktiny/flash/sw/pico-programmer.py`)
*State*: of the host, where it is in the program, the page, its retries; of the
board, what it waits for, its page buffer and its flash; between them a serial
line. *Operations*: sync, erase a sector, write the page buffer and compare a
checksum, program the page, reset. *Hard*: late answers, garbled pages, retries,
a host that reads without looking at what it reads. *Correct when*: "Flashing
completed" means that the program is in the flash, pages are programmed erased
and once, and the host ends.

### vsfs and vsfs_0.1 (`vsfs/vsfs.c`, `vsfs_0.1/vsfs.c`)
*State*: the image in memory, written when every file is in it: an inode bitmap and
a data bitmap of which one word is used (64 bits in `vsfs`, 32 in `vsfs_0.1`),
inodes, blocks, dirents. *Operations*: the root directory; for every file, the
builder's own first: its size, counted with `strlen` in a buffer that reads fill,
an inode number, blocks, inode, data, dirent. *Hard*: the width of a word and of
`1 << i`; a size that is counted rather than asked for; a root directory that is not
where it is looked for. *Correct when*: no block is given out twice, every file has
an entry that leads to its inode, and its blocks are its bytes.

### pthread and fork (`pthread/main.c`, `fork/fork.c`)
*State*: of each process its place, its threads, its copy of the memory and of the
buffer of stdout; of the kernel the tasks there are. *Operations*: fork, the threads
of a child, printf, wait, exit. *Interactions*: a child that ended counts until its
parent waits for it or ends; a fork copies what printf has not written. *Hard*:
every order of main and its children, and a fork that fails at any round. *Correct
when*: every line is written once, in an order that the program means, and all
processes end.

### int-funcs (`int-funcs/reverse.c`, `stoi.c`, `atoi.c`)
*State*: what is left of a number and what was made of it. *Operations*: a digit at a
time. *Hard*: the least int, 0, and the sums and products near the largest int.
*Correct when*: what is returned is the number, and nothing overflows.

### lab-ip (`lab-ip/main.c`, `ipfuncs.c`, `ipdata.c`)
*State*: the address that was typed, its parts and three answers. *Operations*: one
line of input. *Hard*: masks of 0 and of 32 bits, both ends of a network, a network
that is looked up with another mask than its own. *Correct when*: an answer means
what it says.

### picotiny startup (`picotiny/ktiny/kernel/`)
*State*: RAM, the UART, two registers and a label. *Operations*: the loop that prints,
the clearing of `.bss`, the copy of `.data`, `main`. *Hard*: registers that a later
label takes from an earlier one; sections of no word; the UART before it has its
divider. *Correct when*: `main` finds the memory that C promises it.

### dump readers (`pico-programmer.py` lines 71-111, `vdump8to32.py`)
*State*: the lines that were kept, a count of them, the program; the words of a
memory. *Operations*: collect, allocate, parse; convert, write. *Hard*: sections that
are short, apart, over each other or below the base; a size that is counted in lines;
negative indices, which Python takes from the end. *Correct when*: what each makes of
a dump is the dump, and both make the same of it.

### riscv console (`riscv/drivers/console.c`)
*State*: the format and its next character, the arguments taken, what was written.
*Operations*: a character or a conversion. *Hard*: the least int, 0, a number as long as
the buffer, a `%` at the end of a format. *Correct when*: each conversion writes its
own argument, and nothing behind the format is read.

### characteristics (`cpp_oop/task0/`)
*State*: a table of names and values, the names it was made with, a value being typed.
*Operations*: the constructor, `operator []`, the setters, `+=`, `>>`, `check`. *Hard*:
sequences of them, with refusals that have changed something already. *Correct when*:
values stay in 1 to 20 and a name finds its characteristic.

### The examples
`cache`, `memory-leak`, `container_of`, `startup`, `struct`, `stack-frame`,
`stack-smashing`, `endian`, `binary`, `inline-def`, `preproc`, `flash-img`,
`file-system` and `conveer` print a layout, a timing or a macro's expansion: there is
no state to model.

`PROJECT.json` lists the hazards line by line, with the properties that would
catch them.

## 2. Modules

```
LittleFsDevice <--- Mkfs                      (builder)
      ^
      +------------ LittleFs ----refines----> DescriptorTable
                       ^
                       +-- LittleFsProofs
Mkfs <--- MkfsProofs
LittleFsData ----refines----> ByteFile        (bytes)
    ^
    +-- LittleFsDataProofs
IspFlash <--- IspFlashProofs                  (host, line and board)

Programs <--- AtomicBits  Vsfs  Forks  IntFuncs  IpLab  KernelStart
    ^         Characteristics  HexDump  Console
    +-- ProgramsProofs                        (threads, ints, start, table, forks,
             |                                 earlier builders, addresses, composition)
             +--> HexDumpProofs               (dump)
             +--> ConsoleProofs               (printf)
Recursion                                     (for proofs: least elements, recursive functions)
MC*                                           (instances for TLC)
```

**LittleFsDevice** — the layout as constants and operators, and `WellFormed`:
what an image must satisfy. `Mkfs` checks that it is what the builder produces
(`ImageMountable`); `LittleFs` assumes it of the images it starts from
(`ImagesAssumption`).

**LittleFs** — the runtime but for the bytes.
* *Device*: `ibmap`, `dbmap` (sets of bits), `dinode`, `dir`. *Memory*:
  `mem.bufs`, `mem.slots` (BUSY slots of the pools), `mem.inode`, `files`,
  `opened_files_cnt`. *Program counter*: `pc`, `call`. *Clients*: `opens`, the
  descriptors they hold in the order they got them.
* Functions of the code are operators of the same name on the state they are
  given (`inmem_read_block`, `fs_get_inode_by_inum`, `fs_find_inode_in_dir`,
  `fs_get_inode`, …) that return the memory they leave, the result, and whether a
  null pointer was followed. Their leaks are the code's: `inmem_block_free`
  releases the first slot whichever it is given (main.c:245-253) and
  `inmem_free_inode` leaves the slot BUSY (main.c:269).
* A call that writes the device once is one step (`Open`, `fs_close`). A creation
  writes it three times and is three steps: `CreateAlloc` (the bit of
  `fs_inode_alloc`), `CreateLink` (the dirent, or the bit given back by
  `AbandonCreate`), `CreateStore` (the inode). `Restart`, enabled at the points in
  `KillPoints`, ends the process and mounts what is on the device.
* `pc = "dead"`: a null pointer was followed. `pc = "overrun"`: a function wrote
  behind the block it was given; what that does is the memory layout's choice, so
  the model ends there.
* `CloseOrder` says which descriptors clients close: any they hold, or the last
  they opened.

**DescriptorTable** — what a descriptor table promises: an open gives a descriptor
nobody holds, bound to an inode no other is bound to; a close touches no other.
`LittleFs` with clients that close in reverse order implements it under
`bound <- [fd \in Held |-> files[fd].ip]`.

**LittleFsData** — `fs_read` and `fs_write` on open files: the loop over the blocks
with its offsets, the copies of an inode that a truncation changes and nobody
stores, the unsigned offset of `UINT` values (2^32 in the code), the end of the
process. Names, pools and the numbers of descriptors are in `LittleFs`; what is
used of them is named in the module's head together with the property of
`LittleFs` that justifies it.

**ByteFile** — what reading and writing promise: a file is an array of bytes that
its descriptors share. `LittleFsData` with calls that stay in a block and begin
inside the file implements it.

**Mkfs** — the builder, one step per store to the image, because the image is a
shared mapping: what was stored when an assertion or a signal stops the builder is
what the runtime mounts. The size of a file begins with what `Uninitialised` says is
in the variable, and after the first file with the size of the files before. A read
of a directory returns -1, of which the loop counts one less and never ends
(`CountDirectory`); in the code that goes round 2^32, here down to `LEAST`. Dirents are
put one behind another across the ends of the root's blocks (`FreePlace`), while the
runtime begins anew in each: `EntryOf` and `ReadAs` say where it reads the n-th dirent,
and as what. One that begins in the second block, or in the last word of the first, is
read with its `reclen` as the number (`RECLEN`, 44 in the code), and from the third block
on the number read is whatever the bytes of a name make.

**Vsfs** — the two earlier builders. `builder` says which of the two runs; where
they differ (the word, the buffer, the root) there is an operator for each, with 64
or 32 in its name. A file is one step, because nothing of the image can be seen
before it is written. The constants are those of the programs. A file's size is
what the loop of reads and `strlen` makes of it: for a text, a sum; for a file with
zero bytes, such as the builder itself, a member of `BinaryCounts`. What an entry leads to
(`Led`) is not what stored it: `InodeAt` is where `ialloc` puts an inode, `TableAt` where
the superblock has the inode of a number, and for `vsfs_0.1` they are two blocks apart. Bit 31 of the
64-bit word is set by a negative `int`, and the bit behind the 32-bit word is found
clear every time.

**AtomicBits** — main and the threads, `cnt` as the set of its bits. The load and
the store of `qwerty` are two steps, the instruction of `_sync_qwerty` is one.
`1 << pos` is a negative `int` for 31 and is widened with its sign (`IntShift`).
`Functions` is which of the two functions the threads run: `_sync_qwerty` in the
code; `qwerty`, which the file keeps beside it, is there for comparison.

**IspFlash** — the host statement by statement, with `pc` named after them, and the
board, which is *external*: it is modelled as the host's calls and comments
describe it. The line keeps its order, and may be late (reads with a timeout then
find nothing, and `reset_input_buffer` drops only what has arrived) or garble a
number of pages. Sectors have their 16 pages; addresses go through the three bytes
of the code, divided by 65535 as it does.

**Forks** — the two loops of `pthread/main.c` and `fork.c`; the kernel is *external*: a
limit on tasks, in which a child that ended and was not waited for counts. A process
has its own copy of the locals and of the buffer of stdout, taken when it is forked;
whether stdout is a terminal is chosen at the beginning. `sleep` is no order.

**IntFuncs** — the four functions, a digit at a step; a signed overflow is recorded in
`overflowed` and wraps, as in the build.

**IpLab** — `main` with what it calls; an address is its octets, a line that `scanf`
refuses is `NoLine`, and numbers above 255 are taken modulo 256, as `%hhu` does. What
an address has below a mask is a remainder by a power of two (`Devices`).

**KernelStart** — `startup.S` a label at a step, over a memory with the cells that
`kernel.ld` lays out. RAM holds anything at reset.

**HexDump** — the two scripts that read the dump, one after the other on the same file,
a line at a step; `IndexError` is Python's.

**Console** — `printf` and the conversions it calls, over the format with the memory
behind it. A call is a format and, for each of its conversions, an argument of its type
(`IsCall`); the memory is what there is up to a NUL that ends `printf` (`IsMemory`).

**Characteristics** — a table and a client that gets a characteristic by name and
changes or checks it. What `operator []` returns for a name that is not there is the
element behind the last, and using it is undefined (`undefined`).

**Programs** — the nine programs that stand alone. They share nothing, so a behaviour
chooses one of them (`running`), which takes its steps while the variables of the
others stay at one of their beginnings. The states of the composition are the sum of
those of the programs, not the product. It shows that the modules do not touch each
other, and one run asks the same of all: do they compute what they are for, and end?

**\*Proofs** — theorems (section 5).

Definitions commented *Mutant* are what a plausible mistake would make of the
definition behind them; they are used by no specification, and show that every
property of every run can fail.

## 3. Runs

All runs are instances in `MC*.tla`, small enough for TLC to exhaust.

| Run | Question | Instance, and why it is enough |
|---|---|---|
| `LittleFsAny` | Is the device consistent at every write, whatever clients open and in whatever order they close, with a kill at any of them? Is `InductiveInv`, the proofs' invariant, true? | Every path (with and without a root, with and without a name); pools of 3 blocks and 5 inodes, which both run out; 2 descriptors, to fill the table and reuse one; 3 whole inodes in a block of a table of 4, and 5 bits in the bitmap, so that numbers past the block, past the table and past the range of a dirent's `inum` (4) are all given out; images with no file, a file, and a full device. |
| `LittleFsLifo` | Do well-behaved clients see a descriptor table, and do directory, bitmap and inode table agree between calls? | Two names, 3 descriptors, directories that fill, 8 inode slots, so that four opens follow each other in one process; numbers up to 4, past the table of 4. |
| `DataInBlock` | Do reads return what was last written, across descriptors, truncations and restarts? | Two files (one shorter than a block, one with a tail that has no block), 2 descriptors on the same or different files, blocks of 2 bytes of which files have up to 3; requests of one byte and of a block. |
| `DataAny` | Can any request move a byte out of its file or out of what the call reports? | Requests across blocks, larger than the largest file, from any offset, and offsets that wrap below 0 to `UINT - 1`. |
| `Mkfs` | Is the image mountable at every store of the builder? Do the files keep their blocks? | Every command line of up to 3 files of 0 bytes, 1 byte, a block, more than two blocks, or missing; as many empty files as the table has inodes, one fewer and one more; a device on which 3 blocks are left after the root. A root of 3 blocks with 3 dirents each (93 in the code) for a table of 8 inodes (393) and numbers below 6 (256), so that the fourth file of a command line is the one across the first block's end, and later ones are in the second and third. |
| `Isp` | Is a completed flash the program, in every schedule of host, board and line? Does the host end? | 17 pages, so that a second sector is erased; every page has the checksum 0x11, which is also the answer before it and so the easiest to mistake; up to 3 sync tries; up to 4 garbled pages against a limit of 1 retry, so that the limit is passed. Late answers or garbled pages, not both. |
| `Programs` | Does each of the nine compute and write what it should, in every order of its threads, processes and calls, and end? | The union of the instances below: 258,096 states. |
| `ParentReleased`, `LookupFindsEntry`, `ReadAfterWrite`, `IspBoth`, `FilesInRoot` | Five things the repository says and the code does not do: TLC finds each violated (section 6). | As above, with the smallest instance that reaches them. |

The instances of `Programs`:

| Program | Instance | Why it is enough |
|---|---|---|
| `AtomicBits` | 4 threads, with the function main uses and with the other | every bit but 31 is treated alike, and two threads already lose one in `qwerty` |
| `Vsfs` | the programs' own scale: command lines of the builder and up to three texts of sizes at the ends of a block and of the largest file, or missing; and 100 empty texts, 40 of a block, 18 of two, 7 of three | the last four exhaust the words, the inode numbers and the place of the entries |
| `Forks` | 3 forks, 2 threads for a child in `allocStacksTest1` and 1 in the other, limits of 1, 2, 3, 4, 6 and 10 tasks, a terminal or not | a limit of 1 refuses the first fork, one of 10 is main with three children and two threads of each: no fork is refused |
| `IntFuncs` | every int of 12 bits is reversed, and those at the ends and around 0 are written | its largest, 2047, begins with a digit as small as 2147483647 does: that digit is why `reverse1` needs no test of its sum |
| `IpLab` | both ends of every range and network, and an address on each side; masks of 0, 8, 10, 12, 15, 16, 19, 20, 22, 24, 32 and 33; numbers above 255 | each answer changes only at those |
| `KernelStart` | `.data` of 0 to 3 words, `.bss` of 0 to 2, RAM with 0 or anything else in every cell | one word is copied and none is cleared, whatever the size |
| `Characteristics` | tables of up to two, with equal names too; values 0, 20, += 20, rolls of 1, 6 and 20 | the two ends of the range, and one call to leave it |
| `HexDump` | lines of 4 bytes, a memory of 4 words; a section of 0 to 13 bytes, two sections in every distance and overlap, one before 0 | lines that are whole or not, sections on, over and past the end of the memory |
| `Console` | an int of 8 bits, a pointer of 16, a buffer of 4; the ends of both and of one and two digits; formats with every conversion, with `%%`, and with `%` at their end | the longest numbers fill the buffer as those of 32 and 64 bits fill theirs |

What the passing runs show:

* **Crash consistency is better than it looks.** A creation marks the inode number,
  then writes the entry, then the inode; truncation frees blocks in the bitmap and
  never stores the inode. Yet no block in use is ever unmarked, no two inodes share
  one, and no entry names an unallocated inode, at any point where the process is
  killed (`BlocksMarked`, `NoSharedBlocks`, `DirectoryConsistent`). Two of the
  reasons are accidents: the bits a truncation clears are not those of the blocks
  (the macro's argument has no parentheses), and slots of the inode pool are never
  reused, so that a new inode never inherits addresses.
* **The two leaks cancel.** A successful lookup leaks a block slot and two inode slots;
  the inode pool runs out first, and a block read of a legal call never fails
  (`BufferPoolLasts`). A null pointer is followed only for a path
  that does not begin at the root or with the inode pool exhausted
  (`NullDerefCause`).
* **Descriptors are safe for clients that close in reverse order** and for no others
  (`KeepsDescriptors`; the second half is in section 6).
* **Bytes are right inside a block** (`KeepsBytes`), and outside it still stay in
  their file and in the range that the call reports (`WritesStayInRange`,
  `BytesInFile`).
* **The earlier builders' small texts are right**, with named exceptions that the
  properties spell out: in `vsfs` the second file's entry replaces the first's, whose
  inode number 0 looks like a free entry; in `vsfs_0.1` the 33rd bit is given out
  again and again, and no entry leads to an inode (`BlocksAreOwn`, `EntriesFindFiles`,
  `TextsAreStored`).
* **What stands alone mostly does what it is for** (`Programs`). The exceptions are in
  the properties: `ResultsRight` says that `atoi` overflows on the last 48 ints though
  their value fits; `AnswersRight` says with which mask a network is found, and that of
  the listed ranges 100.64/10 is never local; `TableRight` says that only += takes a value
  out of its range; `FormatIsWritten` says what of a format is written (each character and
  each `%d`, `%x` and `%p`, once and in order; nothing for `%s`, `%f` and what is no
  conversion) and after which formats `printf` reads on behind the NUL; `DumpIsRead` says
  which short programs are refused, and that where sections overlap the program has the
  byte of the last and the memory the bits of all (`ReadersAgree` is for those that do not).
* **The plain `|=` loses bits and invents none** (`NoBitInvented`, an action property): until
  all threads are joined the word has bits of returned threads only, and a thread that
  returns leaves its own.
* **The builder's image can be mounted as long as the root's first block has room**
  (`ImageMountable`); the file behind that room is `FilesInRoot`, section 6.
* **Lateness and noise are each survived by the programmer, not both** (`Isp`, `IspBoth`).

A deadlock check is off in every run: processes end, pools and images fill, the
flasher prints and exits. Where something must go on it is stated as such
(`HostEnds`).

## 4. Fairness

* `IspFlash`: `WF(Host)`, the host runs when it can take a step; it is one thread, and
  blocked exactly when a read without a timeout has nothing to take. `WF(Receive)`: what
  was written to the line arrives and the board answers. Pushing the board's button
  (`EnterIsp`) is not fair: nobody has to. Bytes are not lost, as stated at `HostEnds`:
  the reads of the commands have no timeout (pico-programmer.py:14), so a lost byte
  stops the host for good.
* `Mkfs`: `WF(Next)`; the builder is one process that never waits.
  `EndsUnlessDirectory` names the one case in which it does not end.
* `Programs`: `WF(Computes)`; a program that can take a step takes one. Which of its
  threads or processes that is, is left open: a kernel that never runs one of them
  while others can run would be unfair, but these run out of steps, so it has to in
  the end. `Vsfs`, `IpLab` and `Characteristics` are outside: between two steps they wait
  for a caller or for input, or they are one step for a file.

LittleFs and LittleFsData have no liveness: every call of theirs is a bounded number of
steps, and nobody has to call.

## 5. Proofs

Each theorem holds for every value of the constants that satisfies the named
assumptions of the modules (`DeviceAssumption`, `SizesAssumption`, `BitmapAssumption`,
`ImagesAssumption`; `MkfsAssumption`; `ThreadsAssumption`; `IntMaxAssumption`,
`CallsAssumption`; `LayoutAssumption`; `TablesAssumption`, `NumbersAssumption`;
`ForksAssumption`; `VsfsAssumption`; `DumpsAssumption`; `LinesAssumption`;
`FormatsAssumption`, `WidthsAssumption`; those of `LittleFsData` and `IspFlash`), which
TLC evaluates in the runs. Where a theorem has a hypothesis of its own the table names it; every one of them
holds of a run's instance and has its reason below.

| Theorem | States |
|---|---|
| `LittleFsProofs!Invariance` | `Spec => []InductiveInv` |
| `LittleFsProofs!TypeCorrectness` | `Spec => []TypeOK` |
| `LittleFsProofs!BlocksAreMarked` | `Spec => []BlocksMarked` |
| `LittleFsProofs!BlocksAreNotShared` | `Spec => []NoSharedBlocks` |
| `LittleFsProofs!DirectoryIsConsistent` | `Spec => []DirectoryConsistent` |
| `LittleFsProofs!ReadsSucceed` | `Spec => []BufferZeroFree` |
| `LittleFsProofs!DeathsHaveCauses` | `Spec => []NullDerefCause` |
| `LittleFsProofs!BlocksOutlastInodes` | `Spec => []BufferPoolLasts` |
| `LittleFsProofs!LiveInodesAreLocked` | `Spec => []LiveInodesLocked` |
| `LittleFsProofs!ClosedAreUnreadable` | `Spec => []ClosedIsUnreadable` |
| `LittleFsProofs!DescriptorsAreNotShared` | for `CloseOrder = "lifo"`: `Spec => []NoSharedDescriptor` |
| `LittleFsProofs!TableIsImplemented` | for `CloseOrder = "lifo"`: `Spec => KeepsDescriptors`, the refinement of `DescriptorTable` |
| `LittleFsProofs!NoInodeIsLeaked` | for `Orderly` and `WholeImages`: `Spec => []NoLeakedInode` |
| `LittleFsProofs!EntriesFindInodes` | for the same: `Spec => []EntriesResolve` |
| `LittleFsDataProofs!DataTypes` | `Spec => []TypeOK` |
| `LittleFsDataProofs!BytesLieInFile` | `Spec => []BytesInFile` |
| `LittleFsDataProofs!WritesTouchTheirBytes` | `Spec => WritesStayInRange`, an action property |
| `LittleFsDataProofs!ReadsWhatWasWritten` | for `Access = "in_block"`: `Spec => KeepsBytes`, the refinement of `ByteFile` |
| `MkfsProofs!BuilderLeavesMountable` | `Spec => []ImageMountable` |
| `MkfsProofs!BuilderKeepsFiles` | `Spec => []FilesKeepTheirData` |
| `IspFlashProofs!StaysInStep` | `Spec => []InStep` |
| `IspFlashProofs!CompletedIsProgram` | for `Sound`: `Spec => []CompletedIsFlashed` |
| `IspFlashProofs!ProgramsOnlyErased` | for `Sound`: `Spec => ProgramsErased`, an action property |
| `IspFlashProofs!AddressesReachThePages` | what the three bytes of an address are, for every page of 16 megabytes |
| `ProgramsProofs!NoBitIsLost`, `TestsAnswerRight` | `BitsSafety => []NoBitLost` and `BitsSafety => []TestsAnswer` |
| `ProgramsProofs!NoBitIsInvented` | `BitsSafety => NoBitInvented`, an action property |
| `ProgramsProofs!ReverseIsSafe` | `IntsSafety => []ReverseNeverOverflows`, for every width |
| `ProgramsProofs!NothingOverflows` | for ints of 16 and of 32 bits: `IntsSafety => []NeverOverflows` |
| `ProgramsProofs!ResultsAreRight` | for the same: `IntsSafety => []ResultsRight` |
| `ProgramsProofs!MainFindsOneWord` | `StartSafety => []MainFinds` |
| `ProgramsProofs!TableIsRight` | `TableSafety => []TableRight` |
| `ProgramsProofs!EndedChildrenStay` | `ForksSafety => []EndedChildrenCount` |
| `ProgramsProofs!LinesStayInOrder` | `ForksSafety => []LinesInOrder` |
| `ProgramsProofs!BlocksStayOwn` | `VsfsSpec => []BlocksAreOwn` |
| `ProgramsProofs!EntriesFind` | `VsfsSpec => []EntriesFindFiles` |
| `ProgramsProofs!TextsStayStored` | `VsfsSpec => []TextsAreStored` |
| `ProgramsProofs!IpTyped` | `IpSpec => []IpTypeOK` |
| `ProgramsProofs!AnswersAreRight` | `IpSpec => []AnswersRight` |
| `ProgramsProofs!BitsTyped`, `VsfsTyped`, `ForksTyped`, `TypeCorrectness`, `TableTyped` | the type invariants of the others: `BitsSafety => []BitsTypeOK`, and so on |
| `ProgramsProofs!IntsTyped` | for ints of 16 and of 32 bits: `IntsSafety => []IntsTypeOK` |
| `ConsoleProofs!PrintfTyped` | `PrintfSafety => []PrintfTypeOK` |
| `ConsoleProofs!FormatStaysWritten` | `PrintfSafety => []FormatIsWritten` |
| `HexDumpProofs!DumpTyped` | `DumpSpec => []DumpTypeOK` |
| `HexDumpProofs!DumpStaysRead` | `DumpSpec => []DumpIsRead` |
| `HexDumpProofs!ReadersStayAgreed` | `DumpSpec => []ReadersAgree` |
| `ProgramsProofs!EachRunsAsAlone` | `Spec => BitsSafety /\ IntsSafety /\ StartSafety /\ TableSafety /\ ForksSafety /\ VsfsSpec /\ DumpSpec /\ IpSpec /\ PrintfSafety`: the composition implements each of its nine parts |
| `ProgramsProofs!ProgramsTyped` | for ints of 16 and of 32 bits: `Spec => []ProgramTypeOK` |
| `ProgramsProofs!ProgramsLoseNoBit`, `ProgramsNeverOverflow`, `ProgramsResultsRight`, `ProgramsMainFinds`, `ProgramsTableRight`, `ProgramsForksRight`, `ProgramsVsfsRight`, `ProgramsDumpRead`, `ProgramsAnswersRight`, `ProgramsFormatWritten` | the above, of the specification that the run `Programs` checks |

**`InductiveInv`.** None of the properties of the device is inductive alone.
*`NoSharedBlocks`* needs that the inode a creation is about to store has no
addresses (`CallInv`), which needs that a slot locked for the first time is clean
(`CleanIn`): every slot that was used is still BUSY. *`BlocksMarked`* needs an
argument about addresses: an address of a data block is at least 8 blocks in, so
the bit that a truncation clears, `addr - dataStartAddr \div BSIZE`, is at least
`dataStartAddr - 8`, past every bit of a data block (`FreedBitIsOutside`, from
`BitmapAssumption`). *`NullDerefCause`* needs *`BufferZeroFree`*: the block a lookup
reads is the first slot, the one that `inmem_block_free` releases; only the block
a lookup holds while it fetches the inode is another, and that is the leak.
*`DirectoryConsistent`* needs `DirectoryInv`, which also says what is true between
the bit and the entry: the number of the creation in progress is not in the
directory (`Settled`). Reaching from the pools up, the lemmas follow the functions
(`BlockForIs`, `UseBlockIs`, `GetByInum`, `FindInDir`, `GetInode`), then there is
one lemma per action (`OpenKeeps`, `CreateAllocKeeps`, `CreateLinkKeeps`,
`CreateStoreKeeps`, `CloseKeeps`, `RestartKeeps`).

**Descriptors.** For reverse closing, `LifoInv` says that the descriptors held are
0, 1, …, so that the number of files open is the first free descriptor. With
`LiveInodesLocked` (an open locks slots that were not locked) every step is one of
`DescriptorTable` or leaves `bound` as it is (`TableSteps`).

**Closed descriptors.** `ClosedIsUnreadable` is inductive beside `InductiveInv`: an open
gives out the slot it fills (`TakeKeepsClosed`), a close empties the one it takes back
(`CloseKeepsClosed`), and no other step changes the table.

**Pools.** `BufferPoolLasts` is `BufferZeroFree` and a count: twice the block slots
that leaked are at most the inode slots that did. Every function but one gives back the
block it took (`UseBlockLeavesAll`, `GetByInumLeaks`, `ParentLeaksNothing`). The lookup in
a directory that finds its inode leaks one (`FindInDirLeaks`), and has then locked two
inode slots that were not locked, the parent's and the child's (`GetInodePays`,
`TwoSlotsPay`). Only a restart gives slots back, and it gives back all.

**Directory.** `NoLeakedInode` and `EntriesResolve` are conjuncts of one invariant,
`WholeInv`: as long as the inode numbers fit a dirent, the bits of the inode bitmap are
the root's, that of the creation in progress (`Settled` leaves it out) and those of the
entries, and every entry but the one whose inode is not stored yet (`Unstored`) finds a
file. It holds beside `InductiveInv`, from which it takes that the numbers of entries
differ. Its hypotheses are about the environment: `Orderly`, that no process is killed
inside a call, which would leave the bit of its creation set, and that nobody creates a
file under the name of a free dirent; `WholeImages`, that the device was left in such a
state, as the builder that ends does. They are those of the run `LittleFsLifo`.

**Bytes.** `DataInv` says that an open file is a copy of an inode as it was stored, or
truncated (`CopiesOf`), that addresses stay in the device and are of one file, and what
the last call reported. What the loops of `fs_read` and `fs_write` do to bytes is
stated without them: which byte of the file is which of a block (`Content`), and which
of the buffer a call reads or writes last, by the least counterexample (`LastElement`).
`WritesStayInRange` then follows for any request; `KeepsBytes` needs requests that do
not cross a block's end, which the code gets wrong (`ReadAfterWrite`, section 6), and
that the initial bytes are among them, 0.

**The builder.** `ImageMountable` needs to know what is on its way: `MkfsInv` says that
inode numbers and blocks are handed out in order, so that the k-th file has the k-th
number that is not the root's and the next block is behind all others (`NumbersInv`,
`BlocksInv`), and that the blocks taken and not stored in an inode yet are the last of
the bitmap. The dirents stored are the first so many (`linked`), so those in the first block
are the files themselves, in order. Two assumptions on constants say that a bitmap has a bit for each
inode and `balloc`'s word one for each data block, 56 of 64 (little_fs.h:15, 30-39); with
fewer, `balloc` would look no further and give out its first block again. That the
builder can take blocks past the device is in the model and in the properties: they
promise what they promise as long as blocks, numbers and the room in the root's first
block last. This theorem is what
`LittleFs` assumes of images it starts from.

**The programmer.** `IInv` follows a conversation by its stages: a message is on the
line only between two stages, the host is at the last of them, the board at the first,
and what lies between is what the host sent and the board has not taken (`Leads`,
`HostAt`, `BoardFor`, `OnTheWay`), or nothing has been answered to a sync yet
(`Waiting`). It gives `InStep` for every line, however late and garbled: the host waits
for an answer of the board before each message, even if it takes an old one for it.
What is in the flash (`FlashAt`) and in the page buffer (`BufferAt`) at each stage needs
`Sound`: a line that is late or garbles pages but not both, as both together do break
`CompletedIsFlashed` (`IspBoth`, section 6), and a program without the page at
0xFFFF00, whose address the division by 65535 gets wrong (`AddressesReachThePages`).

**Bits.** `BitsInv` ties `cnt` to the threads that returned (`ThreadsInv`), for `qwerty`
`cnt` and what each thread loaded to those that have returned (`StoresInv`, from which
`NoBitInvented` follows for each step), and the answers of
the tests to where main is (`FoobarInv`); bit 31 is not a thread's by `ThreadsAssumption`.

**Overflows.** `reverse` tests the sum and the product before it makes them
(`RoomForDigit`). `reverse1` tests the product only, and its sum is safe by the widths:
after k digits what is returned is below 10^k, and what is left times 10^k is at most
the largest int and one (`Progress`), so that the last digit that an int has room for,
its first, is at most 3 of 32767 and 2 of 2147483647.

**Results.** Each function has an invariant that says what is done and what is left. For
`reverse` and `reverse1`, what is returned so far, followed by the digits of what is left,
keeps being the number turned round (`ReversalInv`); when the loop stops early, no int is
what is still to come. For `stoi` there is a list of what was left after each digit, so
that the text is the digits of its first element (`Peeled`, `DecimalInv`); the smallest int
is its own negative and its digits are no characters (`LeftOfSmallest`). For `atoi` it is
the value of the characters taken (`AtoiInv`). The reference definitions, `ReversalFrom`
and `ValueTo`, are recursive functions: that they exist and can be unfolded is proved from
their iteration, and that the value of a longer text follows from a shorter one's by the
least counterexample. The hypothesis is the width of `NothingOverflows`. That what `stoi`
returns, a length, is an int needs a bound that falls: the number of digits and what is left
of the number together (`DigitsInv`).

**The table.** `TableInv` says that the table keeps its length and its elements the names
that it can give, and that what is out of range was added to. That a lookup
finds the first element of a name needs that there is a first (`WFMin`). That a check goes by the
better or the worse roll is a fact about one step (`CheckOfStep`): a second roll is made
unless the first decides, and then it cannot change the answer (`PassedByRoll`).

**Forks.** The tasks of the system are a sum over the processes, a recursive function that
has to be shown to exist before it can be used (`SumsExist`, `SumsAre`). `ForkingInv` bounds
it from both sides: a fork is tried when the children before it are there, and one that
failed found the limit reached (`TasksAtLeast`, `TasksAtMost`, `TasksRise`). For the lines,
`LinesInv` says how far each process came and so which lines it has printed (`PathInv`),
that the parent has passed its wait only when the child has ended (`ChildSeen`), and that
a printed line is in stdout or in the buffer of the process that printed it, once
(`LinesPrinted`, `OnceEach`). That none is lost is a count: the length of stdout is the
sum over the processes of what each printed less what is in its buffer (`AllCounted`). There
is one lemma per action for each of these; when all processes have ended the buffers are
empty and the sum is that of all lines (`AllWritten`).

**The start.** `StartInv` says what each label finds in the registers: the print loop
leaves the UART in `a0`, with which the clearing of `.bss` compares and stops;
`data_init` copies one word and falls through to `main`.

**The earlier builders.** What a file takes is the result of `n` calls of `balloc`, a
recursion in the model (`Allocated`). It is proved that a function with these values exists
and that no other has them (`ChainIs`, `ChainUnique`), so that everything can be said of
the number of calls so far: after `m` of them the word is `Word(m)` and the next answer
`NextBlock(m)`, which for `vsfs` is a failure from the 33rd call on, since bit 31 set all
above it, and for `vsfs_0.1` always the bit behind the word. `Asked(m)` adds that all
addresses are among those given out by then (`Given`), so that the next are nobody's
(`NewAreGiven`). An inode number that is found is nobody's, or 32 (`FoundInode`); the
entry of the k-th file is the k-th, or with `vsfs` the one before it once the first is
written over (`EntriesInv`, `Lost`). Which inode that leads to is arithmetic of the two tables: 56 bytes an
inode and 2 blocks between them, which 56 does not divide (`EntriesFind`). What a text's size is counted to is a sum over its
reads, shown to exist in the same way (`CountedIs`), and it is right up to one block, or
two (`SmallIsWhole`).

**The dump.** A reader sees lines and the properties speak of sections, so the proofs begin
with what the lines of a dump are. `LinesOf` and `FileOf` are recursive functions, which
are shown to exist by one lemma for all of this kind (`RecursionExists`). What a file is
follows by the least counterexample: it can be walked (`FileIsWalked`), that is, each line
has a section and a number of its bytes that are read by then, and with each line either
the next section begins or bytes of the same section follow (`Walks`, `Follows`); the
programmer's list begins with the address that it keeps twice. `DumpInv` says
where the walk is (`Where`) and what was made of the bytes read by then (`Covers`, `Holds`).
For the programmer these are the bytes from the first section at 0 on: the list has the
last that was read for an address, or 0 (`Listed`), and that a program of one section is
neither too short nor refused is a count of lines, of which all but the last are full
(`OneInv`, `FullLines`). For the converter a cell of the memory stands for two addresses,
`base + a` and, since Python takes negative indices from the end, `base + a - MEMSIZE`: it
has a bit if a byte that was read of either has it (`InMemory`, `Upper`, `Lower`,
`ReadWith`). That `|=` joins bits is proved of the recursive function that defines it, a bit
at a time (`HalfInto`, `OrDoubles`, `BitsOfOr`), and it never has more than 8 of them
(`IntoIsByte`); that a line brings at most one byte to a cell needs that a line is no longer
than the memory (`MadeOfBits`; `SizesAssumption`, 16 of 8192 in the code). Where sections do
not overlap the bits are those of one byte, which they determine (`BitsAreByte`), and the two
scripts agree. `DumpsAssumption` says that a dump is a file of bytes with addresses.

**Addresses.** An octet of a network is a multiple of the number of addresses below it,
`Devices(k, n)`, one of nine powers of two that divide each other (`Sizes`, `DevicesFall`), and
the octet of an address is one of these and a rest (`PartsAre`, `RestOfSize`). So what is in a
network with a longer mask is in it (`InLonger`), which makes the network that is found right
for every mask at least as long as its own; that no other is found before it needs that the
four addresses of the table are networks of their masks (`NetworksAre`), pairwise different,
and that an address has one. The masks of the four local ranges are those of 8, 12 and 16
bits, and the one for 100 is none at all (`LengthOfMask`), so that an address there is never
local. Behind a broadcast, whose octets
below the mask are full, the next address is in another network: at the octet that is counted
up the rest is the largest there is (`NextPart`, `NextIsElsewhere`).

**printf.** `PrintfInv` says of the place in the format that it is never the second character
of a conversion, that the arguments taken are as many as the conversions before it have
(`AreTaken`), and that each entry written is right (`EntryIsRight`) and fits `buf`
(`EntryFits`). Which characters are second is a recursion along the format (`SecondsAre`), and
the count of conversions goes up by one with each (`LettersAre`). That a conversion writes
its number is a fact about `convert`: its digits from the last on, turned round, are a
numeral without a 0 before it whose value is the number (`NumeralIs`, by strong induction on
the number; `ValueOfMore`), with its sign (`IntIsWritten`) or its `0x` (`PtrIsWritten`).
That `buf` is long enough for every argument is reduced to the largest of each kind, since a
larger number has no fewer digits (`LongerIs`) and hexadecimal has no more than decimal
(`ShorterInHex`): that those fit is `WidthsAssumption`, 11 and 16 characters in the
16 of `buf` (console.c:8, 23, 46). `FormatsAssumption` says that calls are as the
compiler checks them for the standard `printf`, an argument of its type for every conversion,
and that memory behind a format has a NUL that ends `printf`, that is, not the second
character of a `%`; with none there `printf` reads on as long as there is memory. That each
place of the format is written once and in order is an invariant of its own, `Wrote`, of
which each step is one of two kinds: it writes the character at `p` (`WroteOne`) or passes
over what is not written for (`WroteNone`).

**Composition.** A step of `Programs` is one of the program that runs, or leaves the
variables of a program alone (`OneStep`); the beginnings of the idle programs are
beginnings. The type invariant of all is then those of the nine.

**Only model-checked**: liveness (`HostEnds`, `EndsUnlessDirectory`, `EveryProgramEnds`),
which is out of TLAPS's reach. Every other property that a passing run checks is stated by a
theorem.

**Recursion.** The library's theorems of induction and of recursive functions take an operator,
which the provers cannot instantiate. `Recursion` has what replaces them, stated of sets and
functions: a set of numbers has a least element (from `WFMin` and `NatLessThanWellFounded`),
induction over a set (`Induction`, `StrongInduction`), and that a functional whose values
depend on smaller arguments only has a fixed point (`RecursionExists`).

## 6. What the code does not do

Each is shown by a run (`findings` in `PROJECT.json`). TLC finds the first five violated;
the last three are what a property of `Programs` says, with its proof, of every input:

* **Released inodes stay locked** (main.c:269; run `ParentReleased`). A process can
  make about five opens, then every one fails or dies.
* **A lookup sees one dirent per block** (main.c:469; `LookupFindsEntry`). The second
  file of an image cannot be opened, and can be created again.
* **Across a block's end bytes are wrong** (main.c:718, 757; `ReadAfterWrite`). The
  caller's buffer is not advanced: a write repeats its beginning, a read overwrites
  it.
* **The programmer can report a flash that is bad** (pico-programmer.py:28, 211;
  `IspBoth`). An answer late in the handshake leaves it a byte behind the board; it
  then compares the checksum of one try with the answer to another.
* **The 94th file of an image is lost** (little_fs.c:157-158, where line 254 says "Add file
  into the root directory"; `FilesInRoot`). The loop for a free dirent goes on over the
  block's end, and the runtime reads the dirent from its second word on: its number is its
  `reclen`, 44, which an earlier file has too.
* **One word of `.data` is copied** (startup.S:40, where kernel.ld:55 asks for the
  initial values to be copied; `MainFinds` says it). Nothing jumps back in the loops of the
  start: `main` finds the first word of `.data`, the others and `.bss` as RAM was at reset.
* **Entries of `vsfs_0.1` lead to no inode** (vsfs_0.1/vsfs.c:126, where line 18 calls
  `inodestart` the first inode block; `EntriesFindFiles` says it). Inodes are stored from block 1 on,
  the superblock and the entries have them from block 3.
* **100.64/10 is never local** (ipfuncs.c:48, where line 29 lists the range;
  `AnswersRight` says it). The mask asked for is 0x3FF00000; 10 bits are 0xFFC00000.

Seen while modelling, in the models, and without a run of their own:

* A close that is not of the last descriptor makes the next open hand out a
  descriptor that another client holds (main.c:662).
* `fs_close` accepts descriptor 4, one past the table, and counts a descriptor
  closed twice twice (main.c:678).
* A truncation is not stored: after a restart the file has its blocks and size, and
  the bits it cleared are others (main.c:621-631).
* A creation in a directory block whose whole dirents are taken writes a dirent
  across its end, into the next slot of the pool (main.c:510).
* A creation with an inode number past the table succeeds and leaves an entry that
  leads nowhere (main.c:609); with one past the first block of the table it writes
  behind the block (main.c:435).
* A refused write adds -1 to the unsigned offset (main.c:808): every later read
  answers 0 and every later write -1, which is why the damage stays bounded
  (`BytesInFile`).
* The builder gives a file as many blocks as its size fills, rounded down, so that
  the tail of most files has none (little_fs.c:214); it takes blocks past the
  device (little_fs.c:106), one file more than the table has inodes
  (little_fs.c:200), and does not end on a directory (little_fs.c:208). It never sets
  the size to 0 between files, so that sizes add up (little_fs.c:194, 210).
* Both earlier builders write their entries behind the superblock, where they take
  zeros for the root's inode. `vsfs` copies the last read of a file to each of its
  blocks (vsfs/vsfs.c:84-89); `vsfs_0.1` leaves holes from the third block on
  (vsfs_0.1/vsfs.c:207) and stores the inode 0 over the inode bitmap
  (vsfs_0.1/vsfs.c:126).
* Testing and setting bit 31 sets bits 31 to 63 (atomic-operations/main.c:60); nothing in
  the file reads those above 31, and no property is about them.
* The programmer divides the page address by 65535, which gives a wrong byte for one
  page of a 16 MB flash, 0xFFFF00 (pico-programmer.py:25). It counts 16 bytes for every
  line of the program but one, and takes the size of the last from the line before it, so
  that a program of a single short line is refused (pico-programmer.py:97).
* `pthread/main.c` ends with an error whenever the kernel has fewer tasks than its loop
  has rounds, however short its children live: none is waited for (main.c:79).
* `atoi` adds the character before it takes '0' away, which overflows for the last 48
  ints (atoi.c:9); `stoi` writes nothing for 0, and cannot negate the least int
  (stoi.c:5-22).
* `ip_network_lookup` compares a network with the address under the mask that was typed,
  not under the network's own: with another mask an address of the network is missed
  unless the bits between the two masks are 0 (ipfuncs.c:71-76). Numbers above 255 wrap, as
  `%hhu` stores them (lab-ip/main.c:13).
* A `%` at the end of a format is stepped over together with its NUL, and `%s` and `%f`
  leave their argument to the next conversion (console.c:73-97).
* A name that the table never had, or that an element has lost, reads the element behind
  the last (CharacteristicTable.cpp:39); `+=` takes a value past 20 (Characteristic.cpp:53);
  at the end of input the loops of `operator >>` do not end (Characteristic.cpp:83-92).

## 7. What is not modelled

* *little-fs*: `fs_block_alloc`, which nothing calls; paths of several components, on
  which the lookup does not end; descriptors that no client holds, among them the one
  past the table that `fs_close` takes; names as characters, and names too long for a
  dirent; the fields of the superblock.
* *atomic-operations*: `foo` and `bar`, which nothing calls.
* *vsfs, vsfs_0.1*: what follows a write behind a buffer, or an entry that reaches the
  bitmap; names.
* *picotiny*: the Verilog and the tools' settings; the picture of the UART is one cell that
  is written and a divider that is set.
* *riscv*: the parser of the device tree, which is not finished, is called by nothing and
  reads a big-endian header as it is; the entry, a dozen instructions that call a function
  before the stack they set up, behind a link with another entry point. Neither has a
  behaviour to check.
* *cpp_oop*: the operations of the table that are declared and defined nowhere.
* *vdump8to32*: how its output lines are laid out.
* The examples (end of section 1): no state.

## 8. Plan

All the components with state are modelled, and every safety property of the passing runs is
proved. What could be added:

1. The end of a creation's loop over the dirents of a block (main.c:510): the hazard has no
   property, because what a write across the block's end does is the memory layout's choice.
2. Paths of several components, once the lookup of the code ends on them.
