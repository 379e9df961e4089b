---------------------------- MODULE LittleFsData ----------------------------
(***************************************************************************)
(* Bytes in little-fs: fs_read and fs_write, and what fs_open with         *)
(* FS_O_TRUNC, fs_close and the end of the process do to what they read    *)
(* and write (little-fs/main.c).                                           *)
(*                                                                         *)
(* An open file has its own copy of the inode, which is never written back *)
(* and never updated; the blocks are shared.  LittleFs has the pools, the  *)
(* names and the numbers of the descriptors, and shows what is used here:  *)
(* a block can always be read (BufferZeroFree), two inodes share no block  *)
(* (NoSharedBlocks), an open takes two slots of the inode pool that do not *)
(* come back (ParentReleased), and clients that close the last descriptor  *)
(* they opened share none (NoSharedDescriptor): these are the clients.     *)
(* A block is known by its number on the device, BLOCK_NUM(addr).          *)
(***************************************************************************)
EXTENDS Integers, Sequences

CONSTANTS
  Files,                \* the inode numbers of the files
  BSIZE,
  MAX_BLOCKS_PER_FILE,
  Blocks,               \* the numbers of the data blocks
  Bytes,                \* the values of a byte
  Images,               \* the inodes and blocks that the image builder wrote
  UINT,                 \* 2^32, the values of a uint32_t
  Flags,                \* sets of flags that clients open with
  Sizes,                \* how much clients ask to read
  Buffers,              \* what clients write
  MAX_FILES_OPENED,
  INMEM_INODES_NUM,
  Access                \* "in_block": clients ask for bytes of one block that
                        \*   begin no further than the end of the file
                        \* "any":      for any bytes

Capacity  == MAX_BLOCKS_PER_FILE * BSIZE
Direct    == 0 .. MAX_BLOCKS_PER_FILE - 1
Untouched == -1   \* a byte of the caller's buffer that was not copied to

Inode == [size : 0 .. Capacity, addr : [Direct -> Blocks \cup {0}]]
Block == [0 .. BSIZE - 1 -> Bytes]

ASSUME DataAssumption ==
  /\ {BSIZE, MAX_BLOCKS_PER_FILE, MAX_FILES_OPENED, INMEM_INODES_NUM} \subseteq Nat \ {0}
  /\ Blocks \subseteq Nat \ {0}
  /\ Bytes \subseteq Nat
  /\ Sizes \subseteq Nat \ {0}
  /\ Flags \subseteq SUBSET {"FS_O_WRONLY", "FS_O_RDWR", "FS_O_TRUNC"}
  /\ Buffers \subseteq Seq(Bytes)
  /\ UINT \in Nat /\ UINT > Capacity
  /\ \A size \in Sizes : Capacity + size < UINT
  /\ \A buf \in Buffers : Capacity + Len(buf) < UINT
  /\ Access \in {"in_block", "any"}

\* The files of an image share no block and have none twice, and are shorter
\* than the largest file (little_fs.c:212).
ASSUME DataImagesAssumption == \A img \in Images :
  /\ img.dinode \in [Files -> Inode]
  /\ img.block \in [Blocks -> Block]
  /\ \A f \in Files : img.dinode[f].size < Capacity
  /\ \A f, g \in Files, i, j \in Direct :
       img.dinode[f].addr[i] = img.dinode[g].addr[j] /\ img.dinode[f].addr[i] # 0
         => f = g /\ i = j

VARIABLES
  dinode,  \* device: the inodes of the files
  block,   \* device: the bytes of the data blocks
  files,   \* memory: the open files, by descriptor
  locked,  \* memory: BUSY slots of the inode pool
  last     \* the last fs_read or fs_write: where it began and what it returned

vars == <<dinode, block, files, locked, last>>

File == [inum : Files, ip : Inode, off : 0 .. UINT - 1,
         readable : BOOLEAN, writable : BOOLEAN]

-----------------------------------------------------------------------------
(* The loop of fs_read_from_inode and fs_write_to_inode over the blocks of  *)
(* n bytes from off.                                                        *)

\* Mutant: from the beginning of the block, whatever the offset.
FromBlockStart(i, off) == 0

\* The bytes of block i that the loop asks for: where they begin in the block,
\* and how many they are.
InBlockOff(i, off) == IF off <= i * BSIZE THEN 0 ELSE off - i * BSIZE
Chunk(i, off, n) ==
  LET end == (i + 1) * BSIZE
  IN  (IF off + n < end THEN off + n ELSE end) - (i * BSIZE + InBlockOff(i, off))

\* The blocks it gets to: it stops at the first that the inode does not have.
Reached(ip, off, n) ==
  {i \in Direct : /\ n > 0 /\ off \div BSIZE <= i /\ i * BSIZE < off + n
                  /\ \A j \in Direct : off \div BSIZE <= j /\ j <= i => ip.addr[j] # 0}

\* How many bytes it counts.
Counted(ip, off, n) ==
  IF Reached(ip, off, n) = {} THEN 0
  ELSE LET i == CHOOSE i \in Reached(ip, off, n) : \A j \in Reached(ip, off, n) : j <= i
       IN  i * BSIZE + InBlockOff(i, off) + Chunk(i, off, n) - off

\* What the caller's buffer then holds: every block's bytes were copied to its
\* beginning, over those of the blocks before.
BufferAfter(ip, off, n) ==
  [p \in 1 .. n |->
     LET over == {i \in Reached(ip, off, n) : p <= Chunk(i, off, n)}
         i    == CHOOSE i \in over : \A j \in over : j <= i
     IN  IF over = {} THEN Untouched ELSE block[ip.addr[i]][InBlockOff(i, off) + p - 1]]

\* What the blocks then hold: every block was given the beginning of the buffer.
BlocksAfter(ip, off, buf) ==
  [b \in Blocks |->
     LET here == {i \in Reached(ip, off, Len(buf)) : ip.addr[i] = b}
         i    == CHOOSE i \in here : TRUE
     IN  IF here = {} THEN block[b]
         ELSE [o \in 0 .. BSIZE - 1 |->
                 IF o - InBlockOff(i, off) \in 0 .. Chunk(i, off, Len(buf)) - 1
                 THEN buf[o - InBlockOff(i, off) + 1] ELSE block[b][o]]]

-----------------------------------------------------------------------------
(* Calls.                                                                  *)

\* fs_trunc_inode: in the copy only, and the size only if there was a block.
fs_trunc_inode(ip) ==
  IF \E i \in Direct : ip.addr[i] # 0 THEN [size |-> 0, addr |-> [i \in Direct |-> 0]] ELSE ip

CanOpen == Len(files) # MAX_FILES_OPENED

\* fs_open of a file that exists, while the inode pool lasts.
fs_open(f, flags) ==
  /\ CanOpen
  /\ locked + 2 <= INMEM_INODES_NUM
  /\ locked' = locked + 2
  /\ files' = Append(files,
       [inum     |-> f,
        off      |-> 0,
        ip       |-> IF "FS_O_TRUNC" \in flags THEN fs_trunc_inode(dinode[f]) ELSE dinode[f],
        readable |-> "FS_O_WRONLY" \notin flags,
        writable |-> {"FS_O_WRONLY", "FS_O_RDWR"} \cap flags # {}])
  /\ UNCHANGED <<dinode, block, last>>

\* What clients ask for.
Allowed(f, n) ==
  Access = "in_block" => (f.off % BSIZE) + n <= BSIZE /\ f.off <= f.ip.size

Answer(op, f, n, data) == [op |-> op, file |-> f.inum, at |-> f.off, n |-> n, data |-> data]

\* Mutant: no limit at the end of the file.
ReadableBytes(f, size) == size

\* How much fs_read_from_inode tries to read.
BytesToRead(f, size) ==
  IF f.off > f.ip.size THEN 0
  ELSE IF f.off + size > f.ip.size THEN f.ip.size - f.off ELSE size

fs_read(d, size) ==
  LET f == files[d]
      n == BytesToRead(f, size)
      k == Counted(f.ip, f.off, n)
  IN  /\ Allowed(f, size)
      /\ \/ /\ ~f.readable
            /\ last' = Answer("read", f, -1, <<>>)
            /\ UNCHANGED files
         \/ /\ f.readable
            /\ last' = Answer("read", f, k, SubSeq(BufferAfter(f.ip, f.off, n), 1, k))
            /\ files' = [files EXCEPT ![d].off = @ + k]
      /\ UNCHANGED <<dinode, block, locked>>

\* fs_write_to_inode turns the call away: the offset is past the end of the file,
\* or the end of the bytes past that of the largest file.
Refused(f, n) == f.off > f.ip.size \/ (f.off + n) % UINT < f.off \/ f.off + n > Capacity

\* A refused call returns -1, and -1 is added to the offset.
fs_write(d, buf) ==
  LET f == files[d]
      k == Counted(f.ip, f.off, Len(buf))
  IN  /\ Allowed(f, Len(buf))
      /\ \/ /\ ~f.writable
            /\ last' = Answer("write", f, -1, <<>>)
            /\ UNCHANGED <<block, files>>
         \/ /\ f.writable /\ Refused(f, Len(buf))
            /\ last' = Answer("write", f, -1, <<>>)
            /\ files' = [files EXCEPT ![d].off = (@ + UINT - 1) % UINT]
            /\ UNCHANGED block
         \/ /\ f.writable /\ ~Refused(f, Len(buf))
            /\ last' = Answer("write", f, k, SubSeq(buf, 1, k))
            /\ files' = [files EXCEPT ![d].off = @ + k]
            /\ block' = BlocksAfter(f.ip, f.off, buf)
      /\ UNCHANGED <<dinode, locked>>

\* fs_close, of the last descriptor opened.
fs_close ==
  /\ files # <<>>
  /\ files' = SubSeq(files, 1, Len(files) - 1)
  /\ UNCHANGED <<dinode, block, locked, last>>

\* The process ends and another one mounts the device.
Restart ==
  /\ locked # 0
  /\ files' = <<>>
  /\ locked' = 0
  /\ UNCHANGED <<dinode, block, last>>

Init ==
  /\ \E img \in Images : dinode = img.dinode /\ block = img.block
  /\ files = <<>>
  /\ locked = 0
  /\ last = [op |-> "none"]

Next ==
  \/ \E f \in Files, flags \in Flags : fs_open(f, flags)
  \/ \E d \in DOMAIN files, size \in Sizes : fs_read(d, size)
  \/ \E d \in DOMAIN files, buf \in Buffers : fs_write(d, buf)
  \/ fs_close
  \/ Restart

Spec == Init /\ [][Next]_vars

-----------------------------------------------------------------------------
(* Properties.                                                             *)

\* Every variable has its type (main.c:789, 808 keep the offset a uint32_t).
TypeOK ==
  /\ dinode \in [Files -> Inode]
  /\ block \in [Blocks -> Block]
  /\ files \in Seq(File)
  /\ Len(files) <= MAX_FILES_OPENED
  /\ locked \in 0 .. INMEM_INODES_NUM

\* The bytes of a file: those of its blocks, and 0 where it has none.
Content == [f \in Files |-> [o \in 0 .. Capacity - 1 |->
  LET b == dinode[f].addr[o \div BSIZE]
  IN  IF b = 0 THEN 0 ELSE block[b][o % BSIZE]]]

\* Clients whose calls stay in one block and begin inside the file read, on any
\* descriptor, what was last written on any other, before or after a restart;
\* a truncation empties only the descriptor that asked for it (main.c:689-812).
Promised == INSTANCE ByteFile WITH
  Offsets    <- 0 .. Capacity - 1,
  Limits     <- 0 .. Capacity,
  MaxRequest <- BSIZE,
  content    <- Content,
  views      <- [d \in DOMAIN files |-> [file  |-> files[d].inum,
                                         off   |-> files[d].off,
                                         limit |-> files[d].ip.size]],
  result     <- last
KeepsBytes == Promised!ByteFileSpec

\* Whatever clients ask for, a byte of a file only changes in a write on a
\* descriptor of this file, and among the bytes that write reports (main.c:757).
WritesStayInRange ==
  [][\A f \in Files, o \in 0 .. Capacity - 1 :
       Content'[f][o] # Content[f][o] =>
         /\ last'.op = "write" /\ last'.file = f
         /\ o - last'.at \in 0 .. last'.n - 1]_vars

\* Whatever clients ask for, no byte moves on an offset past the end of the
\* file, which a write that is refused can leave, the -1 it returns being added
\* to the offset, and none is read past that end (main.c:695-700, 734-739, 808).
BytesInFile ==
  last.op \in {"read", "write"} /\ last.n > 0 =>
    /\ last.at <= dinode[last.file].size
    /\ last.at + last.n <= IF last.op = "read" THEN dinode[last.file].size ELSE Capacity

\* The test at main.c:166-174 fails when a file does not hold what a write
\* reported written, or a read returns something else than what the file holds.
ReadAfterWrite ==
  [][last' # last => \A p \in 1 .. last'.n :
       last'.data[p] = Content'[last'.file][last'.at + p - 1]]_vars
=============================================================================
