-------------------------------- MODULE Vsfs --------------------------------
(***************************************************************************)
(* The two image builders before little-fs: vsfs/vsfs.c and, rewritten,    *)
(* vsfs_0.1/vsfs.c.  Both build the image in memory, one file of the       *)
(* command line after another, and write it when all are there: a builder  *)
(* that an assertion stops has written nothing.                            *)
(*                                                                         *)
(* The first file of the command line is the builder's own, argv[0].       *)
(*                                                                         *)
(* Neither finds a root directory where it looks for it, and both take the *)
(* zeros there for one whose first block is block 0: the entries go behind *)
(* the superblock, to the bytes 44, 88 and so on.  Numbers are those of    *)
(* the programs; blocks are counted from the first data block.  Where a    *)
(* builder writes behind a buffer, or the entries reach the bitmap, the    *)
(* model stops ("overrun").                                                *)
(***************************************************************************)
EXTENDS Integers, Sequences

CONSTANTS
  Builders,      \* which of the two, "vsfs" and "vsfs_0.1"
  CommandLines,  \* sequences of files
  BinaryCounts   \* what strlen may count in a file that has zero bytes

BSIZE    == 4096
NDIRECT  == 12
MAXFILES == 365
ROOTINO  == 1
MAXFSIZE == NDIRECT * BSIZE
DirentPlaces   == 4096 \div 44 - 1   \* dirents that lie whole behind the superblock

NoFile == -1
None    == -1   \* no bit is clear
File    == [size : Nat \cup {NoFile}, text : BOOLEAN]

ASSUME VsfsAssumption ==
  /\ Builders \subseteq {"vsfs", "vsfs_0.1"}
  /\ CommandLines \subseteq Seq(File)
  /\ BinaryCounts \subseteq Nat

VARIABLES
  builder,
  argv,
  filecnt,  \* the files added
  ibmap,    \* the first word of the inode bitmap, as the set of its bits
  dbmap,    \* the first word of the data bitmap
  dinode,   \* the inodes stored, by number: whose, its size and its blocks
  stored,     \* the blocks stored: of which file, and which of its reads
  entries,  \* the dirents behind the superblock: whose, and its inum
  vsfsPc

image == <<ibmap, dbmap, dinode, stored, entries>>
vsfsVars  == <<builder, argv, filecnt, image, vsfsPc>>

-----------------------------------------------------------------------------
(* The bitmaps: ialloc and balloc look at one word.                        *)

FirstClear(map, n) ==
  IF 0 .. n - 1 \subseteq map THEN None
  ELSE CHOOSE i \in 0 .. n - 1 : i \notin map /\ \A j \in 0 .. i - 1 : j \in map

\* Mutant: the bit is found and not set.
LookOnly(map, i) == map

\* vsfs: a word of 64 bits, and 1 << 31 is negative and sets all above it too.
Found64(map)    == FirstClear(map, 64)
SetBit64(map, i) == map \cup (IF i = 31 THEN 31 .. 63 ELSE {i})

\* vsfs_0.1: a word of 32 bits.  Once they are set, bit 32 is found, always
\* clear, and setting it sets bit 0.
Found32(map)    == IF 0 .. 31 \subseteq map THEN 32 ELSE FirstClear(map, 32)
SetBit32(map, i) == map \cup {i % 32}

FoundBit(map)     == IF builder = "vsfs" THEN Found64(map) ELSE Found32(map)
SetBit(map, i) == IF builder = "vsfs" THEN SetBit64(map, i) ELSE SetBit32(map, i)

\* The word and the blocks after n calls of balloc; with None when one fails.
Allocated(map, n) ==
  LET after[k \in 0 .. n] ==
        IF k = 0 THEN [map |-> map, addr |-> <<>>]
        ELSE LET before == after[k - 1]
                 bit    == FoundBit(before.map)
             IN  [map  |-> SetBit(before.map, bit), addr |-> Append(before.addr, bit)]
  IN  after[n]

-----------------------------------------------------------------------------
(* Reading a file, and how long the builders find it.                      *)

Reads(size)  == (size + BSIZE - 1) \div BSIZE
Got(size, k) == IF k * BSIZE <= size THEN BSIZE ELSE size % BSIZE

\* The strlen after the k-th read of a text.  vsfs reads every time to the
\* beginning of the buffer, which the first read fills when there is a second.
Strlen64(size, k) == IF k = 1 THEN Got(size, 1) ELSE BSIZE

\* vsfs_0.1 reads to where it has counted to, and counts from the beginning:
\* the third read is behind a gap of zeros.
Strlen32(size, k) == IF k = 1 THEN Got(size, 1) ELSE BSIZE + Got(size, 2)

\* The sum after k reads.
CountedAfter(size, k) ==
  LET sum[j \in 0 .. k] ==
        IF j = 0 THEN 0
        ELSE sum[j - 1] + IF builder = "vsfs" THEN Strlen64(size, j) ELSE Strlen32(size, j)
  IN  sum[k]

CountedSizes(file) ==
  IF file.text THEN {CountedAfter(file.size, Reads(file.size))} ELSE BinaryCounts

\* A read of vsfs_0.1 that goes past the end of its buffer.
ReadsPast(file) ==
  /\ builder = "vsfs_0.1" /\ file.text
  /\ \E k \in 1 .. Reads(file.size) :
       CountedAfter(file.size, k - 1) + Got(file.size, k) > MAXFSIZE

BlocksRequired(size) == IF size > 0 /\ size \div BSIZE = 0 THEN 1 ELSE size \div BSIZE

\* Which read is in the buffer that is copied to the i-th block, 0 for zeros.
\* vsfs copies its one buffer to every block.
Copied64(size, i) == Reads(size)

\* Mutant: the reads follow each other from the second block on.
CopiedInOrder(size, i) == i - 1

Copied32(size, i) ==
  LET here == {k \in 1 .. Reads(size) : CountedAfter(size, k - 1) = (i - 1) * BSIZE}
  IN  IF here = {} THEN 0 ELSE CHOOSE k \in here : TRUE

Copied(size, i) == IF builder = "vsfs" THEN Copied64(size, i) ELSE Copied32(size, i)

-----------------------------------------------------------------------------
(* The directory.                                                          *)

\* The macro inum, cut to eight bits.  vsfs_0.1 stores the inodes from the
\* inode bitmap on, 2 blocks before the table that the macro subtracts:
\* (2^32 - 2 * 4096) \div 56 is 146 modulo 256.
InumOf(bit) == IF builder = "vsfs" THEN bit ELSE (146 + bit) % 256

\* Where ialloc's inode lies in the image, and where the superblock has the inode
\* of a number: inodestart is block 3 of both, and an inode has 56 bytes.
InodeAt(bit)  == bit * 56 + (IF builder = "vsfs" THEN 3 ELSE 1) * BSIZE
TableAt(inum) == inum * 56 + 3 * BSIZE

\* The inodes that an entry leads to.
Led(entry) == {i \in DOMAIN dinode : InodeAt(i) = TableAt(entry.inum)}

\* Mutant: the first dirent.
FirstPlace == 1

\* The first dirent whose first byte, the inum, is zero.
PlaceFor ==
  CHOOSE k \in 1 .. Len(entries) + 1 :
    /\ k <= Len(entries) => entries[k].inum = 0
    /\ \A j \in 1 .. k - 1 : entries[j].inum # 0

Placed(entry) ==
  [k \in 1 .. (IF PlaceFor > Len(entries) THEN PlaceFor ELSE Len(entries)) |->
     IF k = PlaceFor THEN entry ELSE entries[k]]

\* What the first word of the inode bitmap is after an inode was stored: the
\* inode 0 of vsfs_0.1 goes over it, type and nlink, both 1.
WordAfter(map, bit) == IF builder = "vsfs_0.1" /\ bit = 0 THEN {0, 16} ELSE map

-----------------------------------------------------------------------------
(* Steps.                                                                  *)

\* The root takes the first blocks.  vsfs_0.1 has the function and does not
\* call it.
create_root ==
  /\ vsfsPc = "root"
  /\ IF builder = "vsfs"
       THEN ibmap' = {ROOTINO} /\ dbmap' = Allocated({}, NDIRECT).map
       ELSE UNCHANGED <<ibmap, dbmap>>
  /\ vsfsPc' = "files"
  /\ UNCHANGED <<builder, argv, filecnt, dinode, stored, entries>>

MoreFiles == filecnt < Len(argv) /\ filecnt <= MAXFILES

\* The assertions on a file whose size was counted.
Fails(file, size) ==
  \/ size >= MAXFSIZE
  \/ FoundBit(ibmap) = None
  \/ \E k \in 1 .. BlocksRequired(size) :
       Allocated(dbmap, BlocksRequired(size)).addr[k] = None

Stop(file, size, how) ==
  /\ vsfsPc' = how
  /\ UNCHANGED <<builder, argv, filecnt, image>>

\* The inode, the data and the entry of the next file.
Store(file, size) ==
  LET n    == filecnt + 1
      bit  == FoundBit(ibmap)
      got  == Allocated(dbmap, BlocksRequired(size))
  IN  /\ ibmap' = WordAfter(SetBit(ibmap, bit), bit)
      /\ dbmap' = got.map
      /\ dinode' = [i \in DOMAIN dinode \cup {bit} |->
           IF i = bit THEN [file |-> n, size |-> size, addr |-> got.addr] ELSE dinode[i]]
      /\ stored' = [b \in DOMAIN stored \cup {got.addr[k] : k \in DOMAIN got.addr} |->
           LET here == {k \in DOMAIN got.addr : got.addr[k] = b}
               last == CHOOSE k \in here : \A j \in here : j <= k
           IN  IF here = {} THEN stored[b]
               ELSE [file |-> n, read |-> Copied(file.size, last)]]
      /\ entries' = Placed([file |-> n, inum |-> InumOf(bit)])
      /\ filecnt' = n
      /\ UNCHANGED <<builder, argv, vsfsPc>>

AddFile ==
  /\ vsfsPc = "files" /\ MoreFiles
  /\ LET file == argv[filecnt + 1]
     IN  \/ /\ file.size = NoFile
            /\ Stop(file, 0, "abort")
         \/ /\ file.size # NoFile
            /\ \E size \in CountedSizes(file) :
                 \/ ReadsPast(file) /\ Stop(file, size, "overrun")
                 \/ ~ReadsPast(file) /\ Fails(file, size) /\ Stop(file, size, "abort")
                 \/ /\ ~ReadsPast(file) /\ ~Fails(file, size)
                    /\ IF PlaceFor > DirentPlaces THEN Stop(file, size, "overrun")
                       ELSE Store(file, size)

WriteImage ==
  /\ vsfsPc = "files" /\ ~MoreFiles
  /\ vsfsPc' = "written"
  /\ UNCHANGED <<builder, argv, filecnt, image>>

Builds(which, command) ==
  /\ builder = which /\ argv = command
  /\ filecnt = 0
  /\ ibmap = {} /\ dbmap = {}
  /\ dinode = [i \in {} |-> 0] /\ stored = [b \in {} |-> 0]
  /\ entries = <<>>
  /\ vsfsPc = "root"

VsfsInit == \E which \in Builders, command \in CommandLines : Builds(which, command)

VsfsNext == create_root \/ AddFile \/ WriteImage

VsfsSpec == VsfsInit /\ [][VsfsNext]_vsfsVars

-----------------------------------------------------------------------------
(* Properties.                                                             *)

\* Every variable has its type: the words have 64 and 32 bits, and an inode has
\* no more blocks than it has addresses.
VsfsTypeOK ==
  /\ builder \in Builders /\ argv \in Seq(File)
  /\ filecnt \in 0 .. Len(argv)
  /\ ibmap \cup dbmap \subseteq 0 .. (IF builder = "vsfs" THEN 63 ELSE 31)
  /\ \A i \in DOMAIN dinode : Len(dinode[i].addr) <= NDIRECT
  /\ Len(entries) <= DirentPlaces
  /\ vsfsPc \in {"root", "files", "written", "abort", "overrun"}

\* The places of the inodes that have a block.
Owners(b) == {place \in (DOMAIN dinode) \X (1 .. NDIRECT) :
                /\ place[2] <= Len(dinode[place[1]].addr)
                /\ dinode[place[1]].addr[place[2]] = b}

\* A block has one owner and is not the root's: vsfs runs out of bits before it
\* gives one out again, since bit 31 sets all above it (vsfs/vsfs.c:138-147), and all
\* that vsfs_0.1 gives out again is the block behind its word (vsfs_0.1/vsfs.c:105-110).
BlocksAreOwn ==
  \A b \in DOMAIN stored :
    \/ \A p, q \in Owners(b) : p = q /\ (builder = "vsfs" => b >= NDIRECT)
    \/ builder = "vsfs_0.1" /\ b = 32

\* Every file has one entry, but that of vsfs's own file, with inum 0, is written over
\* by that of the next (vsfs/vsfs.c:178-179).  With vsfs an entry leads to the inode of
\* its file and no other.  With vsfs_0.1 none leads to any inode, since the inodes are
\* 2 blocks before the "first inode block" (vsfs_0.1/vsfs.c:18) that the entries count
\* from (vsfs_0.1/vsfs.c:65, 77, 126).
EntriesFindFiles ==
  \A n \in 1 .. filecnt :
    LET own == {k \in DOMAIN entries : entries[k].file = n}
    IN  IF builder = "vsfs" /\ n = 1 /\ filecnt > 1 THEN own = {}
        ELSE \E k \in own :
               /\ own = {k}
               /\ IF builder = "vsfs"
                    THEN \E i \in DOMAIN dinode : Led(entries[k]) = {i} /\ dinode[i].file = n
                    ELSE Led(entries[k]) = {}

\* The blocks of a text are its own bytes: all of them and in order if it has no
\* more than one block, and with vsfs_0.1 two (vsfs/vsfs.c:51-53,
\* vsfs_0.1/vsfs.c:207-208).
TextsAreStored ==
  \A i \in DOMAIN dinode \ {32} :
    LET file  == argv[dinode[i].file]
        addr  == dinode[i].addr
        small == Reads(file.size) <= IF builder = "vsfs" THEN 1 ELSE 2
    IN  file.text =>
          /\ small => Len(addr) >= Reads(file.size)
          /\ \A k \in DOMAIN addr : addr[k] # 32 =>
               /\ stored[addr[k]].file = dinode[i].file
               /\ small /\ k <= Reads(file.size) => stored[addr[k]].read = k
=============================================================================
