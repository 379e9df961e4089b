-------------------------------- MODULE Mkfs --------------------------------
(***************************************************************************)
(* The image builder (little-fs/little_fs.c): it writes the superblock and *)
(* the root directory, then one file of the command line after another.    *)
(*                                                                         *)
(* The image is a shared mapping: what the builder has stored when it is   *)
(* killed or an assertion stops it is what the runtime mounts, so every    *)
(* store is a step and the invariants are about the image at every step.   *)
(*                                                                         *)
(* Abstractions.  The bytes of a block are the number of the file and of   *)
(* its block they come from.  Where the builder writes past the inode      *)
(* table or past the image, the model stops ("overrun").                   *)
(*                                                                         *)
(* The builder puts one dirent behind another from the beginning of the    *)
(* root's blocks to wherever the last file takes it.  A block has room for *)
(* DIRENTS_PER_BLOCK dirents and for one word more (4096 = 93 * 44 + 4), so *)
(* that the next dirent begins in that word: the runtime, which begins     *)
(* anew in every block, reads those of the second block from their second  *)
(* word on, those of the third from their third, and so on.                *)
(***************************************************************************)
EXTENDS LittleFsDevice, Sequences

CONSTANTS
  CommandLines,     \* sequences of files: a name and a size, Missing if there is
                    \* none of the name, Directory if it is a directory
  LEAST,            \* file_size is counted down to here: the least int
  Uninitialised,    \* what file_size holds before anything is assigned to it
  BITS_PER_BITMAP,  \* bits in the words that balloc looks at, 64
  DATA_BITS,        \* bits in the data bitmap: more than there are data blocks
  RECLEN            \* sizeof(dirent_t), 44

Missing   == -1
Directory == -2
None      == -1     \* no bit is clear

\* There are more bits than inodes in the one bitmap, and more in a word of the
\* other than data blocks: 56 of the 64 (little_fs.h:15, 30-39).  The root's blocks
\* have room for as many dirents as there may be files: 393 of 44 bytes in 11 blocks.
ASSUME MkfsAssumption ==
  /\ BITS_PER_BITMAP \in Nat /\ BITS_PER_BITMAP > DATA_BLOCKS
  /\ INODE_BITS >= MAXFILES
  /\ DATA_BITS \in Nat /\ DATA_BITS >= DATA_BLOCKS /\ DATA_BLOCKS >= NDIRECT
  /\ CommandLines \subseteq Seq([name : Names, size : Nat \cup {Missing, Directory}])
  /\ Uninitialised \subseteq Int /\ LEAST \in Int
  /\ RECLEN \in Nat /\ MAXFILES <= NDIRECT * DIRENTS_PER_BLOCK

VARIABLES
  ibmap, dbmap, dinode, dir,  \* the image, as the runtime reads it (LittleFs)
  linked,     \* the image: the dirents stored, counted from the root's first block
  dsize,      \* the image: the size in each inode
  data,       \* the image: the file and the block of it that a data block holds
  argv,       \* the command line
  file_cnt,   \* the file being added, from 1
  file_size,  \* of the file being added
  inum, addr, \* of the file being added
  pc          \* the next statement, or where the builder stopped

image == <<ibmap, dbmap, dinode, dsize, dir, linked, data>>
vars  == <<image, argv, file_cnt, file_size, inum, addr, pc>>

-----------------------------------------------------------------------------
(* The allocators.                                                         *)

FirstUnused(taken, n) ==
  IF 0 .. n - 1 \subseteq taken THEN None
  ELSE CHOOSE i \in 0 .. n - 1 : i \notin taken /\ \A j \in 0 .. i - 1 : j \in taken

\* What balloc returns for a bit: the number of the word's first bit is not
\* multiplied by the size of a block.
BlockAddr(bit) ==
  IF bit = None THEN 0
  ELSE dataStartAddr + bit - (bit % BITS_PER_BITMAP) + (bit % BITS_PER_BITMAP) * BSIZE

\* Mutant: a block is looked for and not marked.
LookAt(map, bit) == map

\* ialloc and balloc set the bit they found.
Taken(map, bit) == IF bit = None THEN map ELSE map \cup {bit}

-----------------------------------------------------------------------------
(* Steps.                                                                  *)

\* The size of the file only as far as it fills blocks, and one block at least.
BlocksRequired(size) == IF size > 0 /\ size \div BSIZE = 0 THEN 1 ELSE size \div BSIZE

\* superblock_create and rootdir_create: the root takes the first blocks.
rootdir_create ==
  /\ pc = "root"
  /\ dbmap' = 0 .. NDIRECT - 1
  /\ ibmap' = {ROOTINO}
  /\ dinode' = [dinode EXCEPT ![ROOTINO] =
       [type |-> TYPE_DIR, addr |-> [i \in Direct |-> BlockAddr(i)]]]
  /\ pc' = "open"
  /\ UNCHANGED <<dsize, dir, linked, data, argv, file_cnt, file_size, inum, addr>>

\* The head of the loop over the command line.
MoreFiles == file_cnt <= Len(argv) /\ file_cnt <= MAXFILES

Finish ==
  /\ pc = "open" /\ ~MoreFiles
  /\ pc' = "done"
  /\ UNCHANGED <<image, argv, file_cnt, file_size, inum, addr>>

\* file_size is declared in the loop and never set: the size is added to what
\* its place on the stack holds, the size counted for the file before.
Counted(size) == file_size + size

\* A read of a directory fails with -1, which is more than 0 as a uint32_t: it is
\* added, and the directory is read again.
CountDirectory ==
  /\ pc = "open" /\ MoreFiles /\ argv[file_cnt].size = Directory
  /\ file_size' = IF file_size > LEAST THEN file_size - 1 ELSE file_size
  /\ UNCHANGED <<image, argv, file_cnt, inum, addr, pc>>

\* The file is opened and its size counted, with the two assertions.
CountSize ==
  /\ pc = "open" /\ MoreFiles /\ argv[file_cnt].size # Directory
  /\ LET size == Counted(argv[file_cnt].size)
     IN  \/ /\ argv[file_cnt].size = Missing
            /\ pc' = "abort"
            /\ UNCHANGED file_size
         \/ /\ argv[file_cnt].size # Missing
            /\ file_size' = size
            /\ pc' = IF size < BSIZE * NDIRECT THEN "ialloc" ELSE "abort"
  /\ UNCHANGED <<image, argv, file_cnt, inum, addr>>

ialloc ==
  /\ pc = "ialloc"
  /\ LET bit == FirstUnused(ibmap, INODE_BITS)
     IN  /\ ibmap' = Taken(ibmap, bit)
         /\ inum' = bit
         /\ pc' = IF bit = None THEN "abort" ELSE "balloc"
  /\ addr' = <<>>
  /\ UNCHANGED <<dbmap, dinode, dsize, dir, linked, data, argv, file_cnt, file_size>>

\* The next of the blocks required.
balloc ==
  /\ pc = "balloc" /\ Len(addr) < BlocksRequired(file_size)
  /\ LET bit == FirstUnused(dbmap, DATA_BITS)
     IN  /\ dbmap' = Taken(dbmap, bit)
         /\ addr' = Append(addr, BlockAddr(bit))
         /\ pc' = IF bit = None THEN "abort" ELSE "balloc"
  /\ UNCHANGED <<ibmap, dinode, dsize, dir, linked, data, argv, file_cnt, file_size, inum>>

\* The inode of the file: the inode past the table is stored over what follows.
StoreInode ==
  /\ pc = "balloc" /\ Len(addr) >= BlocksRequired(file_size)
  /\ IF inum < MAXFILES
       THEN /\ dinode' = [dinode EXCEPT ![inum] =
                 [type |-> TYPE_FILE,
                  addr |-> [i \in Direct |-> IF i < Len(addr) THEN addr[i + 1] ELSE 0]]]
            /\ dsize' = [dsize EXCEPT ![inum] = file_size]
            /\ pc' = "data"
       ELSE pc' = "overrun" /\ UNCHANGED <<dinode, dsize>>
  /\ UNCHANGED <<ibmap, dbmap, dir, linked, data, argv, file_cnt, file_size, inum, addr>>

\* Mutant: the index of the loop stays.
SameBlock(blocks) == blocks

NextBlock(blocks) == Tail(blocks)

\* The next block of the file, as long as addr has one, is read and copied to
\* where the inode says.
StoreData ==
  /\ pc = "data" /\ addr # <<>>
  /\ IF addr[1] \in Addresses
       THEN /\ data' = [data EXCEPT ![addr[1]] =
                 [file |-> file_cnt, block |-> BlocksRequired(file_size) - Len(addr)]]
            /\ addr' = NextBlock(addr)
            /\ UNCHANGED pc
       ELSE pc' = "overrun" /\ UNCHANGED <<data, addr>>
  /\ UNCHANGED <<ibmap, dbmap, dinode, dsize, dir, linked, argv, file_cnt, file_size, inum>>

\* Mutant: the first dirent, free or not.
FirstPlace == 0

\* The first dirent whose strlen is 0, whatever block it is in or between.
FreePlace ==
  CHOOSE n \in 0 .. NDIRECT * DIRENTS_PER_BLOCK - 1 :
    n \notin linked /\ \A k \in 0 .. n - 1 : k \in linked

\* The entry where the runtime reads the n-th dirent, and as what: those of the
\* first block as they are.  In the second block reclen is read as the number, and
\* four characters of the name as strlen; from the third on, the number and strlen
\* are read from the strlen, the name and what the stack held behind it.
EntryOf(n) == <<n \div DIRENTS_PER_BLOCK, n % DIRENTS_PER_BLOCK>>
ReadAs(n, dirent) ==
  IF EntryOf(n)[1] = 0 THEN {dirent}
  ELSE IF EntryOf(n)[1] = 1 THEN [name : Names, inum : {RECLEN % INUM_RANGE}]
  ELSE Dirent

\* add_dirent: the number is cut to the width of a dirent's inum.
add_dirent ==
  /\ pc = "data" /\ addr = <<>>
  /\ linked' = linked \cup {FreePlace}
  /\ \E read \in ReadAs(FreePlace, [name |-> argv[file_cnt].name, inum |-> inum % INUM_RANGE]) :
       dir' = [dir EXCEPT ![EntryOf(FreePlace)] = read]
  /\ file_cnt' = file_cnt + 1
  /\ pc' = "open"
  /\ UNCHANGED <<ibmap, dbmap, dinode, dsize, data, argv, file_size, inum, addr>>

\* img_open leaves an image of zeros.
Init ==
  /\ ibmap = {} /\ dbmap = {}
  /\ dinode = [n \in 0 .. MAXFILES - 1 |-> ZeroInode]
  /\ dsize = [n \in 0 .. MAXFILES - 1 |-> 0]
  /\ dir = [e \in Entries |-> [name |-> FreeName, inum |-> 0]] /\ linked = {}
  /\ data = [a \in Addresses |-> [file |-> 0, block |-> 0]]
  /\ argv \in CommandLines
  /\ file_cnt = 1
  /\ file_size \in Uninitialised
  /\ inum = None /\ addr = <<>>
  /\ pc = "root"

Next ==
  \/ rootdir_create \/ Finish \/ CountDirectory \/ CountSize
  \/ ialloc \/ balloc \/ StoreInode \/ StoreData \/ add_dirent

\* A process that is not killed goes on.
Spec == Init /\ [][Next]_vars /\ WF_vars(Next)

-----------------------------------------------------------------------------
(* Properties.                                                             *)

\* Every variable has its type.
TypeOK ==
  /\ ibmap \subseteq 0 .. INODE_BITS - 1
  /\ dbmap \subseteq 0 .. DATA_BITS - 1
  /\ dinode \in [0 .. MAXFILES - 1 -> [type : {TYPE_FREE, TYPE_DIR, TYPE_FILE},
                                       addr : [Direct -> Nat]]]
  /\ dsize \in [0 .. MAXFILES - 1 -> Int]
  /\ dir \in [Entries -> Dirent] /\ linked \subseteq 0 .. file_cnt - 1
  /\ data \in [Addresses -> [file : Nat, block : Nat]]
  /\ argv \in CommandLines
  /\ file_cnt \in 1 .. Len(argv) + 1
  /\ file_size \in Int
  /\ inum \in 0 .. INODE_BITS - 1 \cup {None}
  /\ addr \in Seq(Nat) /\ Len(addr) <= NDIRECT
  /\ pc \in {"root", "open", "ialloc", "balloc", "data", "done", "abort", "overrun"}

Image == [ibmap |-> ibmap, dbmap |-> dbmap, dinode |-> dinode, dir |-> dir]

\* Wherever the builder is stopped after it made the root, the image is one the
\* runtime can mount, as LittleFs assumes it (ImagesAssumption), as long as the
\* blocks and inode numbers taken are those the device and a dirent have and the
\* files are no more than there is room for in the root's first block: the entries
\* of all that come behind the first block have one number (little_fs.c:157-160).
ImageMountable ==
  /\ pc # "root"
  /\ dbmap \subseteq 0 .. DATA_BLOCKS - 1
  /\ ibmap \subseteq 0 .. INUM_RANGE - 1
  /\ file_cnt - 1 <= DIRENTS_PER_BLOCK
  => WellFormed(Image)

\* "Add file into the root directory" (little_fs.c:254): the runtime finds an entry
\* with the number of every file that was added, as long as a dirent has room for it.
FilesInRoot ==
  pc = "open" /\ ibmap \subseteq 0 .. INUM_RANGE - 1 =>
    \A n \in ibmap \ {ROOTINO} : \E e \in Entries : dir[e].name # FreeName /\ dir[e].inum = n

\* A file in the root's first block has its own blocks in its own inode: no file added
\* after it has written over one of them, and the inode numbers below the end of
\* the table are enough for one file less than the table has inodes, the root
\* having one (little_fs.c:200, 238, 251).
FilesKeepTheirData ==
  /\ ibmap \subseteq 0 .. INUM_RANGE - 1 =>
       \A n \in 0 .. DIRENTS_PER_BLOCK - 1, i \in Direct :
         dir[<<0, n>>].name # FreeName =>
           LET b == dinode[dir[<<0, n>>].inum].addr[i]
           IN  b # 0 => data[b] = [file |-> n + 1, block |-> i]
  /\ Len(argv) < MAXFILES => \A n \in ibmap : n < MAXFILES

\* The builder comes to an end, or to a directory on its command line, of which it
\* counts the size from then on (little_fs.c:192, 208-211, 241-252).
EndsUnlessDirectory ==
  \/ <>(pc \in {"done", "abort", "overrun"})
  \/ <>[](pc = "open" /\ file_cnt <= Len(argv) /\ argv[file_cnt].size = Directory)
=============================================================================
