--------------------------- MODULE LittleFsDevice ---------------------------
(***************************************************************************)
(* The device of little-fs (little-fs/little_fs.h): what the image builder *)
(* writes (Mkfs) and the runtime mounts (LittleFs).                        *)
(***************************************************************************)
EXTENDS Integers, FiniteSets

CONSTANTS
  Names,              \* file names
  NDIRECT,            \* block addresses in an inode
  BSIZE,              \* bytes in a block
  MAXFILES,           \* inodes in the inode table
  INODE_BITS,         \* bits in the inode bitmap: more than there are inodes
  INUM_RANGE,         \* values of a dirent's inum, 256 for a uint8_t
  DIRENTS_PER_BLOCK,  \* dirents that lie whole in a block
  DATA_BLOCKS         \* data blocks on the device

ROOTINO   == 2
TYPE_FREE == 0    \* the type of an inode that was never stored
TYPE_DIR  == 1
TYPE_FILE == 2
FreeName  == ""   \* the name in a dirent whose strlen is 0

Direct == 0 .. NDIRECT - 1

dataStartAddr == 8 * BSIZE
DataAddr(b)   == dataStartAddr + b * BSIZE
Addresses     == {DataAddr(b) : b \in 0 .. DATA_BLOCKS - 1}
NoBlocks      == [i \in Direct |-> 0]

Inode     == [type : {TYPE_FREE, TYPE_DIR, TYPE_FILE},
              addr : [Direct -> Addresses \cup {0}]]
ZeroInode == [type |-> TYPE_FREE, addr |-> NoBlocks]

Dirent    == [name : Names \cup {FreeName}, inum : 0 .. INUM_RANGE - 1]
Entries   == Direct \X (0 .. DIRENTS_PER_BLOCK - 1)

\* The addresses an inode holds.
BlocksOf(ino) == {ino.addr[i] : i \in Direct} \ {0}

-----------------------------------------------------------------------------
(* What an image must satisfy, and what the calls must keep true of it.    *)

\* Every block an inode on the device refers to is marked used.
MarkedIn(dinodes, dmap) ==
  \A n \in DOMAIN dinodes : \A b \in 0 .. DATA_BLOCKS - 1 :
    DataAddr(b) \in BlocksOf(dinodes[n]) => b \in dmap

\* No two inodes on the device refer to the same block.
DisjointIn(dinodes) ==
  \A n, k \in DOMAIN dinodes :
    n # k => BlocksOf(dinodes[n]) \cap BlocksOf(dinodes[k]) = {}

\* The entries in use name allocated inodes, no inode twice, never the root.
LinkedIn(entries, imap) ==
  \A e \in Entries : entries[e].name # FreeName =>
    /\ entries[e].inum \in imap \ {ROOTINO}
    /\ \A f \in Entries :
         f # e /\ entries[f].name # FreeName => entries[f].inum # entries[e].inum

WellFormed(img) ==
  /\ img.ibmap \subseteq 0 .. INODE_BITS - 1
  /\ ROOTINO \in img.ibmap
  /\ img.dbmap \subseteq 0 .. DATA_BLOCKS - 1
  /\ img.dinode \in [0 .. MAXFILES - 1 -> Inode]
  /\ img.dir \in [Entries -> Dirent]
  /\ img.dinode[ROOTINO].type = TYPE_DIR
  /\ 0 \notin {img.dinode[ROOTINO].addr[i] : i \in Direct}
  /\ MarkedIn(img.dinode, img.dbmap)
  /\ DisjointIn(img.dinode)
  /\ LinkedIn(img.dir, img.ibmap)

ASSUME DeviceAssumption ==
  /\ {NDIRECT, BSIZE, INODE_BITS, INUM_RANGE, DIRENTS_PER_BLOCK, DATA_BLOCKS} \subseteq Nat \ {0}
  /\ MAXFILES \in Nat /\ MAXFILES > ROOTINO
  /\ FreeName \notin Names
=============================================================================
