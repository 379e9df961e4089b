------------------------------ MODULE LittleFs ------------------------------
(***************************************************************************)
(* The little-fs runtime (little-fs/main.c): the calls fs_open and         *)
(* fs_close, the pool of in-memory blocks, the pool of in-memory inodes,   *)
(* the descriptor table, and the directory, bitmaps and inode table of the *)
(* device they change.  fs_read and fs_write are in LittleFsData.          *)
(*                                                                         *)
(* The process is single threaded, but it can be killed between any two    *)
(* writes to the device and started again on what it left there, so a call *)
(* that writes the device more than once takes one step per write.         *)
(*                                                                         *)
(* Abstractions.  The bytes of a block in the pool are not kept: every     *)
(* function loads a block, changes it and writes it back before another    *)
(* reads it.  An inode is its type and its block addresses, and is read    *)
(* whole even where it crosses two blocks.  A call that writes past the    *)
(* block it was given stops the model ("overrun").                         *)
(***************************************************************************)
EXTENDS LittleFsDevice, Sequences

CONSTANTS
  INMEM_BLOCKS_NUM,   \* slots in the pool of in-memory blocks
  INMEM_INODES_NUM,   \* slots in the pool of in-memory inodes
  MAX_FILES_OPENED,   \* entries of the descriptor table
  INODES_PER_BLOCK,   \* inodes that lie whole in a block
  Images,             \* device images the image builder can have written
  Paths,              \* the paths clients open
  Flags,              \* sets of flags that clients open with, without FS_O_CREATE
  KillPoints,         \* values of pc at which the process may end
  CloseOrder          \* "lifo": clients close the last descriptor they opened
                      \* "any":  clients close them in any order

NULL == -1   \* a null pointer, and the bitmap scan's "none"

\* A path is "/name" when rooted and "name" when not; with the free name these
\* are "/" and "".
Path == [rooted : BOOLEAN, name : Names \cup {FreeName}]

ASSUME SizesAssumption ==
  /\ {INMEM_BLOCKS_NUM, INMEM_INODES_NUM, MAX_FILES_OPENED, INODES_PER_BLOCK} \subseteq Nat \ {0}
  /\ Paths \subseteq Path
  /\ Flags \subseteq SUBSET {"FS_O_WRONLY", "FS_O_RDWR", "FS_O_TRUNC"}
  /\ KillPoints \subseteq {"ready", "link", "store", "dead"}
  /\ CloseOrder \in {"lifo", "any"}

\* The data bitmap has more bits than the device has data blocks.
ASSUME BitmapAssumption == dataStartAddr - 8 >= DATA_BLOCKS

ASSUME ImagesAssumption == \A img \in Images : WellFormed(img)

-----------------------------------------------------------------------------
VARIABLES
  ibmap,     \* device: the bits set in the inode bitmap
  dbmap,     \* device: the bits set in the data bitmap
  dinode,    \* device: the inode table
  dir,       \* device: the root directory, by direct block and place in it
  mem,       \* memory: BUSY block slots, BUSY inode slots, the slots' inodes
  files,     \* memory: opened_files
  opened_files_cnt,
  pc,        \* "ready", or where the call in progress or the process stopped
  call,      \* the call in progress
  opens      \* the descriptors clients hold, in the order they got them

device == <<ibmap, dbmap, dinode, dir>>
table  == <<files, opened_files_cnt, opens>>
vars   == <<device, mem, table, pc, call>>

Fds        == 0 .. MAX_FILES_OPENED - 1
BlockSlots == 0 .. INMEM_BLOCKS_NUM - 1
InodeSlots == 0 .. INMEM_INODES_NUM - 1
Memory     == [bufs  : SUBSET BlockSlots,
               slots : SUBSET InodeSlots,
               inode : [InodeSlots -> Inode]]


\* The zero file is what memset leaves.
ZeroFile == [type |-> "FD_NONE", ip |-> NULL, readable |-> FALSE, writable |-> FALSE]
File     == [type : {"FD_NONE", "FD_INODE"}, ip : InodeSlots \cup {NULL},
             readable : BOOLEAN, writable : BOOLEAN]

NoCall == [path |-> [rooted |-> TRUE, name |-> FreeName], flags |-> {},
           inum |-> NULL, parent |-> NULL, child |-> NULL]

FreshMemory == [bufs |-> {}, slots |-> {}, inode |-> [s \in InodeSlots |-> ZeroInode]]

-----------------------------------------------------------------------------
(* The two pools.                                                          *)

\* The scan of both pools and of the bitmaps: the first of n that is not taken.
FirstUnused(taken, n) ==
  IF 0 .. n - 1 \subseteq taken THEN NULL
  ELSE CHOOSE i \in 0 .. n - 1 : i \notin taken /\ \A j \in 0 .. i - 1 : j \in taken

\* inmem_read_block, on the set of BUSY slots: the slot it returns, or NULL,
\* and the slots that are then BUSY.
BlockFor(bufs)         == FirstUnused(bufs, INMEM_BLOCKS_NUM)
inmem_read_block(bufs) == bufs \cup ({BlockFor(bufs)} \ {NULL})

\* inmem_block_free releases the first slot, whichever one it is given.
inmem_block_free(bufs) == bufs \ {0}

\* Mutant: a return that forgets the block.
ForgetBlock(bufs) == inmem_read_block(bufs)

\* A block read, used and freed by one function.
UseBlock(bufs) == inmem_block_free(inmem_read_block(bufs))

\* inmem_lock_inode: the slot it returns, or NULL, and the slots then BUSY.
InodeFor(slots)         == FirstUnused(slots, INMEM_INODES_NUM)

\* Mutant: the slot is handed out and left UNUSED.
PeekInode(slots) == slots

inmem_lock_inode(slots) == slots \cup ({InodeFor(slots)} \ {NULL})

\* Mutant: the slot is really given back.
ReleaseInode(slots, ip) == slots \ {ip}

\* inmem_free_inode sets the slot BUSY; a pointer to no slot matches none.
inmem_free_inode(slots, ip) == slots \cup ({ip} \ {NULL})

-----------------------------------------------------------------------------
(* The functions on the device.  Each returns the memory m it leaves, its  *)
(* result, and whether it went through a null pointer.                     *)

Outcome(m, ip, fault) == [mem |-> m, ip |-> ip, fault |-> fault]

\* The slot is locked before anything is checked, and not tested for NULL.
fs_get_inode_by_inum(m, inum) ==
  LET ip0    == InodeFor(m.slots)
      locked == [m EXCEPT !.slots = inmem_lock_inode(@)]
  IN  IF inum >= MAXFILES \/ BlockFor(m.bufs) = NULL
        THEN Outcome(locked, NULL, FALSE)
      ELSE IF ip0 = NULL
        THEN Outcome([locked EXCEPT !.bufs = inmem_read_block(@)], NULL, TRUE)
      ELSE Outcome([locked EXCEPT !.bufs = UseBlock(@), !.inode[ip0] = dinode[inum]],
                   ip0, FALSE)

\* The loop over a block's dirents ends after the first of them, and compares
\* the name of a dirent that is free too.
Hits(parent, name) ==
  {i \in Direct : parent.addr[i] # 0 /\ dir[<<i, 0>>].name = name}

\* The parent's blocks are read one at a time; the one with the name is still
\* held while the inode is fetched.
fs_find_inode_in_dir(m, parent, name) ==
  LET hits == Hits(m.inode[parent], name)
      held == [m EXCEPT !.bufs = inmem_read_block(@)]
  IN  IF parent = NULL
        THEN Outcome(m, NULL, TRUE)
      ELSE IF m.inode[parent].type # TYPE_DIR \/ BlockFor(m.bufs) = NULL
        THEN Outcome(m, NULL, FALSE)
      ELSE IF hits = {}
        THEN Outcome([m EXCEPT !.bufs = UseBlock(@)], NULL, FALSE)
      ELSE LET i   == CHOOSE i \in hits : \A j \in hits : i <= j
               got == fs_get_inode_by_inum(held, dir[<<i, 0>>].inum)
           IN  IF got.fault THEN got
               ELSE Outcome([got.mem EXCEPT !.bufs = inmem_block_free(@)], got.ip, FALSE)

\* Where a path starts: the root, loaded afresh, or current_dir, never set.
ParentOf(m, path) ==
  IF path.rooted THEN fs_get_inode_by_inum(m, ROOTINO) ELSE Outcome(m, NULL, FALSE)

\* The "" path, which fs_get_inode and fs_create_inode turn away at once.
IsEmpty(path) == ~path.rooted /\ path.name = FreeName

fs_get_inode(m, path) ==
  LET parent == ParentOf(m, path)
      child  == fs_find_inode_in_dir(parent.mem, parent.ip, path.name)
  IN  IF IsEmpty(path) THEN Outcome(m, NULL, FALSE)
      ELSE IF parent.fault THEN parent
      ELSE IF child.fault THEN child
      ELSE Outcome([child.mem EXCEPT !.slots = inmem_free_inode(@, parent.ip)],
                   child.ip, FALSE)

\* Mutant: the macro with its argument in parentheses.
FreedBlock(addr) == (addr - dataStartAddr) \div BSIZE

\* BLOCK_NUM(dev_block_addr - dataStartAddr) with the macros expanded: only
\* dataStartAddr is divided by the block size.
FreedBit(addr) == addr - (dataStartAddr \div BSIZE)

\* fs_block_free: a bit past the bitmap's block is cleared in a block slot that
\* nothing reads again.
fs_block_free(bufs, bitmap, addr) ==
  IF BlockFor(bufs) = NULL THEN bitmap ELSE bitmap \ {FreedBit(addr)}

\* fs_trunc_inode: the bitmap it leaves, and the memory; the device's inode is
\* not written.
TruncatedMap(m, ip) ==
  {b \in dbmap : \A a \in BlocksOf(m.inode[ip]) : b \in fs_block_free(m.bufs, dbmap, a)}
TruncatedMem(m, ip) ==
  [m EXCEPT !.inode[ip].addr = NoBlocks,
            !.bufs = IF BlocksOf(m.inode[ip]) = {} THEN @ ELSE UseBlock(@)]

-----------------------------------------------------------------------------
(* Calls.                                                                  *)

\* Mutant: the count of open files is read and not incremented.
TakeSameDescriptor(ip, flags) ==
  /\ files' = [files EXCEPT ![opened_files_cnt] =
       [type |-> "FD_INODE", ip |-> ip, readable |-> TRUE, writable |-> flags # {}]]
  /\ opens' = Append(opens, opened_files_cnt)
  /\ UNCHANGED opened_files_cnt

\* The end of fs_open: the next entry is the number of files open.
TakeDescriptor(ip, flags) ==
  /\ files' = [files EXCEPT ![opened_files_cnt] =
       [type     |-> "FD_INODE",
        ip       |-> ip,
        readable |-> "FS_O_WRONLY" \notin flags,
        writable |-> {"FS_O_WRONLY", "FS_O_RDWR"} \cap flags # {}]]
  /\ opens' = Append(opens, opened_files_cnt)
  /\ opened_files_cnt' = opened_files_cnt + 1

CanOpen == pc = "ready" /\ opened_files_cnt # MAX_FILES_OPENED

\* The process dies on a null pointer; the call stays, for the record.
Die(m, path, flags) ==
  /\ mem' = m
  /\ pc' = "dead"
  /\ call' = [NoCall EXCEPT !.path = path, !.flags = flags]
  /\ UNCHANGED table

\* The lookup found an inode, and not a directory unless it is only to be read.
Granted(got, flags) ==
  got.ip # NULL /\ (got.mem.inode[got.ip].type = TYPE_DIR => flags = {})

\* fs_open without FS_O_CREATE.
Open(path, flags) ==
  LET got == fs_get_inode(mem, path)
  IN  /\ CanOpen
      /\ UNCHANGED <<ibmap, dinode, dir>>
      /\ \/ /\ got.fault
            /\ Die(got.mem, path, flags)
            /\ UNCHANGED dbmap
         \/ /\ ~got.fault
            /\ ~Granted(got, flags)
            /\ mem' = got.mem
            /\ UNCHANGED <<dbmap, table, pc, call>>
         \/ /\ ~got.fault
            /\ Granted(got, flags)
            /\ IF "FS_O_TRUNC" \in flags
                 THEN /\ mem'   = TruncatedMem(got.mem, got.ip)
                      /\ dbmap' = TruncatedMap(got.mem, got.ip)
                 ELSE mem' = got.mem /\ UNCHANGED dbmap
            /\ TakeDescriptor(got.ip, flags)
            /\ UNCHANGED <<pc, call>>

\* Mutant: the bitmap's block is freed without being written back.
MarkInMemory(imap, inum) == imap

\* fs_inode_alloc and fs_inode_free, on the bitmap of the device.
MarkInode(imap, inum) == imap \cup {inum}

\* Mutant: the bit is given back only in memory.
KeepInode(imap, inum) == imap

FreeInode(imap, inum) == imap \ {inum}

\* fs_open with FS_O_CREATE, up to the bit set by fs_inode_alloc.  Without a
\* block to read the bitmap into, fs_inode_alloc answers 0, an inode number.
CreateAlloc(path, flags) ==
  LET parent == ParentOf(mem, path)
      m      == parent.mem
      bit    == FirstUnused(ibmap, INODE_BITS)
      begin(inum) ==
        /\ pc' = "link"
        /\ call' = [path |-> path, flags |-> flags, inum |-> inum,
                    parent |-> parent.ip, child |-> NULL]
  IN  /\ CanOpen /\ ~IsEmpty(path)
      /\ UNCHANGED <<dbmap, dinode, dir, table>>
      /\ \/ /\ parent.fault
            /\ Die(m, path, flags)
            /\ UNCHANGED ibmap
         \/ /\ ~parent.fault /\ BlockFor(m.bufs) = NULL
            /\ mem' = m
            /\ begin(0)
            /\ UNCHANGED ibmap
         \/ /\ ~parent.fault /\ BlockFor(m.bufs) # NULL
            /\ mem' = [m EXCEPT !.bufs = UseBlock(@)]
            /\ IF bit = NULL
                 THEN UNCHANGED <<ibmap, pc, call>>
                 ELSE ibmap' = MarkInode(ibmap, bit) /\ begin(bit)

\* fs_create_inode gives up: fs_inode_free, the inodes "freed", no descriptor.
AbandonCreate(m) ==
  LET full == BlockFor(m.bufs) = NULL
  IN  /\ ibmap' = IF full THEN ibmap ELSE FreeInode(ibmap, call.inum)
      /\ mem' = [m EXCEPT !.bufs  = IF full THEN @ ELSE UseBlock(@),
                          !.slots = inmem_free_inode(@, call.parent)]
      /\ pc' = "ready"
      /\ call' = NoCall
      /\ UNCHANGED <<dinode, dir, table>>

\* The places fs_add_inode_in_dir takes: the first whole dirent of a block that
\* is free, block by block.  The dirent cut by the end of the block is looked
\* at too: its strlen is the state of the next slot of the pool.
FreeIn(i)      == {j \in 0 .. DIRENTS_PER_BLOCK - 1 : dir[<<i, j>>].name = FreeName}
CutIsFree(m)   == BlockFor(m.bufs) + 1 \notin m.bufs
Usable(m, par) == {i \in Direct : par.addr[i] # 0 /\ (FreeIn(i) # {} \/ CutIsFree(m))}

\* inmem_lock_inode for the child, whose addresses are left as they were, and
\* the dirent written, or the failure of one of them.
CreateLink ==
  LET child  == InodeFor(mem.slots)
      locked == [mem EXCEPT !.slots = inmem_lock_inode(@), !.inode[child].type = TYPE_FILE]
      parent == mem.inode[call.parent]
      usable == Usable(mem, parent)
      i      == CHOOSE i \in usable : \A k \in usable : i <= k
      j      == CHOOSE j \in FreeIn(i) : \A k \in FreeIn(i) : j <= k
  IN  /\ pc = "link"
      /\ UNCHANGED dbmap
      /\ \/ /\ child = NULL
            /\ AbandonCreate(mem)
         \/ /\ child # NULL /\ call.parent = NULL
            /\ Die(locked, call.path, call.flags)
            /\ UNCHANGED <<ibmap, dinode, dir>>
         \/ /\ child # NULL /\ call.parent # NULL
            /\ parent.type # TYPE_DIR \/ BlockFor(mem.bufs) = NULL
            /\ AbandonCreate(locked)
         \/ /\ child # NULL /\ call.parent # NULL
            /\ parent.type = TYPE_DIR /\ BlockFor(mem.bufs) # NULL /\ usable = {}
            /\ AbandonCreate([locked EXCEPT !.bufs = UseBlock(@)])
         \/ /\ child # NULL /\ call.parent # NULL
            /\ parent.type = TYPE_DIR /\ BlockFor(mem.bufs) # NULL /\ usable # {}
            /\ mem' = [locked EXCEPT !.bufs = UseBlock(@)]
            /\ call' = [call EXCEPT !.child = child]
            /\ IF FreeIn(i) # {}
                 THEN /\ pc' = "store"
                      /\ dir' = [dir EXCEPT ![<<i, j>>] =
                           [name |-> call.path.name, inum |-> call.inum % INUM_RANGE]]
                 ELSE pc' = "overrun" /\ UNCHANGED dir
            /\ UNCHANGED <<ibmap, dinode, table>>

\* Mutant: the number 0 is taken for none.
StoresNonZero(inum) == inum \in 1 .. MAXFILES - 1 /\ BlockFor(mem.bufs) # NULL

\* fs_store_inode_by_inum goes ahead; its failure is not looked at.
Stores(inum) == inum < MAXFILES /\ BlockFor(mem.bufs) # NULL

\* The inode is copied to inode_off(inum), which is not taken modulo the block.
CreateStoreOverrun ==
  /\ pc = "store" /\ Stores(call.inum) /\ call.inum >= INODES_PER_BLOCK
  /\ pc' = "overrun"
  /\ UNCHANGED <<device, mem, table, call>>

\* fs_store_inode_by_inum, and the end of fs_create_inode and fs_open.
CreateStore ==
  LET stored == Stores(call.inum)
  IN  /\ pc = "store" /\ (stored => call.inum < INODES_PER_BLOCK)
      /\ dinode' = IF stored THEN [dinode EXCEPT ![call.inum] = mem.inode[call.child]]
                   ELSE dinode
      /\ mem' = [mem EXCEPT !.bufs  = IF stored THEN UseBlock(@) ELSE @,
                            !.slots = inmem_free_inode(@, call.parent)]
      /\ TakeDescriptor(call.child, call.flags)
      /\ pc' = "ready"
      /\ call' = NoCall
      /\ UNCHANGED <<ibmap, dbmap, dir>>

\* The opens a client may close now.
Closable == IF CloseOrder = "lifo" THEN {Len(opens)} \ {0} ELSE 1 .. Len(opens)

\* Mutant: the entry is not zeroed.
Kept(f) == f

\* What the memset of fs_close makes of an entry.
Cleared(f) == ZeroFile

fs_close(k) ==
  LET fd == opens[k]
  IN  /\ pc = "ready"
      /\ mem' = [mem EXCEPT !.slots = inmem_free_inode(@, files[fd].ip)]
      /\ files' = [files EXCEPT ![fd] = Cleared(@)]
      /\ opened_files_cnt' = opened_files_cnt - 1
      /\ opens' = [n \in 1 .. Len(opens) - 1 |-> IF n < k THEN opens[n] ELSE opens[n + 1]]
      /\ UNCHANGED <<device, pc, call>>

\* The process ends or is killed, and another one mounts what is on the device.
Restart ==
  /\ pc \in KillPoints
  /\ mem' = FreshMemory
  /\ files' = [fd \in Fds |-> ZeroFile]
  /\ opened_files_cnt' = 0
  /\ opens' = <<>>
  /\ pc' = "ready"
  /\ call' = NoCall
  /\ UNCHANGED device

Init ==
  /\ \E img \in Images :
       ibmap = img.ibmap /\ dbmap = img.dbmap /\ dinode = img.dinode /\ dir = img.dir
  /\ mem = FreshMemory
  /\ files = [fd \in Fds |-> ZeroFile]
  /\ opened_files_cnt = 0
  /\ opens = <<>>
  /\ pc = "ready"
  /\ call = NoCall

Next ==
  \/ \E path \in Paths, flags \in Flags : Open(path, flags) \/ CreateAlloc(path, flags)
  \/ CreateLink
  \/ CreateStore
  \/ CreateStoreOverrun
  \/ \E k \in Closable : fs_close(k)
  \/ Restart

Spec == Init /\ [][Next]_vars

-----------------------------------------------------------------------------
(* Properties.                                                             *)

\* The process has neither died nor written outside a block.
Running == pc \in {"ready", "link", "store"}

\* The entries of the table in use.
Live == {fd \in Fds : files[fd].type = "FD_INODE"}

\* The descriptors that clients hold.
Held == {opens[k] : k \in 1 .. Len(opens)}

\* Every variable has its type; the table never counts more files than it has
\* entries, and counts the descriptors that clients hold (main.c:639, 662, 684).
TypeOK ==
  /\ ibmap \subseteq 0 .. INODE_BITS - 1
  /\ dbmap \subseteq 0 .. DATA_BLOCKS - 1
  /\ dinode \in [0 .. MAXFILES - 1 -> Inode]
  /\ dir \in [Entries -> Dirent]
  /\ mem \in Memory
  /\ files \in [Fds -> File]
  /\ opened_files_cnt \in 0 .. MAX_FILES_OPENED
  /\ pc \in {"ready", "link", "store", "dead", "overrun"}
  /\ call \in [path : Path, flags : Flags \cup {{}}, inum : 0 .. INODE_BITS - 1 \cup {NULL},
               parent : InodeSlots \cup {NULL},
               child  : InodeSlots \cup {NULL}]
  /\ opens \in Seq(Fds)
  /\ Len(opens) = opened_files_cnt

\* A block that an inode on the device refers to is marked used in the bitmap:
\* neither fs_trunc_inode, which frees blocks and does not store the inode
\* (main.c:621-631), nor a crash inside a creation leaves one unmarked.
BlocksMarked == MarkedIn(dinode, dbmap)

\* No two inodes on the device share a block, although fs_create_inode stores
\* the addresses it finds in the in-memory inode it locks (main.c:583-609).
NoSharedBlocks == DisjointIn(dinode)

\* As long as every inode number in use fits a dirent's inum, an entry in use
\* names an allocated inode, no two name the same one and none the root: at
\* every point where the process can be killed (main.c:578-609).
DirectoryConsistent == ibmap \subseteq 0 .. INUM_RANGE - 1 => LinkedIn(dir, ibmap)

\* The first slot of the block pool is free whenever a call starts to read a
\* block, though every successful lookup leaks another slot: inmem_block_free
\* (main.c:245-253) releases the first slot, whichever one it is given.
BufferZeroFree == Running => 0 \notin mem.bufs

\* The leak is paid for: a lookup leaks a slot of the block pool only with two
\* of the inode pool, so that with pools of one size the inodes run out first
\* and a block read never fails (main.c:231, 257, 470-474).
BufferLeakBound == Running => 2 * Cardinality(mem.bufs) <= Cardinality(mem.slots)

\* The pool of blocks outlasts that of inodes, although slots of both leak: the
\* slot the next read takes is free, and the leak is paid for (main.c:230-270).
BufferPoolLasts == BufferZeroFree /\ BufferLeakBound

\* A null pointer is only ever followed for a path that does not start at the
\* root, or when the inode pool is exhausted (main.c:412, 448, 489).
NullDerefCause ==
  pc = "dead" => \/ ~call.path.rooted
                 \/ mem.slots = InodeSlots

\* The in-memory inodes of the open files and of the creation in progress are
\* all locked, and no two of them are one (main.c:255-270, 666).
LiveInodesLocked ==
  LET own == {call.parent, call.child} \ {NULL}
  IN  /\ {files[fd].ip : fd \in Live} \cup own \subseteq mem.slots
      /\ \A f, g \in Live : files[f].ip = files[g].ip => f = g
      /\ pc = "store" => call.parent # call.child
      /\ own \cap {files[fd].ip : fd \in Live} = {}

\* When clients close in the reverse order, no two of them hold the same
\* descriptor, and the entries in use are those of the descriptors held
\* (main.c:662 hands out the number of files open, 682-684).
NoSharedDescriptor ==
  /\ \A j, k \in 1 .. Len(opens) : opens[j] = opens[k] => j = k
  /\ Held = {fd \in Fds : files[fd] # ZeroFile}

\* The descriptors held, and the inodes their entries point to, are a table of
\* descriptors as DescriptorTable promises it, when clients close in the reverse
\* order: no call disturbs a descriptor it was not given (main.c:633-687).
Table == INSTANCE DescriptorTable WITH
  Descriptors <- Fds,
  InmemInodes <- InodeSlots,
  bound       <- [fd \in Held |-> files[fd].ip]
KeepsDescriptors == Table!TableSpec

\* A descriptor that nobody holds can be neither read nor written: the test at
\* main.c:131-135.
ClosedIsUnreadable ==
  \A fd \in Fds \ Held : ~files[fd].readable /\ ~files[fd].writable

\* In processes that are never killed inside a call and create no file without
\* a name, every bit of the inode bitmap is the root's, an entry's, or
\* that of the creation in progress: a creation that fails gives its bit back (main.c:585-590, 601-606).
NoLeakedInode ==
  Running /\ ibmap \subseteq 0 .. INUM_RANGE - 1 =>
    ibmap \subseteq {ROOTINO, call.inum}
      \cup {dir[e].inum : e \in {f \in Entries : dir[f].name # FreeName}}

\* In such processes, and between calls, an entry whose number the table has
\* names a file's inode: the entry is written first and the inode is stored
\* after it, in a block that can always be read (main.c:600-609).
EntriesResolve ==
  pc = "ready" /\ ibmap \subseteq 0 .. INUM_RANGE - 1 =>
    \A e \in Entries :
      dir[e].name # FreeName /\ dir[e].inum < MAXFILES =>
        dinode[dir[e].inum].type = TYPE_FILE

-----------------------------------------------------------------------------
(* The inductive invariant of the proofs in LittleFsProofs.                *)

\* An inode slot that was never locked since the mount has no addresses.
CleanIn(m) == \A s \in InodeSlots \ m.slots : m.inode[s].addr = NoBlocks

\* The call in progress: it has room for a descriptor and an inode number, and
\* the inode it is about to store has no addresses.
CallInv ==
  /\ pc = "ready" => call = NoCall
  /\ pc \in {"link", "store"} => opened_files_cnt # MAX_FILES_OPENED /\ call.inum # NULL
  /\ pc = "link" /\ call.path.rooted => call.parent # NULL
  /\ pc = "store" => call.child # NULL /\ mem.inode[call.child].addr = NoBlocks

\* The directory agrees with the bits other than that of an inode not yet linked.
Settled == IF pc = "link" THEN ibmap \ {call.inum} ELSE ibmap

DirectoryInv ==
  /\ ROOTINO \in Settled
  /\ pc = "link" => call.inum \in ibmap
  /\ Settled \subseteq 0 .. INUM_RANGE - 1 => LinkedIn(dir, Settled)

InductiveInv ==
  /\ TypeOK
  /\ BufferZeroFree
  /\ CleanIn(mem)
  /\ CallInv
  /\ BlocksMarked
  /\ NoSharedBlocks
  /\ NullDerefCause
  /\ DirectoryInv

\* With clients that close the last descriptor they opened, the descriptors held
\* are 0, 1, ... in order, and the entries past them are zero.
LifoInv ==
  /\ \A k \in 1 .. opened_files_cnt : opens[k] = k - 1
  /\ Live = {fd \in Fds : fd < opened_files_cnt}
  /\ \A fd \in Fds \ Live : files[fd] = ZeroFile

-----------------------------------------------------------------------------
(* What comments and tests of the program say and the code does not do.    *)

\* "Since ip_parent won't be used anymore, we need to free inmem inode that was
\* locked by fs_get_inode_by_inum" (main.c:553-557): between calls only the
\* inodes of open files are locked.
ParentReleased ==
  pc = "ready" => mem.slots \subseteq {files[fd].ip : fd \in Fds}

\* The test at main.c:103-107 fails when an existing file cannot be opened:
\* every name in the directory is found by the lookup.
LookupFindsEntry ==
  \A e \in Entries :
    dir[e].name # FreeName => Hits(dinode[ROOTINO], dir[e].name) # {}
=============================================================================
