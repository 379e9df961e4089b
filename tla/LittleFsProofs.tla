--------------------------- MODULE LittleFsProofs ---------------------------
(***************************************************************************)
(* Proofs about LittleFs, for every value of its constants.  The invariant *)
(* proved inductive is InductiveInv; the lemmas follow the functions of    *)
(* LittleFs from the pools up to the calls.                                *)
(***************************************************************************)
EXTENDS LittleFs, FiniteSetTheorems, TLAPS

(***************************************************************************)
(* The scan for a free slot.                                               *)
(***************************************************************************)

\* A set of naturals that is not empty has a least element.
LEMMA LeastElement ==
  ASSUME NEW S, S \subseteq Nat, S # {}
  PROVE  \E m \in S : \A k \in S : m <= k
<1> DEFINE Below == {0 .. m : m \in S}
<1>1. IsWellFoundedOn(StrictSubsetOrdering(Nat), FiniteSubsetsOf(Nat))
  BY FS_StrictSubsetOrderingWellFounded
<1>2. Below \subseteq FiniteSubsetsOf(Nat) /\ Below # {}
  <2>1. \A m \in S : 0 .. m \in FiniteSubsetsOf(Nat)
    <3>1. TAKE m \in S
    <3>2. IsFiniteSet(0 .. m) /\ 0 .. m \subseteq Nat
      BY FS_Interval
    <3>3. QED
      BY <3>2 DEF FiniteSubsetsOf
  <2>2. QED
    BY <2>1
<1>3. PICK b \in Below : \A c \in Below : <<c, b>> \notin StrictSubsetOrdering(Nat)
  BY <1>1, <1>2, WFMin
<1>4. PICK m \in S : b = 0 .. m
  BY DEF Below
<1>5. ASSUME NEW k \in S, k < m
      PROVE  FALSE
  <2>1. 0 .. k \subseteq 0 .. m /\ 0 .. k # 0 .. m
    BY <1>5
  <2>2. <<0 .. k, b>> \in StrictSubsetOrdering(Nat)
    BY <2>1, <1>4 DEF StrictSubsetOrdering
  <2>3. QED
    BY <1>3, <2>2
<1>6. QED
  BY <1>5

\* The scan of a pool or a bitmap finds a place that is not taken, or all are.
LEMMA FirstUnusedIs ==
  ASSUME NEW taken, NEW n \in Nat
  PROVE  \/ FirstUnused(taken, n) = NULL /\ 0 .. n - 1 \subseteq taken
         \/ FirstUnused(taken, n) \in (0 .. n - 1) \ taken
<1>1. CASE 0 .. n - 1 \subseteq taken
  BY <1>1 DEF FirstUnused
<1>2. CASE ~(0 .. n - 1 \subseteq taken)
  <2> DEFINE Free == {i \in 0 .. n - 1 : i \notin taken}
  <2>1. Free \subseteq Nat /\ Free # {}
    BY <1>2
  <2> HIDE DEF Free
  <2>2. PICK m \in Free : \A k \in Free : m <= k
    BY <2>1, LeastElement
  <2>3. m \in 0 .. n - 1 /\ m \notin taken /\ \A j \in 0 .. m - 1 : j \in taken
    BY <2>2 DEF Free
  <2>4. QED
    BY <1>2, <2>3 DEF FirstUnused
<1>3. QED
  BY <1>1, <1>2

LEMMA BlockForIs ==
  ASSUME NEW bufs \in SUBSET BlockSlots
  PROVE  /\ BlockFor(bufs) \in BlockSlots \cup {NULL}
         /\ 0 \notin bufs => BlockFor(bufs) # NULL
         /\ inmem_read_block(bufs) \in SUBSET BlockSlots
<1>1. INMEM_BLOCKS_NUM \in Nat \ {0}
  BY SizesAssumption, DeviceAssumption
<1>2. \/ BlockFor(bufs) = NULL /\ BlockSlots \subseteq bufs
      \/ BlockFor(bufs) \in BlockSlots \ bufs
  BY <1>1, FirstUnusedIs DEF BlockFor, BlockSlots
<1>3. 0 \in BlockSlots /\ NULL \notin BlockSlots
  BY <1>1 DEF BlockSlots, NULL
<1>4. QED
  BY <1>2, <1>3 DEF inmem_read_block

LEMMA UseBlockIs ==
  ASSUME NEW bufs \in SUBSET BlockSlots
  PROVE  UseBlock(bufs) \in SUBSET BlockSlots /\ 0 \notin UseBlock(bufs)
BY BlockForIs DEF UseBlock, inmem_block_free

LEMMA InodeForIs ==
  ASSUME NEW slots \in SUBSET InodeSlots
  PROVE  /\ inmem_lock_inode(slots) \in SUBSET InodeSlots
         /\ slots \subseteq inmem_lock_inode(slots)
         /\ \/ InodeFor(slots) = NULL /\ inmem_lock_inode(slots) = InodeSlots
            \/ InodeFor(slots) # NULL /\ InodeFor(slots) \in inmem_lock_inode(slots) \ slots
<1>1. INMEM_INODES_NUM \in Nat \ {0}
  BY SizesAssumption, DeviceAssumption
<1>2. \/ InodeFor(slots) = NULL /\ InodeSlots \subseteq slots
      \/ InodeFor(slots) \in InodeSlots \ slots
  BY <1>1, FirstUnusedIs DEF InodeFor, InodeSlots
<1>3. NULL \notin InodeSlots
  BY <1>1 DEF InodeSlots, NULL
<1>4. QED
  BY <1>2, <1>3 DEF inmem_lock_inode

(***************************************************************************)
(* The functions on the device.                                            *)
(***************************************************************************)

\* What every lookup leaves, from a memory m: more slots locked, those never
\* locked still clean, the first block slot free, an inode newly locked.
Contract(m, got) ==
  /\ got.mem \in Memory
  /\ CleanIn(got.mem)
  /\ m.slots \subseteq got.mem.slots
  /\ got.ip \in (got.mem.slots \ m.slots) \cup {NULL}
  /\ ~got.fault /\ 0 \notin m.bufs => 0 \notin got.mem.bufs

DeviceTyped == dinode \in [0 .. MAXFILES - 1 -> Inode] /\ dir \in [Entries -> Dirent]

LEMMA LockedSlots ==
  ASSUME NEW m \in Memory, CleanIn(m), NEW ino \in Inode, InodeFor(m.slots) # NULL
  PROVE  LET locked == [m EXCEPT !.slots = inmem_lock_inode(@),
                                 !.inode[InodeFor(m.slots)] = ino]
         IN  locked \in Memory /\ CleanIn(locked)
<1>1. m.slots \in SUBSET InodeSlots /\ m.inode \in [InodeSlots -> Inode]
  BY DEF Memory
<1>2. inmem_lock_inode(m.slots) \in SUBSET InodeSlots
  BY <1>1, InodeForIs
<1>3. InodeFor(m.slots) \in inmem_lock_inode(m.slots)
  BY <1>1, InodeForIs
<1>4. m.slots \subseteq inmem_lock_inode(m.slots)
  BY <1>1, InodeForIs
<1>5. QED
  BY <1>1, <1>2, <1>3, <1>4 DEF Memory, CleanIn

LEMMA GetByInum ==
  ASSUME NEW m \in Memory, CleanIn(m), DeviceTyped, NEW inum \in Nat
  PROVE  LET got == fs_get_inode_by_inum(m, inum)
         IN  /\ Contract(m, got)
             /\ got.fault => got.mem.slots = InodeSlots
             /\ inum < MAXFILES /\ 0 \notin m.bufs /\ ~got.fault => got.ip # NULL
<1> DEFINE got == fs_get_inode_by_inum(m, inum)
           ip0 == InodeFor(m.slots)
           locked == [m EXCEPT !.slots = inmem_lock_inode(@)]
<1>1. /\ m.slots \in SUBSET InodeSlots
      /\ m.bufs \in SUBSET BlockSlots
      /\ m.inode \in [InodeSlots -> Inode]
  BY DEF Memory
<1>2. /\ locked \in Memory /\ CleanIn(locked)
      /\ m.slots \subseteq locked.slots
      /\ locked.bufs = m.bufs
  BY <1>1, InodeForIs DEF Memory, CleanIn
<1>3. CASE inum >= MAXFILES \/ BlockFor(m.bufs) = NULL
  <2>1. got.mem = locked /\ got.ip = NULL /\ got.fault = FALSE
    BY <1>3 DEF fs_get_inode_by_inum, Outcome
  <2>2. 0 \notin m.bufs => BlockFor(m.bufs) # NULL
    BY <1>1, BlockForIs
  <2>3. MAXFILES \in Nat
    BY SizesAssumption, DeviceAssumption
  <2> HIDE DEF got, locked
  <2>4. Contract(m, got)
    BY <1>2, <2>1 DEF Contract
  <2>5. ~(inum < MAXFILES /\ 0 \notin m.bufs)
    BY <1>3, <2>2, <2>3
  <2>6. QED
    BY <2>1, <2>4, <2>5 DEF got
<1>4. CASE ~(inum >= MAXFILES \/ BlockFor(m.bufs) = NULL) /\ ip0 = NULL
  <2>1. /\ got.mem = [locked EXCEPT !.bufs = inmem_read_block(@)]
        /\ got.ip = NULL /\ got.fault = TRUE
    BY <1>4 DEF fs_get_inode_by_inum, Outcome
  <2>2. inmem_lock_inode(m.slots) = InodeSlots
    BY <1>1, <1>4, InodeForIs
  <2>3. inmem_read_block(m.bufs) \in SUBSET BlockSlots
    BY <1>1, BlockForIs
  <2>4. got.mem = [bufs |-> inmem_read_block(m.bufs), slots |-> InodeSlots, inode |-> m.inode]
    BY <2>1, <2>2 DEF Memory
  <2> HIDE DEF got, locked
  <2>5. Contract(m, got)
    BY <1>1, <2>1, <2>3, <2>4 DEF Contract, Memory, CleanIn
  <2>6. QED
    BY <2>1, <2>4, <2>5 DEF got
<1>5. CASE ~(inum >= MAXFILES \/ BlockFor(m.bufs) = NULL) /\ ip0 # NULL
  <2> DEFINE filled == [m EXCEPT !.slots = inmem_lock_inode(@), !.inode[ip0] = dinode[inum]]
  <2>1. /\ got.mem = [locked EXCEPT !.bufs = UseBlock(@), !.inode[ip0] = dinode[inum]]
        /\ got.ip = ip0 /\ got.fault = FALSE
    BY <1>5 DEF fs_get_inode_by_inum, Outcome
  <2>2. dinode[inum] \in Inode
    BY <1>5, SizesAssumption, DeviceAssumption DEF DeviceTyped
  <2>3. filled \in Memory /\ CleanIn(filled)
    BY <1>5, <2>2, LockedSlots
  <2>4. UseBlock(m.bufs) \in SUBSET BlockSlots /\ 0 \notin UseBlock(m.bufs)
    BY <1>1, UseBlockIs
  <2>5. /\ got.mem = [bufs |-> UseBlock(m.bufs), slots |-> filled.slots, inode |-> filled.inode]
        /\ filled.slots = inmem_lock_inode(m.slots)
    BY <2>1, <1>1 DEF Memory
  <2>6. ip0 \in inmem_lock_inode(m.slots) \ m.slots
    BY <1>1, <1>5, InodeForIs
  <2>7. m.slots \subseteq inmem_lock_inode(m.slots)
    BY <1>1, InodeForIs
  <2> HIDE DEF got, locked, ip0, filled
  <2>8. Contract(m, got)
    <3>1. got.mem \in Memory
      BY <2>3, <2>4, <2>5 DEF Memory
    <3>2. CleanIn(got.mem)
      BY <2>3, <2>5 DEF CleanIn
    <3>3. got.mem.slots = inmem_lock_inode(m.slots) /\ got.mem.bufs = UseBlock(m.bufs)
      BY <2>5
    <3>4. got.ip = ip0
      BY <2>1
    <3>5. QED
      BY <2>4, <2>6, <2>7, <3>1, <3>2, <3>3, <3>4 DEF Contract
  <2>9. got.ip # NULL
    BY <1>5, <2>1
  <2>10. QED
    BY <2>1, <2>8, <2>9 DEF got
<1>6. QED
  BY <1>3, <1>4, <1>5

\* A memory that a lookup left, with other block slots BUSY or more inode slots.
LEMMA Adjusted ==
  ASSUME NEW m \in Memory, CleanIn(m)
  PROVE  /\ \A bufs \in SUBSET BlockSlots :
              LET n == [m EXCEPT !.bufs = bufs]
              IN  n \in Memory /\ CleanIn(n) /\ n.slots = m.slots /\ n.bufs = bufs
                  /\ n.inode = m.inode
         /\ \A slots \in SUBSET InodeSlots : m.slots \subseteq slots =>
              LET n == [m EXCEPT !.slots = slots]
              IN  n \in Memory /\ CleanIn(n) /\ n.slots = slots /\ n.bufs = m.bufs
                  /\ n.inode = m.inode
BY DEF Memory, CleanIn

LEMMA FindInDir ==
  ASSUME NEW m \in Memory, CleanIn(m), DeviceTyped, 0 \notin m.bufs,
         NEW parent \in InodeSlots \cup {NULL}, NEW name
  PROVE  LET got == fs_find_inode_in_dir(m, parent, name)
         IN  /\ Contract(m, got)
             /\ got.fault => parent = NULL \/ got.mem.slots = InodeSlots
<1> DEFINE got  == fs_find_inode_in_dir(m, parent, name)
           hits == Hits(m.inode[parent], name)
           held == [m EXCEPT !.bufs = inmem_read_block(@)]
<1>1. m.bufs \in SUBSET BlockSlots /\ m.slots \in SUBSET InodeSlots
  BY DEF Memory
<1>2. CASE parent = NULL
  <2>1. got.mem = m /\ got.ip = NULL
    BY <1>2 DEF fs_find_inode_in_dir, Outcome
  <2>2. QED
    BY <1>2, <2>1 DEF Contract
<1>3. CASE parent # NULL /\ (m.inode[parent].type # TYPE_DIR \/ BlockFor(m.bufs) = NULL)
  <2>1. got.mem = m /\ got.ip = NULL /\ got.fault = FALSE
    BY <1>3 DEF fs_find_inode_in_dir, Outcome
  <2>2. QED
    BY <2>1 DEF Contract
<1>4. CASE /\ parent # NULL /\ m.inode[parent].type = TYPE_DIR /\ BlockFor(m.bufs) # NULL
           /\ hits = {}
  <2>1. /\ got.mem = [m EXCEPT !.bufs = UseBlock(m.bufs)]
        /\ got.ip = NULL /\ got.fault = FALSE
    BY <1>4 DEF fs_find_inode_in_dir, Outcome
  <2>2. UseBlock(m.bufs) \in SUBSET BlockSlots /\ 0 \notin UseBlock(m.bufs)
    BY <1>1, UseBlockIs
  <2>3. /\ got.mem \in Memory /\ CleanIn(got.mem)
        /\ got.mem.slots = m.slots /\ got.mem.bufs = UseBlock(m.bufs)
    BY <2>1, <2>2, Adjusted
  <2> HIDE DEF got
  <2>4. QED
    BY <2>1, <2>2, <2>3 DEF Contract, got
<1>5. CASE /\ parent # NULL /\ m.inode[parent].type = TYPE_DIR /\ BlockFor(m.bufs) # NULL
           /\ hits # {}
  <2> DEFINE i     == CHOOSE i \in hits : \A j \in hits : i <= j
             child == fs_get_inode_by_inum(held, dir[<<i, 0>>].inum)
  <2>1. got = IF child.fault THEN child
              ELSE Outcome([child.mem EXCEPT !.bufs = inmem_block_free(@)], child.ip, FALSE)
    BY <1>5 DEF fs_find_inode_in_dir
  <2>2. dir[<<i, 0>>].inum \in Nat
    <3>1. hits \subseteq Direct /\ Direct \subseteq Nat
      BY SizesAssumption, DeviceAssumption DEF Hits, Direct
    <3>2. i \in hits
      <4>1. hits \subseteq Nat
        BY <3>1
      <4> HIDE DEF hits
      <4>2. \E k \in hits : \A j \in hits : k <= j
        BY <1>5, <4>1, LeastElement
      <4>3. QED
        BY <4>2
    <3>3. <<i, 0>> \in Entries
      <4>1. i \in Direct
        BY <3>1, <3>2
      <4>2. 0 \in 0 .. DIRENTS_PER_BLOCK - 1
        BY SizesAssumption, DeviceAssumption
      <4> HIDE DEF i
      <4>3. QED
        BY <4>1, <4>2 DEF Entries
    <3>4. dir[<<i, 0>>] \in Dirent
      BY <3>3 DEF DeviceTyped
    <3> HIDE DEF i
    <3>5. QED
      BY <3>4, SizesAssumption, DeviceAssumption DEF Dirent
  <2>3. inmem_read_block(m.bufs) \in SUBSET BlockSlots
    BY <1>1, BlockForIs
  <2>4. held \in Memory /\ CleanIn(held) /\ held.slots = m.slots
    BY <2>3, Adjusted
  <2> HIDE DEF held, i
  <2>5. Contract(held, child) /\ (child.fault => child.mem.slots = InodeSlots)
    BY <2>2, <2>4, GetByInum
  <2> HIDE DEF child
  <2>6. CASE child.fault
    <3>1. got = child
      BY <2>1, <2>6
    <3>2. QED
      BY <2>4, <2>5, <2>6, <3>1 DEF Contract
  <2>7. CASE ~child.fault
    <3> DEFINE left == [child.mem EXCEPT !.bufs = inmem_block_free(@)]
    <3>1. got.mem = left /\ got.ip = child.ip /\ got.fault = FALSE
      BY <2>1, <2>7 DEF Outcome
    <3>2. child.mem \in Memory /\ CleanIn(child.mem)
      BY <2>5 DEF Contract
    <3>3. /\ inmem_block_free(child.mem.bufs) \in SUBSET BlockSlots
          /\ 0 \notin inmem_block_free(child.mem.bufs)
      BY <3>2 DEF Memory, inmem_block_free
    <3>4. /\ left \in Memory /\ CleanIn(left) /\ left.slots = child.mem.slots
          /\ left.bufs = inmem_block_free(child.mem.bufs)
      BY <3>2, <3>3, Adjusted
    <3> HIDE DEF left, got
    <3>5. QED
      BY <2>4, <2>5, <3>1, <3>3, <3>4 DEF Contract, got
  <2>8. QED
    BY <2>6, <2>7
<1>6. QED
  BY <1>2, <1>3, <1>4, <1>5

\* The root can be fetched, or there is no inode slot for it.
LEMMA ParentIs ==
  ASSUME NEW m \in Memory, CleanIn(m), DeviceTyped, 0 \notin m.bufs, NEW path \in Path
  PROVE  LET got == ParentOf(m, path)
         IN  /\ Contract(m, got)
             /\ got.fault => got.mem.slots = InodeSlots
             /\ got.ip = NULL => ~path.rooted \/ got.fault
<1> DEFINE got == ParentOf(m, path)
<1>1. CASE path.rooted
  <2>1. got = fs_get_inode_by_inum(m, ROOTINO)
    BY <1>1 DEF ParentOf
  <2>2. ROOTINO \in Nat /\ ROOTINO < MAXFILES
    BY SizesAssumption, DeviceAssumption DEF ROOTINO
  <2>3. QED
    BY <2>1, <2>2, GetByInum
<1>2. CASE ~path.rooted
  <2>1. got.mem = m /\ got.ip = NULL /\ got.fault = FALSE
    BY <1>2 DEF ParentOf, Outcome
  <2> HIDE DEF got
  <2>2. QED
    BY <1>2, <2>1 DEF Contract, got
<1>3. QED
  BY <1>1, <1>2

LEMMA GetInode ==
  ASSUME NEW m \in Memory, CleanIn(m), DeviceTyped, 0 \notin m.bufs, NEW path \in Path
  PROVE  LET got == fs_get_inode(m, path)
         IN  /\ Contract(m, got)
             /\ got.fault => ~path.rooted \/ got.mem.slots = InodeSlots
<1> DEFINE got    == fs_get_inode(m, path)
           parent == ParentOf(m, path)
           child  == fs_find_inode_in_dir(parent.mem, parent.ip, path.name)
<1>1. CASE IsEmpty(path)
  <2>1. got.mem = m /\ got.ip = NULL /\ got.fault = FALSE
    BY <1>1 DEF fs_get_inode, Outcome
  <2> HIDE DEF got
  <2>2. QED
    BY <2>1 DEF Contract, got
<1>2. CASE ~IsEmpty(path)
  <2>1. got = IF parent.fault THEN parent
              ELSE IF child.fault THEN child
              ELSE Outcome([child.mem EXCEPT !.slots = inmem_free_inode(@, parent.ip)],
                           child.ip, FALSE)
    BY <1>2 DEF fs_get_inode
  <2>2. /\ Contract(m, parent)
        /\ parent.fault => parent.mem.slots = InodeSlots
        /\ parent.ip = NULL => ~path.rooted \/ parent.fault
    BY ParentIs
  <2> HIDE DEF parent
  <2>3. CASE parent.fault
    BY <2>1, <2>2, <2>3
  <2>4. CASE ~parent.fault
    <3>1. /\ parent.mem \in Memory /\ CleanIn(parent.mem) /\ 0 \notin parent.mem.bufs
          /\ parent.ip \in parent.mem.slots \cup {NULL}
          /\ parent.mem.slots \in SUBSET InodeSlots
      BY <2>2, <2>4 DEF Contract, Memory
    <3>2. /\ Contract(parent.mem, child)
          /\ child.fault => parent.ip = NULL \/ child.mem.slots = InodeSlots
      BY <3>1, FindInDir
    <3> HIDE DEF child
    <3>3. m.slots \subseteq parent.mem.slots
      BY <2>2 DEF Contract
    <3>4. CASE child.fault
      <4>1. got = child
        BY <2>1, <2>4, <3>4
      <4>2. QED
        BY <2>2, <2>4, <3>2, <3>3, <3>4, <4>1 DEF Contract
    <3>5. CASE ~child.fault
      <4> DEFINE left == [child.mem EXCEPT !.slots = inmem_free_inode(@, parent.ip)]
      <4>1. got.mem = left /\ got.ip = child.ip /\ got.fault = FALSE
        BY <2>1, <2>4, <3>5 DEF Outcome
      <4>2. /\ child.mem \in Memory /\ CleanIn(child.mem) /\ 0 \notin child.mem.bufs
            /\ parent.mem.slots \subseteq child.mem.slots
            /\ child.ip \in (child.mem.slots \ parent.mem.slots) \cup {NULL}
        BY <3>1, <3>2, <3>5 DEF Contract
      <4>3. inmem_free_inode(child.mem.slots, parent.ip) = child.mem.slots
        BY <3>1, <4>2 DEF inmem_free_inode
      <4>4. /\ left \in Memory /\ CleanIn(left) /\ left.slots = child.mem.slots
            /\ left.bufs = child.mem.bufs
        <5>1. child.mem.slots \in SUBSET InodeSlots
          BY <4>2 DEF Memory
        <5>2. QED
          BY <4>2, <4>3, <5>1, Adjusted
      <4> HIDE DEF left, got
      <4>5. QED
        BY <3>3, <4>1, <4>2, <4>4 DEF Contract, got
    <3>6. QED
      BY <3>4, <3>5
  <2>5. QED
    BY <2>3, <2>4
<1>3. QED
  BY <1>1, <1>2

\* fs_block_free clears no bit of the bitmap.
LEMMA FreedBitIsOutside ==
  ASSUME NEW a \in Addresses
  PROVE  FreedBit(a) \in Nat /\ FreedBit(a) >= DATA_BLOCKS
<1>1. BSIZE \in Nat \ {0} /\ DATA_BLOCKS \in Nat
  BY SizesAssumption, DeviceAssumption
<1>2. (8 * BSIZE) \div BSIZE = 8
  BY <1>1
<1>3. PICK b \in 0 .. DATA_BLOCKS - 1 : a = 8 * BSIZE + b * BSIZE
  BY DEF Addresses, DataAddr, dataStartAddr
<1>4. b * BSIZE \in Nat
  BY <1>1
<1>5. QED
  BY <1>1, <1>2, <1>3, <1>4, BitmapAssumption DEF FreedBit, dataStartAddr

LEMMA TruncateKeepsMap ==
  ASSUME NEW m \in Memory, NEW ip \in InodeSlots, dbmap \subseteq 0 .. DATA_BLOCKS - 1
  PROVE  TruncatedMap(m, ip) = dbmap
<1>1. BlocksOf(m.inode[ip]) \subseteq Addresses
  <2>1. m.inode[ip] \in Inode
    BY DEF Memory
  <2>2. m.inode[ip].addr \in [Direct -> Addresses \cup {0}]
    BY <2>1 DEF Inode
  <2>3. QED
    BY <2>2 DEF BlocksOf
<1>2. DATA_BLOCKS \in Nat
  BY SizesAssumption, DeviceAssumption
<1>3. \A b \in dbmap, a \in Addresses : b # FreedBit(a)
  BY <1>2, FreedBitIsOutside
<1>4. QED
  BY <1>1, <1>3 DEF TruncatedMap, fs_block_free

LEMMA TruncateMemory ==
  ASSUME NEW m \in Memory, CleanIn(m), 0 \notin m.bufs, NEW ip \in InodeSlots
  PROVE  LET n == TruncatedMem(m, ip)
         IN  n \in Memory /\ CleanIn(n) /\ 0 \notin n.bufs /\ n.slots = m.slots
<1> DEFINE bufs == IF BlocksOf(m.inode[ip]) = {} THEN m.bufs ELSE UseBlock(m.bufs)
           ino  == [m.inode[ip] EXCEPT !.addr = NoBlocks]
<1>1. m.inode[ip] \in Inode /\ NoBlocks \in [Direct -> Addresses \cup {0}]
  BY DEF Memory, NoBlocks
<1>2. ino \in Inode /\ ino.addr = NoBlocks
  BY <1>1 DEF Inode
<1>3. bufs \in SUBSET BlockSlots /\ 0 \notin bufs
  <2>1. m.bufs \in SUBSET BlockSlots
    BY DEF Memory
  <2>2. UseBlock(m.bufs) \in SUBSET BlockSlots /\ 0 \notin UseBlock(m.bufs)
    BY <2>1, UseBlockIs
  <2> HIDE DEF ino
  <2>3. QED
    BY <2>1, <2>2
<1>4. m = [bufs |-> m.bufs, slots |-> m.slots, inode |-> m.inode]
  BY DEF Memory
<1>5. TruncatedMem(m, ip) = [m EXCEPT !.inode = [@ EXCEPT ![ip] = ino], !.bufs = bufs]
  BY DEF TruncatedMem
<1> HIDE DEF bufs, ino
<1>6. TruncatedMem(m, ip) = [bufs |-> bufs, slots |-> m.slots, inode |-> [m.inode EXCEPT ![ip] = ino]]
  BY <1>4, <1>5
<1>7. QED
  BY <1>2, <1>3, <1>6 DEF Memory, CleanIn

(***************************************************************************)
(* The calls.                                                              *)
(***************************************************************************)

TableTyped ==
  /\ files \in [Fds -> File]
  /\ opened_files_cnt \in 0 .. MAX_FILES_OPENED
  /\ opens \in Seq(Fds)
  /\ Len(opens) = opened_files_cnt

LEMMA TakeDescriptorTyped ==
  ASSUME TableTyped, opened_files_cnt # MAX_FILES_OPENED,
         NEW ip \in InodeSlots, NEW flags, TakeDescriptor(ip, flags)
  PROVE  TableTyped'
<1>1. MAX_FILES_OPENED \in Nat
  BY SizesAssumption, DeviceAssumption
<1>2. opened_files_cnt \in Fds
  BY <1>1 DEF TableTyped, Fds
<1> DEFINE f == [type     |-> "FD_INODE",
                 ip       |-> ip,
                 readable |-> "FS_O_WRONLY" \notin flags,
                 writable |-> {"FS_O_WRONLY", "FS_O_RDWR"} \cap flags # {}]
<1>3. f \in File
  BY DEF File
<1>4. files' = [files EXCEPT ![opened_files_cnt] = f]
  BY Zenon DEF TakeDescriptor
<1> HIDE DEF f
<1>5. files' \in [Fds -> File]
  BY <1>3, <1>4 DEF TableTyped
<1>6. opens' \in Seq(Fds) /\ Len(opens') = opened_files_cnt + 1
  BY <1>2 DEF TableTyped, TakeDescriptor
<1>7. QED
  BY <1>1, <1>5, <1>6 DEF TableTyped, TakeDescriptor

\* When no creation waits to be linked, the bits that agree with the directory
\* are all of them.
LEMMA LinkedIsMonotone ==
  ASSUME NEW small, NEW large, small \subseteq large, LinkedIn(dir, small)
  PROVE  LinkedIn(dir, large)
BY DEF LinkedIn

LEMMA DeviceKept ==
  ASSUME InductiveInv, UNCHANGED <<dbmap, dinode, dir>>, ibmap' \in {ibmap, Settled},
         pc' # "link"
  PROVE  /\ BlocksMarked' /\ NoSharedBlocks' /\ DirectoryInv'
         /\ ibmap' \subseteq 0 .. INODE_BITS - 1
<1>1. /\ Settled \subseteq ibmap' /\ ibmap' \subseteq ibmap
      /\ Settled' = ibmap'
  BY DEF Settled
<1>2. BlocksMarked' /\ NoSharedBlocks'
  BY DEF InductiveInv, BlocksMarked, NoSharedBlocks
<1>3. ibmap' \subseteq 0 .. INODE_BITS - 1
  BY <1>1 DEF InductiveInv, TypeOK
<1>4. DirectoryInv'
  <2>1. Settled' \subseteq 0 .. INUM_RANGE - 1 => LinkedIn(dir, Settled)
    BY <1>1 DEF InductiveInv, DirectoryInv
  <2>2. Settled' \subseteq 0 .. INUM_RANGE - 1 => LinkedIn(dir, Settled')
    BY <1>1, <2>1, LinkedIsMonotone
  <2>3. LinkedIn(dir, Settled') => LinkedIn(dir, Settled)'
    BY DEF LinkedIn
  <2>4. ROOTINO \in Settled'
    BY <1>1 DEF InductiveInv, DirectoryInv
  <2>5. QED
    BY <2>2, <2>3, <2>4 DEF DirectoryInv
<1>5. QED
  BY <1>2, <1>3, <1>4

\* A step after which no call is in progress.
LEMMA ReadyAgain ==
  ASSUME InductiveInv, UNCHANGED <<dbmap, dinode, dir>>, ibmap' \in {ibmap, Settled},
         mem' \in Memory, CleanIn(mem'), 0 \notin mem'.bufs, TableTyped',
         pc' = "ready", call' = NoCall
  PROVE  InductiveInv'
<1>1. /\ BlocksMarked' /\ NoSharedBlocks' /\ DirectoryInv'
      /\ ibmap' \subseteq 0 .. INODE_BITS - 1
  BY DeviceKept
<1>2. NoCall \in [path : Path, flags : Flags \cup {{}},
                   inum : 0 .. INODE_BITS - 1 \cup {NULL},
                   parent : InodeSlots \cup {NULL}, child : InodeSlots \cup {NULL}]
  BY DEF NoCall, Path
<1>3. TypeOK'
  BY <1>1, <1>2 DEF InductiveInv, TypeOK, TableTyped
<1>4. BufferZeroFree' /\ CallInv' /\ NullDerefCause'
  BY DEF BufferZeroFree, CallInv, NullDerefCause
<1>5. CleanIn(mem)'
  BY DEF CleanIn
<1>6. QED
  BY <1>1, <1>3, <1>4, <1>5 DEF InductiveInv

\* A step in which the process dies on a null pointer.
LEMMA Dies ==
  ASSUME InductiveInv, UNCHANGED <<dbmap, dinode, dir>>, ibmap' \in {ibmap, Settled},
         NEW m \in Memory, CleanIn(m), NEW path \in Path, NEW flags \in Flags \cup {{}},
         ~path.rooted \/ m.slots = InodeSlots, Die(m, path, flags)
  PROVE  InductiveInv'
<1>1. /\ BlocksMarked' /\ NoSharedBlocks' /\ DirectoryInv'
      /\ ibmap' \subseteq 0 .. INODE_BITS - 1
  BY DeviceKept DEF Die
<1>2. call' = [path |-> path, flags |-> flags, inum |-> NULL, parent |-> NULL, child |-> NULL]
  BY DEF Die, NoCall
<1>3. TypeOK'
  BY <1>1, <1>2 DEF InductiveInv, TypeOK, Die, table
<1>4. BufferZeroFree' /\ CallInv'
  BY DEF BufferZeroFree, CallInv, Die, Running
<1>5. NullDerefCause'
  BY <1>2 DEF NullDerefCause, Die
<1>6. CleanIn(mem)'
  BY DEF CleanIn, Die
<1>7. QED
  BY <1>1, <1>3, <1>4, <1>5, <1>6 DEF InductiveInv

\* What the invariant says of the state in which a call starts or goes on.
LEMMA Usual ==
  ASSUME InductiveInv
  PROVE  /\ mem \in Memory /\ CleanIn(mem) /\ DeviceTyped /\ TableTyped
         /\ Running => 0 \notin mem.bufs
         /\ dbmap \subseteq 0 .. DATA_BLOCKS - 1
         /\ mem.bufs \in SUBSET BlockSlots
         /\ mem.slots \in SUBSET InodeSlots
         /\ mem.inode \in [InodeSlots -> Inode]
BY DEF InductiveInv, TypeOK, DeviceTyped, TableTyped, BufferZeroFree, Memory

LEMMA OpenKeeps ==
  ASSUME InductiveInv, NEW path \in Paths, NEW flags \in Flags, Open(path, flags)
  PROVE  InductiveInv'
<1> DEFINE got == fs_get_inode(mem, path)
<1>1. /\ mem \in Memory /\ CleanIn(mem) /\ DeviceTyped /\ TableTyped
      /\ dbmap \subseteq 0 .. DATA_BLOCKS - 1
  BY Usual
<1>2. /\ pc = "ready" /\ opened_files_cnt # MAX_FILES_OPENED /\ call = NoCall
      /\ 0 \notin mem.bufs
  BY Usual DEF Open, CanOpen, Running, InductiveInv, CallInv
<1>3. path \in Path /\ flags \in Flags \cup {{}}
  BY SizesAssumption, DeviceAssumption
<1>4. /\ Contract(mem, got)
      /\ got.fault => ~path.rooted \/ got.mem.slots = InodeSlots
  BY <1>1, <1>2, <1>3, GetInode
<1>5. UNCHANGED <<ibmap, dinode, dir>>
  BY DEF Open
<1>6. /\ got.mem \in Memory /\ CleanIn(got.mem)
      /\ got.ip \in got.mem.slots \cup {NULL}
      /\ got.mem.slots \in SUBSET InodeSlots
      /\ ~got.fault => 0 \notin got.mem.bufs
  BY <1>2, <1>4 DEF Contract, Memory
<1>7. \/ got.fault /\ Die(got.mem, path, flags) /\ UNCHANGED dbmap
      \/ ~got.fault /\ mem' = got.mem /\ UNCHANGED <<dbmap, table, pc, call>>
      \/ /\ ~got.fault /\ got.ip # NULL
         /\ \/ mem' = TruncatedMem(got.mem, got.ip) /\ dbmap' = TruncatedMap(got.mem, got.ip)
            \/ mem' = got.mem /\ UNCHANGED dbmap
         /\ TakeDescriptor(got.ip, flags)
         /\ UNCHANGED <<pc, call>>
  BY DEF Open, Granted
<1> HIDE DEF got
<1>8. CASE got.fault /\ Die(got.mem, path, flags) /\ UNCHANGED dbmap
  BY <1>3, <1>4, <1>5, <1>6, <1>8, Dies
<1>9. CASE ~got.fault /\ mem' = got.mem /\ UNCHANGED <<dbmap, table, pc, call>>
  <2>1. TableTyped'
    BY <1>1, <1>9 DEF TableTyped, table
  <2>2. QED
    BY <1>2, <1>5, <1>6, <1>9, <2>1, ReadyAgain
<1>10. CASE /\ ~got.fault /\ got.ip # NULL
            /\ \/ mem' = TruncatedMem(got.mem, got.ip) /\ dbmap' = TruncatedMap(got.mem, got.ip)
               \/ mem' = got.mem /\ UNCHANGED dbmap
            /\ TakeDescriptor(got.ip, flags)
            /\ UNCHANGED <<pc, call>>
  <2>1. got.ip \in InodeSlots
    BY <1>6, <1>10
  <2>2. TableTyped'
    BY <1>1, <1>2, <1>10, <2>1, TakeDescriptorTyped
  <2>3. mem' \in Memory /\ CleanIn(mem') /\ 0 \notin mem'.bufs /\ UNCHANGED dbmap
    BY <1>1, <1>6, <1>10, <2>1, TruncateMemory, TruncateKeepsMap
  <2>4. QED
    BY <1>2, <1>5, <1>10, <2>2, <2>3, ReadyAgain
<1>11. QED
  BY <1>7, <1>8, <1>9, <1>10

LEMMA CloseKeeps ==
  ASSUME InductiveInv, NEW k \in Closable, fs_close(k)
  PROVE  InductiveInv'
<1>1. /\ mem \in Memory /\ CleanIn(mem) /\ TableTyped /\ mem.slots \in SUBSET InodeSlots
  BY Usual
<1>2. /\ pc = "ready" /\ call = NoCall /\ 0 \notin mem.bufs
  BY Usual DEF fs_close, Running, InductiveInv, CallInv
<1>3. k \in 1 .. Len(opens) /\ Len(opens) = opened_files_cnt /\ opened_files_cnt \in Nat
  BY <1>1 DEF Closable, TableTyped
<1>4. opens[k] \in Fds /\ files[opens[k]] \in File
  BY <1>1, <1>3 DEF TableTyped
<1>5. inmem_free_inode(mem.slots, files[opens[k]].ip) \in SUBSET InodeSlots
  BY <1>1, <1>4 DEF inmem_free_inode, File
<1>6. mem' \in Memory /\ CleanIn(mem') /\ 0 \notin mem'.bufs
  <2>1. mem.slots \subseteq inmem_free_inode(mem.slots, files[opens[k]].ip)
    BY DEF inmem_free_inode
  <2>2. mem' = [mem EXCEPT !.slots = inmem_free_inode(mem.slots, files[opens[k]].ip)]
    BY DEF fs_close
  <2>3. QED
    BY <1>1, <1>2, <1>5, <2>1, <2>2, Adjusted
<1>7. TableTyped'
  <2>1. opens' \in Seq(Fds) /\ Len(opens') = Len(opens) - 1
    <3>1. Len(opens) - 1 \in Nat
      BY <1>3
    <3>2. \A n \in 1 .. Len(opens) - 1 :
            (IF n < k THEN opens[n] ELSE opens[n + 1]) \in Fds
      BY <1>1, <1>3 DEF TableTyped
    <3>3. QED
      BY <3>1, <3>2 DEF fs_close
  <2>2. files' \in [Fds -> File]
    <3>1. ZeroFile \in File
      BY DEF ZeroFile, File
    <3>2. QED
      BY <1>1, <3>1 DEF fs_close, Cleared, TableTyped
  <2>3. opened_files_cnt' = opened_files_cnt - 1
    BY DEF fs_close
  <2>4. QED
    BY <1>1, <1>3, <2>1, <2>2, <2>3, SizesAssumption, DeviceAssumption DEF TableTyped
<1>8. QED
  BY <1>2, <1>6, <1>7, ReadyAgain DEF fs_close, device

LEMMA RestartKeeps ==
  ASSUME InductiveInv, Restart
  PROVE  InductiveInv'
<1>1. ZeroInode \in Inode
  BY DEF ZeroInode, Inode, NoBlocks
<1>2. FreshMemory \in Memory /\ CleanIn(FreshMemory) /\ 0 \notin FreshMemory.bufs
  BY <1>1 DEF FreshMemory, Memory, CleanIn, ZeroInode
<1>3. TableTyped'
  <2>1. ZeroFile \in File
    BY DEF ZeroFile, File
  <2>2. QED
    BY <2>1, SizesAssumption, DeviceAssumption DEF Restart, TableTyped
<1>4. QED
  BY <1>2, <1>3, ReadyAgain DEF Restart, device

\* The memory in which fs_create_inode has locked an inode for the child.
LEMMA ChildLocked ==
  ASSUME NEW m \in Memory, CleanIn(m), InodeFor(m.slots) # NULL
  PROVE  LET child  == InodeFor(m.slots)
             locked == [m EXCEPT !.slots = inmem_lock_inode(@), !.inode[child].type = TYPE_FILE]
         IN  /\ locked \in Memory /\ CleanIn(locked)
             /\ locked.bufs = m.bufs
             /\ locked.slots = inmem_lock_inode(m.slots)
             /\ child \in InodeSlots /\ locked.inode[child].addr = NoBlocks
<1> DEFINE child  == InodeFor(m.slots)
           ino    == [m.inode[child] EXCEPT !.type = TYPE_FILE]
           locked == [m EXCEPT !.slots = inmem_lock_inode(@), !.inode[child].type = TYPE_FILE]
<1>1. m.slots \in SUBSET InodeSlots /\ m.inode \in [InodeSlots -> Inode]
  BY DEF Memory
<1>2. child \in InodeSlots \ m.slots
  BY <1>1, InodeForIs
<1>3. m.inode[child] \in Inode /\ m.inode[child].addr = NoBlocks
  BY <1>1, <1>2 DEF CleanIn
<1>4. ino \in Inode /\ ino.addr = NoBlocks
  BY <1>3 DEF Inode
<1>5. locked = [m EXCEPT !.slots = inmem_lock_inode(@), !.inode[InodeFor(m.slots)] = ino]
  OBVIOUS
<1> HIDE DEF ino
<1>6. locked \in Memory /\ CleanIn(locked)
  <2> HIDE DEF locked
  <2>1. QED
    BY <1>4, <1>5, LockedSlots
<1>7. /\ locked.bufs = m.bufs /\ locked.slots = inmem_lock_inode(m.slots)
      /\ locked.inode[child] = ino
  <2>1. m = [bufs |-> m.bufs, slots |-> m.slots, inode |-> m.inode]
    BY DEF Memory
  <2> HIDE DEF locked
  <2>2. QED
    BY <1>1, <1>2, <1>5, <2>1
<1>8. QED
  BY <1>2, <1>4, <1>6, <1>7

LEMMA AbandonKeeps ==
  ASSUME InductiveInv, pc = "link", UNCHANGED dbmap,
         NEW m \in Memory, CleanIn(m), 0 \notin m.bufs, AbandonCreate(m)
  PROVE  InductiveInv'
<1>1. m.bufs \in SUBSET BlockSlots /\ m.slots \in SUBSET InodeSlots
  BY DEF Memory
<1>2. BlockFor(m.bufs) # NULL
  BY <1>1, BlockForIs
<1>3. UseBlock(m.bufs) \in SUBSET BlockSlots /\ 0 \notin UseBlock(m.bufs)
  BY <1>1, UseBlockIs
<1>4. call.parent \in InodeSlots \cup {NULL} /\ TableTyped
  BY DEF InductiveInv, TypeOK, TableTyped
<1> DEFINE left == [m EXCEPT !.bufs = UseBlock(m.bufs)]
<1>5. left \in Memory /\ CleanIn(left) /\ left.slots = m.slots /\ left.bufs = UseBlock(m.bufs)
  BY <1>1, <1>3, Adjusted
<1>6. mem' = [left EXCEPT !.slots = inmem_free_inode(m.slots, call.parent)]
  BY <1>2 DEF AbandonCreate
<1>7. /\ inmem_free_inode(m.slots, call.parent) \in SUBSET InodeSlots
      /\ m.slots \subseteq inmem_free_inode(m.slots, call.parent)
  BY <1>1, <1>4 DEF inmem_free_inode
<1> HIDE DEF left
<1>8. mem' \in Memory /\ CleanIn(mem') /\ 0 \notin mem'.bufs
  BY <1>3, <1>5, <1>6, <1>7, Adjusted
<1>9. ibmap' = Settled
  BY <1>2 DEF AbandonCreate, FreeInode, Settled
<1>10. TableTyped' /\ UNCHANGED <<dinode, dir>> /\ pc' = "ready" /\ call' = NoCall
  BY <1>4 DEF AbandonCreate, table, TableTyped
<1>11. QED
  BY <1>8, <1>9, <1>10, ReadyAgain

LEMMA CreateAllocKeeps ==
  ASSUME InductiveInv, NEW path \in Paths, NEW flags \in Flags, CreateAlloc(path, flags)
  PROVE  InductiveInv'
<1> DEFINE parent == ParentOf(mem, path)
           m      == parent.mem
           bit    == FirstUnused(ibmap, INODE_BITS)
           used   == [m EXCEPT !.bufs = UseBlock(@)]
<1>1. /\ mem \in Memory /\ CleanIn(mem) /\ DeviceTyped /\ TableTyped
  BY Usual
<1>2. /\ pc = "ready" /\ opened_files_cnt # MAX_FILES_OPENED /\ call = NoCall
      /\ 0 \notin mem.bufs
  BY Usual DEF CreateAlloc, CanOpen, Running, InductiveInv, CallInv
<1>3. path \in Path /\ flags \in Flags \cup {{}}
  BY SizesAssumption, DeviceAssumption
<1>4. /\ Contract(mem, parent)
      /\ parent.fault => m.slots = InodeSlots
      /\ parent.ip = NULL => ~path.rooted \/ parent.fault
  BY <1>1, <1>2, <1>3, ParentIs
<1>5. UNCHANGED <<dbmap, dinode, dir, table>>
  BY DEF CreateAlloc
<1>6. TableTyped'
  BY <1>1, <1>5 DEF TableTyped, table
<1>7. \/ parent.fault /\ Die(m, path, flags) /\ UNCHANGED ibmap
      \/ ~parent.fault /\ BlockFor(m.bufs) = NULL
      \/ ~parent.fault /\ mem' = used /\ UNCHANGED <<ibmap, pc, call>>
      \/ /\ ~parent.fault /\ mem' = used /\ bit # NULL /\ ibmap' = ibmap \cup {bit}
         /\ pc' = "link"
         /\ call' = [path |-> path, flags |-> flags, inum |-> bit,
                     parent |-> parent.ip, child |-> NULL]
  BY DEF CreateAlloc, MarkInode
<1> HIDE DEF parent
<1>8. m \in Memory /\ CleanIn(m) /\ m.bufs \in SUBSET BlockSlots
  BY <1>4 DEF Contract, Memory
<1>9. ASSUME ~parent.fault
      PROVE  /\ BlockFor(m.bufs) # NULL
             /\ used \in Memory /\ CleanIn(used) /\ 0 \notin used.bufs
             /\ used.slots = m.slots /\ used.inode = m.inode
  <2>1. 0 \notin m.bufs
    BY <1>2, <1>4, <1>9 DEF Contract
  <2>2. UseBlock(m.bufs) \in SUBSET BlockSlots /\ 0 \notin UseBlock(m.bufs)
    BY <1>8, UseBlockIs
  <2>3. QED
    BY <1>8, <2>1, <2>2, BlockForIs, Adjusted
<1> HIDE DEF used
<1>10. CASE parent.fault /\ Die(m, path, flags) /\ UNCHANGED ibmap
  BY <1>3, <1>4, <1>5, <1>8, <1>10, Dies
<1>11. CASE ~parent.fault /\ mem' = used /\ UNCHANGED <<ibmap, pc, call>>
  BY <1>2, <1>5, <1>6, <1>9, <1>11, ReadyAgain
<1>12. CASE /\ ~parent.fault /\ mem' = used /\ bit # NULL /\ ibmap' = ibmap \cup {bit}
            /\ pc' = "link"
            /\ call' = [path |-> path, flags |-> flags, inum |-> bit,
                        parent |-> parent.ip, child |-> NULL]
  <2>1. bit \in (0 .. INODE_BITS - 1) \ ibmap
    BY <1>12, SizesAssumption, DeviceAssumption, FirstUnusedIs
  <2> HIDE DEF bit
  <2>2. parent.ip \in InodeSlots \cup {NULL}
    BY <1>4 DEF Contract, Memory
  <2>3. TypeOK'
    BY <1>3, <1>5, <1>6, <1>9, <1>12, <2>1, <2>2 DEF InductiveInv, TypeOK, TableTyped
  <2>4. BlocksMarked' /\ NoSharedBlocks' /\ BufferZeroFree' /\ NullDerefCause'
    BY <1>5, <1>9, <1>12
    DEF InductiveInv, BlocksMarked, NoSharedBlocks, BufferZeroFree, NullDerefCause
  <2>5. CleanIn(mem)' /\ CallInv'
    BY <1>2, <1>4, <1>5, <1>9, <1>12 DEF CleanIn, CallInv, table
  <2>6. Settled = ibmap /\ Settled' = ibmap
    BY <1>2, <1>12, <2>1 DEF Settled
  <2>7. DirectoryInv'
    BY <1>5, <1>12, <2>6 DEF InductiveInv, DirectoryInv, LinkedIn
  <2>8. QED
    BY <2>3, <2>4, <2>5, <2>7 DEF InductiveInv
<1>13. QED
  BY <1>7, <1>9, <1>10, <1>11, <1>12

LEMMA IsEntry ==
  ASSUME NEW i \in Direct, NEW j \in 0 .. DIRENTS_PER_BLOCK - 1
  PROVE  <<i, j>> \in Entries
BY DEF Entries

\* The entry that fs_add_inode_in_dir takes is a free one of the directory.
LEMMA FreeEntry ==
  ASSUME NEW m, NEW par, NEW i, i = (CHOOSE k \in Usable(m, par) : \A l \in Usable(m, par) : k <= l),
         Usable(m, par) # {}, FreeIn(i) # {},
         NEW j, j = (CHOOSE k \in FreeIn(i) : \A l \in FreeIn(i) : k <= l)
  PROVE  <<i, j>> \in Entries /\ dir[<<i, j>>].name = FreeName
<1>1. Usable(m, par) \subseteq Direct /\ Direct \subseteq Nat
  BY SizesAssumption, DeviceAssumption DEF Usable, Direct
<1>2. FreeIn(i) \subseteq 0 .. DIRENTS_PER_BLOCK - 1 /\ FreeIn(i) \subseteq Nat
  BY SizesAssumption, DeviceAssumption DEF FreeIn
<1>3. \E k \in Usable(m, par) : \A l \in Usable(m, par) : k <= l
  BY <1>1, LeastElement
<1>4. \E k \in FreeIn(i) : \A l \in FreeIn(i) : k <= l
  BY <1>2, LeastElement
<1>5. i \in Direct /\ j \in FreeIn(i)
  BY <1>1, <1>3, <1>4
<1>6. FreeIn(i) = {k \in 0 .. DIRENTS_PER_BLOCK - 1 : dir[<<i, k>>].name = FreeName}
  BY DEF FreeIn
<1>7. dir[<<i, j>>].name = FreeName
  BY <1>5, <1>6
<1>8. j \in 0 .. DIRENTS_PER_BLOCK - 1
  BY <1>2, <1>5
<1>9. QED
  BY <1>5, <1>7, <1>8, IsEntry

\* Linking the inode of the creation in progress keeps the directory consistent.
LEMMA LinkKeepsDirectory ==
  ASSUME InductiveInv, pc = "link", pc' # "link", UNCHANGED ibmap,
         NEW e \in Entries, dir[e].name = FreeName,
         dir' = [dir EXCEPT ![e] = [name |-> call.path.name, inum |-> call.inum % INUM_RANGE]]
  PROVE  DirectoryInv' /\ dir' \in [Entries -> Dirent]
<1>1. /\ Settled = ibmap \ {call.inum} /\ Settled' = ibmap
      /\ call.inum \in ibmap /\ ROOTINO \in Settled
      /\ call.inum \in Nat
  <2>1. ibmap \subseteq 0 .. INODE_BITS - 1
    BY DEF InductiveInv, TypeOK
  <2>2. QED
    BY <2>1, SizesAssumption, DeviceAssumption DEF InductiveInv, DirectoryInv, Settled
<1>2. INUM_RANGE \in Nat \ {0}
  BY SizesAssumption, DeviceAssumption
<1>3. dir \in [Entries -> Dirent] /\ call.path.name \in Names \cup {FreeName}
  <2>1. dir \in [Entries -> Dirent] /\ call.path \in Path
    BY DEF InductiveInv, TypeOK
  <2>2. QED
    BY <2>1 DEF Path
<1>4. call.inum % INUM_RANGE \in 0 .. INUM_RANGE - 1
  BY <1>1, <1>2
<1>5. dir' \in [Entries -> Dirent]
  BY <1>3, <1>4 DEF Dirent
<1>6. ASSUME ibmap \subseteq 0 .. INUM_RANGE - 1
      PROVE  LinkedIn(dir', ibmap)
  <2>1. LinkedIn(dir, Settled)
    BY <1>1, <1>6 DEF InductiveInv, DirectoryInv
  <2>2. call.inum % INUM_RANGE = call.inum
    BY <1>1, <1>2, <1>6
  <2>3. dir'[e] = [name |-> call.path.name, inum |-> call.inum]
    BY <1>3, <2>2
  <2>4. \A f \in Entries : f # e => dir'[f] = dir[f]
    BY <1>3
  <2>5. \A f \in Entries : f # e /\ dir'[f].name # FreeName =>
          dir'[f].inum \in ibmap \ {ROOTINO, call.inum}
    BY <1>1, <2>1, <2>4 DEF LinkedIn
  <2>6. \A f, g \in Entries :
          f # g /\ dir'[f].name # FreeName /\ dir'[g].name # FreeName => dir'[f].inum # dir'[g].inum
    BY <2>1, <2>3, <2>4, <2>5 DEF LinkedIn
  <2>7. call.inum # ROOTINO
    BY <1>1
  <2> HIDE DEF ROOTINO
  <2>8. QED
    BY <1>1, <2>3, <2>5, <2>6, <2>7 DEF LinkedIn
<1>7. LinkedIn(dir', Settled') <=> LinkedIn(dir, Settled)'
  BY DEF LinkedIn
<1>8. QED
  BY <1>1, <1>5, <1>6, <1>7 DEF DirectoryInv

LEMMA CreateLinkKeeps ==
  ASSUME InductiveInv, CreateLink
  PROVE  InductiveInv'
<1> DEFINE child  == InodeFor(mem.slots)
           locked == [mem EXCEPT !.slots = inmem_lock_inode(@), !.inode[child].type = TYPE_FILE]
           read   == [locked EXCEPT !.bufs = UseBlock(@)]
           parent == mem.inode[call.parent]
           usable == Usable(mem, parent)
           i      == CHOOSE i \in usable : \A k \in usable : i <= k
           j      == CHOOSE j \in FreeIn(i) : \A k \in FreeIn(i) : j <= k
<1>1. /\ pc = "link" /\ UNCHANGED dbmap
      /\ \/ child = NULL /\ AbandonCreate(mem)
         \/ /\ child # NULL /\ call.parent = NULL /\ UNCHANGED <<ibmap, dinode, dir>>
            /\ Die(locked, call.path, call.flags)
         \/ child # NULL /\ AbandonCreate(locked)
         \/ child # NULL /\ AbandonCreate(read)
         \/ /\ child # NULL /\ usable # {} /\ mem' = read
            /\ call' = [call EXCEPT !.child = child]
            /\ \/ /\ FreeIn(i) # {} /\ pc' = "store"
                  /\ dir' = [dir EXCEPT ![<<i, j>>] =
                       [name |-> call.path.name, inum |-> call.inum % INUM_RANGE]]
               \/ pc' = "overrun" /\ UNCHANGED dir
            /\ UNCHANGED <<ibmap, dinode, table>>
  BY DEF CreateLink
<1>2. /\ mem \in Memory /\ CleanIn(mem) /\ 0 \notin mem.bufs /\ TableTyped
      /\ mem.bufs \in SUBSET BlockSlots
  BY <1>1, Usual DEF Running
<1>3. /\ call.path \in Path /\ call.flags \in Flags \cup {{}}
      /\ opened_files_cnt # MAX_FILES_OPENED /\ call.inum # NULL
      /\ call.path.rooted => call.parent # NULL
  BY <1>1 DEF InductiveInv, TypeOK, CallInv
<1>4. ASSUME child # NULL
      PROVE  /\ locked \in Memory /\ CleanIn(locked) /\ 0 \notin locked.bufs
             /\ read \in Memory /\ CleanIn(read) /\ 0 \notin read.bufs
             /\ child \in InodeSlots /\ read.inode[child].addr = NoBlocks
  <2>1. /\ locked \in Memory /\ CleanIn(locked) /\ locked.bufs = mem.bufs
        /\ child \in InodeSlots /\ locked.inode[child].addr = NoBlocks
    BY <1>2, <1>4, ChildLocked
  <2> HIDE DEF locked, child
  <2>2. UseBlock(locked.bufs) \in SUBSET BlockSlots /\ 0 \notin UseBlock(locked.bufs)
    BY <1>2, <2>1, UseBlockIs
  <2>3. /\ read \in Memory /\ CleanIn(read) /\ read.bufs = UseBlock(locked.bufs)
        /\ read.inode = locked.inode
    BY <2>1, <2>2, Adjusted
  <2>4. QED
    BY <1>2, <2>1, <2>2, <2>3
<1> HIDE DEF child, locked, read, parent, usable, i, j
<1>5. CASE child = NULL /\ AbandonCreate(mem)
  BY <1>1, <1>2, <1>5, AbandonKeeps
<1>6. CASE /\ child # NULL /\ call.parent = NULL /\ UNCHANGED <<ibmap, dinode, dir>>
           /\ Die(locked, call.path, call.flags)
  BY <1>1, <1>3, <1>4, <1>6, Dies
<1>7. CASE child # NULL /\ AbandonCreate(locked)
  BY <1>1, <1>4, <1>7, AbandonKeeps
<1>8. CASE child # NULL /\ AbandonCreate(read)
  BY <1>1, <1>4, <1>8, AbandonKeeps
<1>9. ASSUME child # NULL, usable # {}, mem' = read, call' = [call EXCEPT !.child = child],
             \/ /\ FreeIn(i) # {} /\ pc' = "store"
                /\ dir' = [dir EXCEPT ![<<i, j>>] =
                     [name |-> call.path.name, inum |-> call.inum % INUM_RANGE]]
             \/ pc' = "overrun" /\ UNCHANGED dir,
             UNCHANGED <<ibmap, dinode, table>>
      PROVE  InductiveInv'
  <2>1. DirectoryInv' /\ dir' \in [Entries -> Dirent]
    <3>1. CASE /\ FreeIn(i) # {} /\ pc' = "store"
               /\ dir' = [dir EXCEPT ![<<i, j>>] =
                    [name |-> call.path.name, inum |-> call.inum % INUM_RANGE]]
      <4>1. <<i, j>> \in Entries /\ dir[<<i, j>>].name = FreeName
        <5>1. i = CHOOSE k \in Usable(mem, parent) : \A l \in Usable(mem, parent) : k <= l
          BY DEF i, usable
        <5>2. j = CHOOSE k \in FreeIn(i) : \A l \in FreeIn(i) : k <= l
          BY DEF j
        <5>3. Usable(mem, parent) # {} /\ FreeIn(i) # {}
          BY <1>9, <3>1 DEF usable
        <5>4. QED
          BY <5>1, <5>2, <5>3, FreeEntry
      <4>2. QED
        BY <1>1, <1>9, <3>1, <4>1, LinkKeepsDirectory
    <3>2. CASE pc' = "overrun" /\ UNCHANGED dir
      BY <1>1, <1>9, <3>2, DeviceKept DEF InductiveInv, TypeOK
    <3>3. QED
      BY <1>9, <3>1, <3>2
  <2>2. TableTyped'
    BY <1>2, <1>9 DEF TableTyped, table
  <2>3. TypeOK'
    <3>1. call' \in [path : Path, flags : Flags \cup {{}}, inum : 0 .. INODE_BITS - 1 \cup {NULL},
                     parent : InodeSlots \cup {NULL}, child : InodeSlots \cup {NULL}]
      BY <1>4, <1>9 DEF InductiveInv, TypeOK
    <3>2. QED
      BY <1>1, <1>4, <1>9, <2>1, <2>2, <3>1 DEF InductiveInv, TypeOK, TableTyped
  <2>4. /\ BlocksMarked' /\ NoSharedBlocks' /\ BufferZeroFree' /\ NullDerefCause'
        /\ CleanIn(mem)'
    BY <1>1, <1>4, <1>9
    DEF InductiveInv, BlocksMarked, NoSharedBlocks, BufferZeroFree, NullDerefCause, CleanIn
  <2>5. CallInv'
    <3>1. call'.child = child /\ call'.inum = call.inum
      BY <1>9 DEF InductiveInv, TypeOK
    <3>2. QED
      BY <1>3, <1>4, <1>9, <3>1 DEF CallInv, table
  <2>6. QED
    BY <2>1, <2>3, <2>4, <2>5 DEF InductiveInv
<1>10. QED
  BY <1>1, <1>5, <1>6, <1>7, <1>8, <1>9

LEMMA CreateStoreKeeps ==
  ASSUME InductiveInv, CreateStore
  PROVE  InductiveInv'
<1> DEFINE stored == Stores(call.inum)
           child  == call.child
           bufs   == IF stored THEN UseBlock(mem.bufs) ELSE mem.bufs
           slots  == inmem_free_inode(mem.slots, call.parent)
<1>1. /\ pc = "store" /\ pc' = "ready" /\ call' = NoCall
      /\ dinode' = IF stored THEN [dinode EXCEPT ![call.inum] = mem.inode[child]] ELSE dinode
      /\ mem' = [mem EXCEPT !.bufs = bufs, !.slots = slots]
      /\ TakeDescriptor(child, call.flags)
      /\ UNCHANGED <<ibmap, dbmap, dir>>
  BY DEF CreateStore
<1>2. /\ mem \in Memory /\ CleanIn(mem) /\ 0 \notin mem.bufs /\ TableTyped
      /\ mem.bufs \in SUBSET BlockSlots /\ mem.slots \in SUBSET InodeSlots
      /\ mem.inode \in [InodeSlots -> Inode]
      /\ dinode \in [0 .. MAXFILES - 1 -> Inode]
  BY <1>1, Usual DEF Running, DeviceTyped
<1>3. /\ child \in InodeSlots /\ mem.inode[child].addr = NoBlocks
      /\ call.parent \in InodeSlots \cup {NULL}
      /\ opened_files_cnt # MAX_FILES_OPENED
      /\ call.inum \in 0 .. INODE_BITS - 1
  <2>1. /\ call.child \in InodeSlots \cup {NULL} /\ call.parent \in InodeSlots \cup {NULL}
        /\ call.inum \in 0 .. INODE_BITS - 1 \cup {NULL}
    BY DEF InductiveInv, TypeOK
  <2>2. QED
    BY <1>1, <2>1 DEF InductiveInv, CallInv
<1>4. TableTyped'
  BY <1>1, <1>2, <1>3, TakeDescriptorTyped
<1>5. mem' \in Memory /\ CleanIn(mem') /\ 0 \notin mem'.bufs
  <2>1. bufs \in SUBSET BlockSlots /\ 0 \notin bufs
    BY <1>2, UseBlockIs
  <2>2. slots \in SUBSET InodeSlots /\ mem.slots \subseteq slots
    BY <1>2, <1>3 DEF inmem_free_inode
  <2> HIDE DEF bufs, slots
  <2>3. mem' = [bufs |-> bufs, slots |-> slots, inode |-> mem.inode]
    BY <1>1, <1>2 DEF Memory
  <2>4. QED
    BY <1>2, <2>1, <2>2, <2>3 DEF Memory, CleanIn
<1>6. /\ dinode' \in [0 .. MAXFILES - 1 -> Inode]
      /\ \A n \in 0 .. MAXFILES - 1 :
           dinode'[n] = dinode[n] \/ BlocksOf(dinode'[n]) = {}
  <2>1. BlocksOf(mem.inode[child]) = {}
    BY <1>3 DEF BlocksOf, NoBlocks
  <2>2. CASE stored
    <3>1. dinode' = [dinode EXCEPT ![call.inum] = mem.inode[child]]
      BY <1>1, <2>2
    <3>2. mem.inode[child] \in Inode
      BY <1>2, <1>3
    <3>3. QED
      BY <1>2, <2>1, <3>1, <3>2
  <2>3. CASE ~stored
    BY <1>1, <1>2, <2>3
  <2>4. QED
    BY <2>2, <2>3
<1>7. BlocksMarked' /\ NoSharedBlocks'
  <2>1. \A n \in 0 .. MAXFILES - 1 : BlocksOf(dinode'[n]) \subseteq BlocksOf(dinode[n])
    BY <1>6
  <2>2. DOMAIN dinode' = 0 .. MAXFILES - 1 /\ DOMAIN dinode = 0 .. MAXFILES - 1
    BY <1>2, <1>6
  <2>3. MarkedIn(dinode, dbmap) /\ DisjointIn(dinode)
    BY DEF InductiveInv, BlocksMarked, NoSharedBlocks
  <2>4. MarkedIn(dinode', dbmap') /\ DisjointIn(dinode')
    BY <1>1, <2>1, <2>2, <2>3 DEF MarkedIn, DisjointIn
  <2>5. QED
    BY <2>4 DEF BlocksMarked, NoSharedBlocks
<1>8. DirectoryInv'
  <2>1. Settled = ibmap /\ Settled' = ibmap
    BY <1>1 DEF Settled
  <2>2. QED
    BY <1>1, <2>1 DEF InductiveInv, DirectoryInv, LinkedIn
<1>9. NoCall \in [path : Path, flags : Flags \cup {{}},
                   inum : 0 .. INODE_BITS - 1 \cup {NULL},
                   parent : InodeSlots \cup {NULL}, child : InodeSlots \cup {NULL}]
  BY DEF NoCall, Path
<1>10. TypeOK'
  BY <1>1, <1>4, <1>5, <1>6, <1>9 DEF InductiveInv, TypeOK, TableTyped
<1>11. BufferZeroFree' /\ CallInv' /\ NullDerefCause' /\ CleanIn(mem)'
  BY <1>1, <1>5 DEF BufferZeroFree, CallInv, NullDerefCause, CleanIn
<1>12. QED
  BY <1>7, <1>8, <1>10, <1>11 DEF InductiveInv

LEMMA CreateStoreOverrunKeeps ==
  ASSUME InductiveInv, CreateStoreOverrun
  PROVE  InductiveInv'
<1>1. /\ pc = "store" /\ pc' = "overrun"
      /\ UNCHANGED <<ibmap, dbmap, dinode, dir, mem, call, files, opened_files_cnt, opens>>
  BY DEF CreateStoreOverrun, device, table
<1>2. TypeOK'
  BY <1>1 DEF InductiveInv, TypeOK
<1>3. /\ BlocksMarked' /\ NoSharedBlocks' /\ DirectoryInv'
  BY <1>1, DeviceKept
<1>4. BufferZeroFree' /\ CallInv' /\ NullDerefCause' /\ CleanIn(mem)'
  BY <1>1 DEF InductiveInv, BufferZeroFree, CallInv, NullDerefCause, CleanIn, Running
<1>5. QED
  BY <1>2, <1>3, <1>4 DEF InductiveInv

LEMMA StutterKeeps ==
  ASSUME InductiveInv, UNCHANGED vars
  PROVE  InductiveInv'
BY DEF InductiveInv, vars, device, table, TypeOK, BufferZeroFree, CleanIn, CallInv, BlocksMarked,
       NoSharedBlocks, NullDerefCause, DirectoryInv, Settled, LinkedIn, Running

LEMMA InitHolds ==
  ASSUME Init
  PROVE  InductiveInv
<1>1. PICK img \in Images :
        ibmap = img.ibmap /\ dbmap = img.dbmap /\ dinode = img.dinode /\ dir = img.dir
  BY DEF Init
<1>2. WellFormed(img)
  BY <1>1, ImagesAssumption
<1>3. /\ mem = FreshMemory /\ files = [fd \in Fds |-> ZeroFile] /\ opened_files_cnt = 0
      /\ opens = <<>> /\ pc = "ready" /\ call = NoCall
  BY DEF Init
<1>4. FreshMemory \in Memory /\ CleanIn(FreshMemory) /\ 0 \notin FreshMemory.bufs
  <2>1. ZeroInode \in Inode
    BY DEF ZeroInode, Inode, NoBlocks
  <2>2. QED
    BY <2>1 DEF FreshMemory, Memory, CleanIn, ZeroInode
<1>5. TableTyped
  <2>1. ZeroFile \in File
    BY DEF ZeroFile, File
  <2>2. QED
    BY <1>3, <2>1, SizesAssumption, DeviceAssumption DEF TableTyped
<1>6. NoCall \in [path : Path, flags : Flags \cup {{}},
                   inum : 0 .. INODE_BITS - 1 \cup {NULL},
                   parent : InodeSlots \cup {NULL}, child : InodeSlots \cup {NULL}]
  BY DEF NoCall, Path
<1>7. TypeOK
  BY <1>1, <1>2, <1>3, <1>4, <1>5, <1>6 DEF TypeOK, TableTyped, WellFormed
<1>8. BlocksMarked /\ NoSharedBlocks
  BY <1>1, <1>2 DEF BlocksMarked, NoSharedBlocks, WellFormed
<1>9. DirectoryInv
  BY <1>1, <1>2, <1>3 DEF DirectoryInv, Settled, WellFormed
<1>10. BufferZeroFree /\ CallInv /\ NullDerefCause /\ CleanIn(mem)
  BY <1>3, <1>4 DEF BufferZeroFree, CallInv, NullDerefCause
<1>11. QED
  BY <1>7, <1>8, <1>9, <1>10 DEF InductiveInv

(***************************************************************************)
(* The theorems.                                                           *)
(***************************************************************************)

\* InductiveInv holds in every state of every behavior: no call, failed call,
\* crash or restart of the runtime (main.c:226-687) breaks it.
THEOREM Invariance == Spec => []InductiveInv
<1>1. InductiveInv /\ [Next]_vars => InductiveInv'
  <2> SUFFICES ASSUME InductiveInv, [Next]_vars
               PROVE  InductiveInv'
    OBVIOUS
  <2>1. ASSUME NEW path \in Paths, NEW flags \in Flags, Open(path, flags)
        PROVE  InductiveInv'
    BY <2>1, OpenKeeps
  <2>2. ASSUME NEW path \in Paths, NEW flags \in Flags, CreateAlloc(path, flags)
        PROVE  InductiveInv'
    BY <2>2, CreateAllocKeeps
  <2>3. CASE CreateLink
    BY <2>3, CreateLinkKeeps
  <2>4. CASE CreateStore
    BY <2>4, CreateStoreKeeps
  <2>5. CASE CreateStoreOverrun
    BY <2>5, CreateStoreOverrunKeeps
  <2>6. ASSUME NEW k \in Closable, fs_close(k)
        PROVE  InductiveInv'
    BY <2>6, CloseKeeps
  <2>7. CASE Restart
    BY <2>7, RestartKeeps
  <2>8. CASE UNCHANGED vars
    BY <2>8, StutterKeeps
  <2>9. QED
    BY <2>1, <2>2, <2>3, <2>4, <2>5, <2>6, <2>7, <2>8 DEF Next
<1>2. Init => InductiveInv
  BY InitHolds
<1>3. QED
  BY <1>1, <1>2, PTL DEF Spec

\* Type correctness: every variable keeps its type, and the count of open files
\* is that of the descriptors held.
THEOREM TypeCorrectness == Spec => []TypeOK
<1>1. InductiveInv => TypeOK
  BY DEF InductiveInv
<1>2. QED
  BY <1>1, Invariance, PTL

\* The blocks of the inodes on the device are marked used at every point where the
\* process may be killed.
THEOREM BlocksAreMarked == Spec => []BlocksMarked
<1>1. InductiveInv => BlocksMarked
  BY DEF InductiveInv
<1>2. QED
  BY <1>1, Invariance, PTL

\* No two inodes on the device share a block, at every point where the process may
\* be killed.
THEOREM BlocksAreNotShared == Spec => []NoSharedBlocks
<1>1. InductiveInv => NoSharedBlocks
  BY DEF InductiveInv
<1>2. QED
  BY <1>1, Invariance, PTL

\* As long as the inode numbers in use fit a dirent, the directory names
\* allocated inodes, each once, whenever the process may be killed.
THEOREM DirectoryIsConsistent == Spec => []DirectoryConsistent
<1>1. InductiveInv => DirectoryConsistent
  <2> SUFFICES ASSUME InductiveInv, ibmap \subseteq 0 .. INUM_RANGE - 1
               PROVE  LinkedIn(dir, ibmap)
    BY DEF DirectoryConsistent
  <2>1. Settled \subseteq ibmap
    BY DEF Settled
  <2>2. LinkedIn(dir, Settled)
    BY <2>1 DEF InductiveInv, DirectoryInv
  <2>3. QED
    BY <2>1, <2>2, LinkedIsMonotone
<1>2. QED
  BY <1>1, Invariance, PTL

\* The first block slot is free when a call reads a block, so that no read fails
\* for want of a slot.
THEOREM ReadsSucceed == Spec => []BufferZeroFree
<1>1. InductiveInv => BufferZeroFree
  BY DEF InductiveInv
<1>2. QED
  BY <1>1, Invariance, PTL

\* A process that dies has run out of inode slots or was given a relative path.
THEOREM DeathsHaveCauses == Spec => []NullDerefCause
<1>1. InductiveInv => NullDerefCause
  BY DEF InductiveInv
<1>2. QED
  BY <1>1, Invariance, PTL

(***************************************************************************)
(* The two pools: a lookup that leaks a slot of the block pool locks two of *)
(* the inode pool, so that the inodes run out first.                       *)
(***************************************************************************)

\* BufferLeakBound, of one memory.
Paid(m) == 2 * Cardinality(m.bufs) <= Cardinality(m.slots)

\* With the first slot free a block is read into it and freed with it.
LEMMA UseBlockLeavesAll ==
  ASSUME NEW bufs \in SUBSET BlockSlots, 0 \notin bufs
  PROVE  /\ BlockFor(bufs) = 0
         /\ inmem_read_block(bufs) = bufs \cup {0}
         /\ UseBlock(bufs) = bufs
<1>1. INMEM_BLOCKS_NUM \in Nat \ {0}
  BY SizesAssumption, DeviceAssumption
<1>2. ~(0 .. INMEM_BLOCKS_NUM - 1 \subseteq bufs)
  BY <1>1
<1>3. \E i \in 0 .. INMEM_BLOCKS_NUM - 1 : i \notin bufs /\ \A j \in 0 .. i - 1 : j \in bufs
  <2>1. 0 \in 0 .. INMEM_BLOCKS_NUM - 1 /\ 0 .. 0 - 1 = {}
    BY <1>1
  <2> QED
    BY <2>1
<1>4. \A i \in 0 .. INMEM_BLOCKS_NUM - 1 : (\A j \in 0 .. i - 1 : j \in bufs) => i = 0
  <2> SUFFICES ASSUME NEW i \in 0 .. INMEM_BLOCKS_NUM - 1, i # 0
               PROVE  0 \in 0 .. i - 1
    OBVIOUS
  <2> QED
    BY <1>1
<1>5. BlockFor(bufs) = 0
  BY <1>2, <1>3, <1>4 DEF BlockFor, FirstUnused
<1>6. 0 # NULL
  BY DEF NULL
<1> QED
  BY <1>5, <1>6 DEF inmem_read_block, UseBlock, inmem_block_free

LEMMA SlotsAreFinite ==
  /\ \A bufs \in SUBSET BlockSlots : IsFiniteSet(bufs) /\ Cardinality(bufs) \in Nat
  /\ \A slots \in SUBSET InodeSlots : IsFiniteSet(slots) /\ Cardinality(slots) \in Nat
<1>1. INMEM_BLOCKS_NUM \in Nat /\ INMEM_INODES_NUM \in Nat
  BY SizesAssumption, DeviceAssumption
<1>2. IsFiniteSet(BlockSlots) /\ IsFiniteSet(InodeSlots)
  BY <1>1, FS_Interval DEF BlockSlots, InodeSlots
<1> QED
  BY <1>2, FS_Subset, FS_CardinalityType

\* More inode slots pay for what fewer paid for.
LEMMA MoreSlotsPay ==
  ASSUME NEW m \in Memory, Paid(m), NEW n \in Memory,
         n.bufs = m.bufs, m.slots \subseteq n.slots
  PROVE  Paid(n)
<1>1. m.slots \in SUBSET InodeSlots /\ n.slots \in SUBSET InodeSlots /\ m.bufs \in SUBSET BlockSlots
  BY DEF Memory
<1>2. Cardinality(m.slots) <= Cardinality(n.slots)
  BY <1>1, SlotsAreFinite, FS_Subset
<1>3. Cardinality(m.slots) \in Nat /\ Cardinality(n.slots) \in Nat /\ Cardinality(m.bufs) \in Nat
  BY <1>1, SlotsAreFinite
<1> QED
  BY <1>2, <1>3 DEF Paid

\* Two inode slots pay for a block slot.
LEMMA TwoSlotsPay ==
  ASSUME NEW m \in Memory, Paid(m), NEW n \in Memory,
         NEW b \in BlockSlots, n.bufs \subseteq m.bufs \cup {b},
         NEW p \in InodeSlots, NEW c \in InodeSlots, p # c,
         p \notin m.slots, c \notin m.slots, m.slots \cup {p, c} \subseteq n.slots
  PROVE  Paid(n)
<1>1. /\ m.slots \in SUBSET InodeSlots /\ n.slots \in SUBSET InodeSlots
      /\ m.bufs \in SUBSET BlockSlots /\ n.bufs \in SUBSET BlockSlots
  BY DEF Memory
<1>2. IsFiniteSet(m.slots) /\ IsFiniteSet(n.slots) /\ IsFiniteSet(m.bufs) /\ IsFiniteSet(n.bufs)
  BY <1>1, SlotsAreFinite
<1>3. Cardinality(n.bufs) <= Cardinality(m.bufs) + 1
  <2>1. IsFiniteSet(m.bufs \cup {b}) /\ Cardinality(m.bufs \cup {b}) <= Cardinality(m.bufs) + 1
    <3>1. Cardinality(m.bufs) \in Nat
      BY <1>2, FS_CardinalityType
    <3>2. /\ IsFiniteSet(m.bufs \cup {b})
          /\ Cardinality(m.bufs \cup {b}) \in {Cardinality(m.bufs), Cardinality(m.bufs) + 1}
      BY <1>2, FS_AddElement
    <3> QED
      BY <3>1, <3>2
  <2>2. Cardinality(n.bufs) <= Cardinality(m.bufs \cup {b})
    BY <2>1, FS_Subset
  <2> QED
    BY <1>2, <2>1, <2>2, FS_CardinalityType
<1>4. Cardinality(n.slots) >= Cardinality(m.slots) + 2
  <2>1. /\ IsFiniteSet(m.slots \cup {p})
        /\ Cardinality(m.slots \cup {p}) = Cardinality(m.slots) + 1
    BY <1>2, FS_AddElement
  <2>2. /\ IsFiniteSet((m.slots \cup {p}) \cup {c})
        /\ Cardinality((m.slots \cup {p}) \cup {c}) = Cardinality(m.slots) + 1 + 1
    BY <2>1, FS_AddElement
  <2>3. Cardinality((m.slots \cup {p}) \cup {c}) <= Cardinality(n.slots)
    <3>1. (m.slots \cup {p}) \cup {c} \subseteq n.slots
      OBVIOUS
    <3> QED
      BY <1>2, <3>1, FS_Subset
  <2> QED
    BY <1>2, <2>2, <2>3, FS_CardinalityType
<1>5. /\ Cardinality(m.slots) \in Nat /\ Cardinality(n.slots) \in Nat
      /\ Cardinality(m.bufs) \in Nat /\ Cardinality(n.bufs) \in Nat
  BY <1>2, FS_CardinalityType
<1> QED
  BY <1>3, <1>4, <1>5 DEF Paid

-----------------------------------------------------------------------------
(* The lookups.                                                            *)

\* The block of the inode table is freed, or was not to be had.
LEMMA GetByInumLeaks ==
  ASSUME NEW m \in Memory, NEW inum
  PROVE  LET got == fs_get_inode_by_inum(m, inum)
         IN  ~got.fault =>
               /\ \/ got.mem.bufs = m.bufs
                  \/ got.mem.bufs = UseBlock(m.bufs) /\ got.ip # NULL
               /\ \E slots, inode :
                    got.mem = [bufs |-> got.mem.bufs, slots |-> slots, inode |-> inode]
<1> DEFINE got == fs_get_inode_by_inum(m, inum)
           locked == [m EXCEPT !.slots = inmem_lock_inode(@)]
<1>1. CASE inum >= MAXFILES \/ BlockFor(m.bufs) = NULL
  <2>1. got.mem = locked
    BY <1>1 DEF fs_get_inode_by_inum, Outcome
  <2>2. got.mem = [bufs |-> m.bufs, slots |-> inmem_lock_inode(m.slots), inode |-> m.inode]
    BY <2>1 DEF Memory
  <2> HIDE DEF got, locked
  <2>3. got.mem.bufs = m.bufs
    BY <2>2
  <2> QED
    BY <2>2, <2>3 DEF got
<1>2. CASE ~(inum >= MAXFILES \/ BlockFor(m.bufs) = NULL) /\ InodeFor(m.slots) = NULL
  BY <1>2 DEF fs_get_inode_by_inum, Outcome
<1>3. CASE ~(inum >= MAXFILES \/ BlockFor(m.bufs) = NULL) /\ InodeFor(m.slots) # NULL
  <2>1. /\ got.mem = [locked EXCEPT !.bufs = UseBlock(@), !.inode[InodeFor(m.slots)] = dinode[inum]]
        /\ got.ip = InodeFor(m.slots)
    BY <1>3 DEF fs_get_inode_by_inum, Outcome
  <2>2. got.mem = [bufs  |-> UseBlock(m.bufs),
                   slots |-> inmem_lock_inode(m.slots),
                   inode |-> [m.inode EXCEPT ![InodeFor(m.slots)] = dinode[inum]]]
    BY <2>1 DEF Memory
  <2> QED
    BY <1>3, <2>1, <2>2
<1> QED
  BY <1>1, <1>2, <1>3

\* The block with the name is not the one that is freed when its inode is there.
LEMMA FindInDirLeaks ==
  ASSUME NEW m \in Memory, 0 \notin m.bufs, NEW parent, NEW name
  PROVE  LET got == fs_find_inode_in_dir(m, parent, name)
         IN  ~got.fault => \/ got.mem.bufs = m.bufs
                           \/ /\ parent # NULL /\ got.ip # NULL
                              /\ \E b \in BlockSlots : got.mem.bufs \subseteq m.bufs \cup {b}
<1> DEFINE got  == fs_find_inode_in_dir(m, parent, name)
           hits == Hits(m.inode[parent], name)
           held == [m EXCEPT !.bufs = inmem_read_block(@)]
<1>1. /\ m.bufs \in SUBSET BlockSlots
      /\ inmem_read_block(m.bufs) = m.bufs \cup {0}
      /\ UseBlock(m.bufs) = m.bufs
      /\ 0 \in BlockSlots
  <2>1. m.bufs \in SUBSET BlockSlots
    BY DEF Memory
  <2>2. 0 \in BlockSlots
    BY SizesAssumption, DeviceAssumption DEF BlockSlots
  <2> QED
    BY <2>1, <2>2, UseBlockLeavesAll
<1>2. CASE parent = NULL
  BY <1>2 DEF fs_find_inode_in_dir, Outcome
<1>3. CASE parent # NULL /\ (m.inode[parent].type # TYPE_DIR \/ BlockFor(m.bufs) = NULL)
  BY <1>3 DEF fs_find_inode_in_dir, Outcome
<1>4. CASE /\ parent # NULL /\ m.inode[parent].type = TYPE_DIR /\ BlockFor(m.bufs) # NULL
           /\ hits = {}
  <2>1. got.mem = [m EXCEPT !.bufs = UseBlock(m.bufs)]
    BY <1>4 DEF fs_find_inode_in_dir, Outcome
  <2> QED
    BY <1>1, <2>1 DEF Memory
<1>5. CASE /\ parent # NULL /\ m.inode[parent].type = TYPE_DIR /\ BlockFor(m.bufs) # NULL
           /\ hits # {}
  <2> DEFINE i     == CHOOSE i \in hits : \A j \in hits : i <= j
             child == fs_get_inode_by_inum(held, dir[<<i, 0>>].inum)
  <2>1. got = IF child.fault THEN child
              ELSE Outcome([child.mem EXCEPT !.bufs = inmem_block_free(@)], child.ip, FALSE)
    BY <1>5 DEF fs_find_inode_in_dir
  <2>2. held \in Memory /\ held.bufs = m.bufs \cup {0}
    BY <1>1 DEF Memory
  <2> HIDE DEF i, held
  <2>3. ~child.fault => \/ child.mem.bufs = held.bufs
                        \/ child.mem.bufs = UseBlock(held.bufs) /\ child.ip # NULL
    BY <2>2, GetByInumLeaks
  <2>4. \E b \in BlockSlots : UseBlock(held.bufs) \subseteq m.bufs \cup {b}
    <3>1. held.bufs \in SUBSET BlockSlots
      BY <1>1, <2>2
    <3>2. BlockFor(held.bufs) \in BlockSlots \cup {NULL}
      BY <3>1, BlockForIs
    <3>3. UseBlock(held.bufs) = (m.bufs \cup {0} \cup ({BlockFor(held.bufs)} \ {NULL})) \ {0}
      BY <2>2 DEF UseBlock, inmem_read_block, inmem_block_free
    <3>4. CASE BlockFor(held.bufs) = NULL
      BY <1>1, <3>3, <3>4
    <3>5. CASE BlockFor(held.bufs) \in BlockSlots
      BY <3>3, <3>5
    <3> QED
      BY <3>2, <3>4, <3>5
  <2>5. ~child.fault => \E slots, inode :
             child.mem = [bufs |-> child.mem.bufs, slots |-> slots, inode |-> inode]
    BY <2>2, GetByInumLeaks
  <2> HIDE DEF child
  <2>6. CASE child.fault
    BY <2>1, <2>6
  <2>7. CASE ~child.fault
    <3>1. /\ got.mem = [child.mem EXCEPT !.bufs = inmem_block_free(@)]
          /\ got.ip = child.ip
      BY <2>1, <2>7 DEF Outcome
    <3>2. got.mem.bufs = child.mem.bufs \ {0}
      BY <2>5, <2>7, <3>1 DEF inmem_block_free
    <3>3. CASE child.mem.bufs = held.bufs
      BY <2>2, <3>2, <3>3
    <3>4. CASE child.mem.bufs = UseBlock(held.bufs) /\ child.ip # NULL
      BY <1>5, <2>4, <3>1, <3>2, <3>4
    <3> QED
      BY <2>3, <2>7, <3>3, <3>4
  <2> QED
    BY <2>6, <2>7
<1> QED
  BY <1>2, <1>3, <1>4, <1>5

\* The root is fetched into a block that is freed.
LEMMA ParentLeaksNothing ==
  ASSUME NEW m \in Memory, 0 \notin m.bufs, NEW path
  PROVE  LET got == ParentOf(m, path)
         IN  ~got.fault => got.mem.bufs = m.bufs
<1>1. UseBlock(m.bufs) = m.bufs
  BY UseBlockLeavesAll DEF Memory
<1>2. CASE path.rooted
  BY <1>1, <1>2, GetByInumLeaks DEF ParentOf
<1>3. CASE ~path.rooted
  BY <1>3 DEF ParentOf, Outcome
<1> QED
  BY <1>2, <1>3

\* A path whose inode is found has locked its parent's slot and its own.
LEMMA GetInodePays ==
  ASSUME NEW m \in Memory, CleanIn(m), DeviceTyped, 0 \notin m.bufs, Paid(m),
         NEW path \in Path
  PROVE  LET got == fs_get_inode(m, path)
         IN  ~got.fault => Paid(got.mem)
<1> DEFINE got    == fs_get_inode(m, path)
           parent == ParentOf(m, path)
           child  == fs_find_inode_in_dir(parent.mem, parent.ip, path.name)
<1>1. CASE IsEmpty(path)
  BY <1>1 DEF fs_get_inode, Outcome
<1>2. CASE ~IsEmpty(path)
  <2>1. got = IF parent.fault THEN parent
              ELSE IF child.fault THEN child
              ELSE Outcome([child.mem EXCEPT !.slots = inmem_free_inode(@, parent.ip)],
                           child.ip, FALSE)
    BY <1>2 DEF fs_get_inode
  <2>2. Contract(m, parent)
    BY ParentIs
  <2>3. ~parent.fault => parent.mem.bufs = m.bufs
    BY ParentLeaksNothing
  <2> HIDE DEF parent
  <2>4. CASE parent.fault \/ child.fault
    BY <2>1, <2>4
  <2>5. CASE ~parent.fault /\ ~child.fault
    <3>1. /\ parent.mem \in Memory /\ CleanIn(parent.mem) /\ 0 \notin parent.mem.bufs
          /\ parent.ip \in InodeSlots \cup {NULL}
      BY <2>2, <2>5 DEF Contract, Memory
    <3>2. Contract(parent.mem, child)
      BY <3>1, FindInDir
    <3>3. \/ child.mem.bufs = m.bufs
          \/ /\ parent.ip # NULL /\ child.ip # NULL
             /\ \E b \in BlockSlots : child.mem.bufs \subseteq m.bufs \cup {b}
      BY <2>3, <2>5, <3>1, FindInDirLeaks
    <3> HIDE DEF child
    <3> DEFINE left == [child.mem EXCEPT !.slots = inmem_free_inode(@, parent.ip)]
    <3>4. got.mem = left
      BY <2>1, <2>5 DEF Outcome
    <3>5. child.mem \in Memory /\ child.mem.slots \in SUBSET InodeSlots
      BY <3>2 DEF Contract, Memory
    <3>6. /\ left \in Memory /\ left.bufs = child.mem.bufs
          /\ child.mem.slots \subseteq left.slots
      BY <3>1, <3>5 DEF Memory, inmem_free_inode
    <3>7. m.slots \subseteq parent.mem.slots /\ parent.mem.slots \subseteq child.mem.slots
      BY <2>2, <3>2 DEF Contract
    <3> HIDE DEF left, got
    <3>8. ASSUME child.mem.bufs = m.bufs
          PROVE  Paid(got.mem)
      <4>1. left.bufs = m.bufs /\ m.slots \subseteq left.slots
        BY <3>6, <3>7, <3>8
      <4>2. Paid(left)
        BY <3>6, <4>1, MoreSlotsPay
      <4> QED
        BY <3>4, <4>2
    <3>9. ASSUME parent.ip # NULL, child.ip # NULL,
                 NEW b \in BlockSlots, child.mem.bufs \subseteq m.bufs \cup {b}
          PROVE  Paid(got.mem)
      <4>1. /\ parent.ip \in parent.mem.slots \ m.slots
            /\ child.ip \in child.mem.slots \ parent.mem.slots
        BY <2>2, <3>2, <3>9 DEF Contract
      <4>2. /\ parent.ip \in InodeSlots /\ child.ip \in InodeSlots /\ parent.ip # child.ip
            /\ parent.ip \notin m.slots /\ child.ip \notin m.slots
            /\ m.slots \cup {parent.ip, child.ip} \subseteq left.slots
        BY <3>1, <3>5, <3>6, <3>7, <3>9, <4>1
      <4>3. left.bufs \subseteq m.bufs \cup {b}
        BY <3>6, <3>9
      <4> QED
        BY <3>4, <3>6, <4>2, <4>3, TwoSlotsPay
    <3> QED
      BY <3>3, <3>8, <3>9 DEF got
  <2> QED
    BY <2>4, <2>5
<1> QED
  BY <1>1, <1>2

-----------------------------------------------------------------------------
(* The calls.                                                              *)

\* What a step does to the memory when it is no lookup.
LEMMA OtherStepsPay ==
  ASSUME NEW m \in Memory, Paid(m), NEW n \in Memory, 0 \notin m.bufs,
         n.bufs \in {m.bufs, UseBlock(m.bufs)}, m.slots \subseteq n.slots
  PROVE  Paid(n)
BY MoreSlotsPay, UseBlockLeavesAll DEF Memory

LEMMA OpenPays ==
  ASSUME InductiveInv, BufferLeakBound, NEW path \in Paths, NEW flags \in Flags,
         Open(path, flags)
  PROVE  BufferLeakBound'
<1> DEFINE got == fs_get_inode(mem, path)
<1>1. /\ mem \in Memory /\ CleanIn(mem) /\ DeviceTyped
      /\ pc = "ready" /\ 0 \notin mem.bufs /\ Paid(mem)
  BY Usual DEF Open, CanOpen, Running, BufferLeakBound, Paid
<1>2. Contract(mem, got) /\ (~got.fault => Paid(got.mem))
  BY <1>1, SizesAssumption, DeviceAssumption, GetInode, GetInodePays
<1>3. \/ pc' = "dead"
      \/ ~got.fault /\ mem' = got.mem
      \/ ~got.fault /\ got.ip # NULL /\ mem' = TruncatedMem(got.mem, got.ip)
  BY DEF Open, Granted, Die
<1> HIDE DEF got
<1>4. CASE pc' = "dead"
  BY <1>4 DEF BufferLeakBound, Running
<1>5. CASE ~got.fault /\ mem' = got.mem
  BY <1>2, <1>5 DEF BufferLeakBound, Paid
<1>6. CASE ~got.fault /\ got.ip # NULL /\ mem' = TruncatedMem(got.mem, got.ip)
  <2>1. /\ got.mem \in Memory /\ CleanIn(got.mem) /\ 0 \notin got.mem.bufs
        /\ got.ip \in InodeSlots
    BY <1>1, <1>2, <1>6 DEF Contract, Memory
  <2>2. mem' \in Memory /\ mem'.slots = got.mem.slots
    BY <1>6, <2>1, TruncateMemory
  <2>3. mem'.bufs \in {got.mem.bufs, UseBlock(got.mem.bufs)}
    BY <1>6, <2>1 DEF TruncatedMem, Memory
  <2>4. Paid(mem')
    BY <1>2, <1>6, <2>1, <2>2, <2>3, OtherStepsPay
  <2> QED
    BY <2>4 DEF BufferLeakBound, Paid
<1> QED
  BY <1>3, <1>4, <1>5, <1>6

LEMMA CreateAllocPays ==
  ASSUME InductiveInv, BufferLeakBound, NEW path \in Paths, NEW flags \in Flags,
         CreateAlloc(path, flags)
  PROVE  BufferLeakBound'
<1> DEFINE parent == ParentOf(mem, path)
           m      == parent.mem
<1>1. /\ mem \in Memory /\ CleanIn(mem) /\ DeviceTyped
      /\ pc = "ready" /\ 0 \notin mem.bufs /\ Paid(mem)
  BY Usual DEF CreateAlloc, CanOpen, Running, BufferLeakBound, Paid
<1>2. Contract(mem, parent) /\ (~parent.fault => m.bufs = mem.bufs)
  BY <1>1, SizesAssumption, DeviceAssumption, ParentIs, ParentLeaksNothing
<1>3. \/ pc' = "dead"
      \/ ~parent.fault /\ (mem' = m \/ mem' = [m EXCEPT !.bufs = UseBlock(@)])
  BY DEF CreateAlloc, Die
<1> HIDE DEF parent
<1>4. CASE pc' = "dead"
  BY <1>4 DEF BufferLeakBound, Running
<1>5. CASE ~parent.fault /\ (mem' = m \/ mem' = [m EXCEPT !.bufs = UseBlock(@)])
  <2>1. m \in Memory /\ mem.slots \subseteq m.slots /\ m.bufs = mem.bufs
    BY <1>2, <1>5 DEF Contract
  <2> HIDE DEF m
  <2>2. mem.bufs \in SUBSET BlockSlots /\ UseBlock(mem.bufs) = mem.bufs
    BY <1>1, UseBlockLeavesAll DEF Memory
  <2>3. mem' \in Memory /\ mem'.slots = m.slots /\ mem'.bufs = mem.bufs
    BY <1>5, <2>1, <2>2 DEF Memory
  <2>4. Paid(mem')
    BY <1>1, <2>1, <2>3, MoreSlotsPay
  <2> QED
    BY <2>4 DEF BufferLeakBound, Paid
<1> QED
  BY <1>3, <1>4, <1>5

LEMMA AbandonPays ==
  ASSUME InductiveInv, NEW m \in Memory, Paid(m), 0 \notin m.bufs, AbandonCreate(m)
  PROVE  BufferLeakBound'
<1>1. m.bufs \in SUBSET BlockSlots /\ m.slots \in SUBSET InodeSlots
  BY DEF Memory
<1>2. call.parent \in InodeSlots \cup {NULL}
  BY DEF InductiveInv, TypeOK
<1>3. UseBlock(m.bufs) = m.bufs /\ BlockFor(m.bufs) = 0
  BY <1>1, UseBlockLeavesAll
<1>4. mem' = [m EXCEPT !.bufs = m.bufs, !.slots = inmem_free_inode(m.slots, call.parent)]
  BY <1>3 DEF AbandonCreate
<1>5. /\ inmem_free_inode(m.slots, call.parent) \in SUBSET InodeSlots
      /\ m.slots \subseteq inmem_free_inode(m.slots, call.parent)
  BY <1>1, <1>2 DEF inmem_free_inode
<1>6. mem' \in Memory /\ mem'.bufs = m.bufs /\ m.slots \subseteq mem'.slots
  BY <1>4, <1>5 DEF Memory
<1>7. Paid(mem')
  BY <1>6, MoreSlotsPay
<1> QED
  BY <1>7 DEF BufferLeakBound, Paid

LEMMA CreateLinkPays ==
  ASSUME InductiveInv, BufferLeakBound, CreateLink
  PROVE  BufferLeakBound'
<1> DEFINE child  == InodeFor(mem.slots)
           locked == [mem EXCEPT !.slots = inmem_lock_inode(@), !.inode[child].type = TYPE_FILE]
           used   == [locked EXCEPT !.bufs = UseBlock(@)]
<1>1. mem \in Memory /\ CleanIn(mem) /\ 0 \notin mem.bufs /\ Paid(mem)
  BY Usual DEF CreateLink, Running, BufferLeakBound, Paid
<1>2. \/ child = NULL /\ AbandonCreate(mem)
      \/ Die(locked, call.path, call.flags)
      \/ child # NULL /\ AbandonCreate(locked)
      \/ child # NULL /\ AbandonCreate(used)
      \/ child # NULL /\ mem' = used
  BY DEF CreateLink
<1>3. /\ mem.bufs \in SUBSET BlockSlots /\ mem.slots \in SUBSET InodeSlots
      /\ UseBlock(mem.bufs) = mem.bufs
  BY <1>1, UseBlockLeavesAll DEF Memory
<1>4. mem.slots \subseteq inmem_lock_inode(mem.slots)
  BY <1>3, InodeForIs
<1>5. child # NULL => locked \in Memory /\ CleanIn(locked) /\ locked.bufs = mem.bufs
                      /\ mem.slots \subseteq locked.slots
  BY <1>1, <1>4, ChildLocked
<1> HIDE DEF child, locked
<1>6. child # NULL => used \in Memory /\ used.bufs = mem.bufs /\ mem.slots \subseteq used.slots
  BY <1>3, <1>5 DEF Memory
<1> HIDE DEF used
<1>7. child # NULL => Paid(locked) /\ Paid(used)
  BY <1>1, <1>5, <1>6, MoreSlotsPay
<1>8. CASE Die(locked, call.path, call.flags)
  BY <1>8 DEF Die, BufferLeakBound, Running
<1>9. CASE child # NULL /\ mem' = used
  BY <1>7, <1>9 DEF BufferLeakBound, Paid
<1>10. CASE child = NULL /\ AbandonCreate(mem)
  BY <1>1, <1>10, AbandonPays
<1>11. CASE child # NULL /\ AbandonCreate(locked)
  BY <1>1, <1>5, <1>7, <1>11, AbandonPays
<1>12. CASE child # NULL /\ AbandonCreate(used)
  BY <1>1, <1>6, <1>7, <1>12, AbandonPays
<1> QED
  BY <1>2, <1>8, <1>9, <1>10, <1>11, <1>12

LEMMA CreateStorePays ==
  ASSUME InductiveInv, BufferLeakBound, CreateStore
  PROVE  BufferLeakBound'
<1>1. mem \in Memory /\ 0 \notin mem.bufs /\ Paid(mem)
  BY Usual DEF CreateStore, Running, BufferLeakBound, Paid
<1>2. call.parent \in InodeSlots \cup {NULL}
  BY DEF InductiveInv, TypeOK
<1>3. /\ mem.bufs \in SUBSET BlockSlots /\ mem.slots \in SUBSET InodeSlots
      /\ UseBlock(mem.bufs) = mem.bufs
  BY <1>1, UseBlockLeavesAll DEF Memory
<1>4. mem' = [mem EXCEPT !.bufs = mem.bufs, !.slots = inmem_free_inode(mem.slots, call.parent)]
  BY <1>3 DEF CreateStore
<1>5. mem' \in Memory /\ mem'.bufs = mem.bufs /\ mem.slots \subseteq mem'.slots
  BY <1>1, <1>2, <1>3, <1>4 DEF Memory, inmem_free_inode
<1>6. Paid(mem')
  BY <1>1, <1>5, MoreSlotsPay
<1> QED
  BY <1>6 DEF BufferLeakBound, Paid

LEMMA ClosePays ==
  ASSUME InductiveInv, BufferLeakBound, NEW k \in Closable, fs_close(k)
  PROVE  BufferLeakBound'
<1>1. mem \in Memory /\ Paid(mem)
  BY Usual DEF fs_close, Running, BufferLeakBound, Paid
<1>2. opens[k] \in Fds
  BY Usual DEF TableTyped, Closable
<1>3. files[opens[k]].ip \in InodeSlots \cup {NULL}
  BY <1>2, Usual DEF TableTyped, File
<1>4. mem' \in Memory /\ mem'.bufs = mem.bufs /\ mem.slots \subseteq mem'.slots
  BY <1>1, <1>3 DEF fs_close, inmem_free_inode, Memory
<1>5. Paid(mem')
  BY <1>1, <1>4, MoreSlotsPay
<1> QED
  BY <1>5 DEF BufferLeakBound, Paid

\* The slot that the next read takes is free, and every slot of the block pool
\* that is lost was lost with two of the inode pool: with pools of one size, as in
\* the code, a process is out of inodes before it is out of blocks
\* (main.c:230-270, 470-474).
THEOREM BlocksOutlastInodes == Spec => []BufferPoolLasts
<1>1. InductiveInv /\ BufferLeakBound /\ [Next]_vars => BufferLeakBound'
  <2> SUFFICES ASSUME InductiveInv, BufferLeakBound, [Next]_vars
               PROVE  BufferLeakBound'
    OBVIOUS
  <2>1. ASSUME NEW path \in Paths, NEW flags \in Flags, Open(path, flags)
        PROVE  BufferLeakBound'
    BY <2>1, OpenPays
  <2>2. ASSUME NEW path \in Paths, NEW flags \in Flags, CreateAlloc(path, flags)
        PROVE  BufferLeakBound'
    BY <2>2, CreateAllocPays
  <2>3. CASE CreateLink
    BY <2>3, CreateLinkPays
  <2>4. CASE CreateStore
    BY <2>4, CreateStorePays
  <2>5. CASE CreateStoreOverrun
    BY <2>5 DEF CreateStoreOverrun, BufferLeakBound, Running
  <2>6. ASSUME NEW k \in Closable, fs_close(k)
        PROVE  BufferLeakBound'
    BY <2>6, ClosePays
  <2>7. CASE Restart
    BY <2>7, FS_EmptySet DEF Restart, FreshMemory, BufferLeakBound
  <2>8. CASE UNCHANGED vars
    BY <2>8 DEF vars, BufferLeakBound, Running
  <2> QED
    BY <2>1, <2>2, <2>3, <2>4, <2>5, <2>6, <2>7, <2>8 DEF Next
<1>2. Init => BufferLeakBound
  BY FS_EmptySet DEF Init, FreshMemory, BufferLeakBound
<1>3. InductiveInv /\ BufferLeakBound => BufferPoolLasts
  BY DEF InductiveInv, BufferPoolLasts
<1> QED
  BY <1>1, <1>2, <1>3, Invariance, PTL DEF Spec

(***************************************************************************)
(* The descriptor table: the in-memory inodes of the open files are locked *)
(* and distinct whatever the clients do, and with clients that close the   *)
(* last descriptor they opened the table implements DescriptorTable.       *)
(***************************************************************************)

\* A step that locks more slots and leaves the table and the call's inodes alone.
LEMMA MoreLocked ==
  ASSUME LiveInodesLocked, mem.slots \subseteq mem'.slots, UNCHANGED files,
         \/ UNCHANGED call /\ (pc' = "store" => pc = "store")
         \/ call'.parent = NULL /\ call'.child = NULL /\ pc' # "store"
  PROVE  LiveInodesLocked'
BY DEF LiveInodesLocked, Live

\* fs_open ends with a descriptor for an inode that was not locked before it, or
\* that is the child of the creation.
LEMMA TakeNew ==
  ASSUME LiveInodesLocked, TableTyped, opened_files_cnt # MAX_FILES_OPENED,
         NEW ip \in InodeSlots, NEW flags, TakeDescriptor(ip, flags),
         \A fd \in Live : files[fd].ip # ip,
         mem.slots \cup {ip} \subseteq mem'.slots,
         pc' = "ready", call' = NoCall
  PROVE  LiveInodesLocked'
<1>1. opened_files_cnt \in Fds
  BY SizesAssumption, DeviceAssumption DEF TableTyped, Fds
<1>2. /\ \A fd \in Fds : fd # opened_files_cnt => files'[fd] = files[fd]
      /\ files'[opened_files_cnt].ip = ip
  BY <1>1 DEF TableTyped, TakeDescriptor
<1>3. Live' \subseteq Live \cup {opened_files_cnt}
  BY <1>2 DEF Live
<1>4. \A fd \in Live' : \/ fd = opened_files_cnt /\ files'[fd].ip = ip
                        \/ fd \in Live /\ files'[fd].ip = files[fd].ip
  BY <1>2, <1>3 DEF Live
<1>5. {files'[fd].ip : fd \in Live'} \subseteq mem'.slots
  BY <1>4 DEF LiveInodesLocked
<1>6. \A f, g \in Live' : files'[f].ip = files'[g].ip => f = g
  BY <1>4 DEF LiveInodesLocked
<1>7. QED
  BY <1>5, <1>6 DEF LiveInodesLocked, NoCall

LEMMA OpenLocks ==
  ASSUME InductiveInv, LiveInodesLocked, NEW path \in Paths, NEW flags \in Flags,
         Open(path, flags)
  PROVE  LiveInodesLocked'
<1> DEFINE got == fs_get_inode(mem, path)
<1>1. /\ mem \in Memory /\ CleanIn(mem) /\ DeviceTyped /\ TableTyped
  BY Usual
<1>2. /\ pc = "ready" /\ opened_files_cnt # MAX_FILES_OPENED /\ call = NoCall
      /\ 0 \notin mem.bufs
  BY Usual DEF Open, CanOpen, Running, InductiveInv, CallInv
<1>3. Contract(mem, got)
  BY <1>1, <1>2, SizesAssumption, DeviceAssumption, GetInode
<1>4. /\ mem.slots \subseteq got.mem.slots
      /\ got.ip # NULL => got.ip \in got.mem.slots \ mem.slots /\ got.ip \in InodeSlots
  BY <1>3 DEF Contract, Memory
<1>5. \/ Die(got.mem, path, flags)
      \/ mem' = got.mem /\ UNCHANGED <<table, pc, call>>
      \/ /\ ~got.fault /\ got.ip # NULL
         /\ mem' = TruncatedMem(got.mem, got.ip) \/ mem' = got.mem
         /\ TakeDescriptor(got.ip, flags)
         /\ UNCHANGED <<pc, call>>
  BY DEF Open, Granted
<1> HIDE DEF got
<1>6. CASE Die(got.mem, path, flags)
  BY <1>4, <1>6, MoreLocked DEF Die, table, NoCall
<1>7. CASE mem' = got.mem /\ UNCHANGED <<table, pc, call>>
  BY <1>4, <1>7, MoreLocked DEF table
<1>8. CASE /\ ~got.fault /\ got.ip # NULL
           /\ mem' = TruncatedMem(got.mem, got.ip) \/ mem' = got.mem
           /\ TakeDescriptor(got.ip, flags)
           /\ UNCHANGED <<pc, call>>
  <2>1. got.mem \in Memory /\ CleanIn(got.mem) /\ 0 \notin got.mem.bufs
    BY <1>2, <1>3, <1>8 DEF Contract
  <2>2. mem'.slots = got.mem.slots
    BY <1>4, <1>8, <2>1, TruncateMemory
  <2>3. \A fd \in Live : files[fd].ip # got.ip
    BY <1>4, <1>8 DEF LiveInodesLocked
  <2>4. QED
    BY <1>1, <1>2, <1>4, <1>8, <2>2, <2>3, TakeNew
<1>9. QED
  BY <1>5, <1>6, <1>7, <1>8

LEMMA CreateAllocLocks ==
  ASSUME InductiveInv, LiveInodesLocked, NEW path \in Paths, NEW flags \in Flags,
         CreateAlloc(path, flags)
  PROVE  LiveInodesLocked'
<1> DEFINE parent == ParentOf(mem, path)
           m      == parent.mem
<1>1. /\ mem \in Memory /\ CleanIn(mem) /\ DeviceTyped
  BY Usual
<1>2. pc = "ready" /\ call = NoCall /\ 0 \notin mem.bufs
  BY Usual DEF CreateAlloc, CanOpen, Running, InductiveInv, CallInv
<1>3. Contract(mem, parent)
  BY <1>1, <1>2, SizesAssumption, DeviceAssumption, ParentIs
<1>4. /\ mem.slots \subseteq m.slots
      /\ parent.ip \in (m.slots \ mem.slots) \cup {NULL}
  BY <1>3 DEF Contract
<1>5. UNCHANGED files
  BY DEF CreateAlloc, table
<1>6. mem' = m \/ mem' = [m EXCEPT !.bufs = UseBlock(@)]
  BY DEF CreateAlloc, Die
<1>7. mem'.slots = m.slots
  <2>1. m \in Memory
    BY <1>3 DEF Contract
  <2> HIDE DEF m
  <2>2. QED
    BY <1>6, <2>1 DEF Memory
<1>8. \/ UNCHANGED <<pc, call>>
      \/ Die(m, path, flags)
      \/ \E inum \in {0, FirstUnused(ibmap, INODE_BITS)} :
           /\ pc' = "link"
           /\ call' = [path |-> path, flags |-> flags, inum |-> inum,
                       parent |-> parent.ip, child |-> NULL]
  BY DEF CreateAlloc
<1> HIDE DEF parent
<1>9. CASE UNCHANGED <<pc, call>>
  BY <1>2, <1>4, <1>5, <1>7, <1>9, MoreLocked
<1>10. CASE Die(m, path, flags)
  BY <1>4, <1>5, <1>7, <1>10, MoreLocked DEF Die, NoCall
<1>11. CASE \E inum \in {0, FirstUnused(ibmap, INODE_BITS)} :
              /\ pc' = "link"
              /\ call' = [path |-> path, flags |-> flags, inum |-> inum,
                          parent |-> parent.ip, child |-> NULL]
  BY <1>4, <1>5, <1>7, <1>11 DEF LiveInodesLocked, Live
<1>12. QED
  BY <1>8, <1>9, <1>10, <1>11

LEMMA CreateLinkLocks ==
  ASSUME InductiveInv, LiveInodesLocked, CreateLink
  PROVE  LiveInodesLocked'
<1> DEFINE child  == InodeFor(mem.slots)
           locked == [mem EXCEPT !.slots = inmem_lock_inode(@), !.inode[child].type = TYPE_FILE]
           read   == [locked EXCEPT !.bufs = UseBlock(@)]
<1>1. mem \in Memory /\ CleanIn(mem) /\ mem.slots \in SUBSET InodeSlots
  BY Usual
<1>2. /\ pc = "link" /\ UNCHANGED files
      /\ \/ child = NULL /\ AbandonCreate(mem)
         \/ child # NULL /\ Die(locked, call.path, call.flags)
         \/ child # NULL /\ AbandonCreate(locked)
         \/ child # NULL /\ AbandonCreate(read)
         \/ /\ child # NULL /\ mem' = read /\ call' = [call EXCEPT !.child = child]
            /\ pc' \in {"store", "overrun"}
  BY DEF CreateLink, AbandonCreate, Die, table
<1>3. call.parent \in InodeSlots \cup {NULL}
  BY DEF InductiveInv, TypeOK
<1>4. ASSUME child # NULL
      PROVE  /\ locked \in Memory /\ locked.slots = inmem_lock_inode(mem.slots)
             /\ read.slots = locked.slots /\ read \in Memory
             /\ mem.slots \subseteq locked.slots
             /\ child \in locked.slots \ mem.slots
  <2>1. locked \in Memory /\ CleanIn(locked) /\ locked.slots = inmem_lock_inode(mem.slots)
    BY <1>1, <1>4, ChildLocked
  <2>2. child \in inmem_lock_inode(mem.slots) \ mem.slots /\ mem.slots \subseteq inmem_lock_inode(mem.slots)
    BY <1>1, <1>4, InodeForIs
  <2> HIDE DEF locked, child
  <2>3. UseBlock(locked.bufs) \in SUBSET BlockSlots
    BY <2>1, UseBlockIs DEF Memory
  <2>4. read \in Memory /\ read.slots = locked.slots
    BY <2>1, <2>3, Adjusted
  <2>5. QED
    BY <2>1, <2>2, <2>4
<1>5. ASSUME NEW m \in Memory, mem.slots \subseteq m.slots, AbandonCreate(m)
      PROVE  LiveInodesLocked'
  <2>1. mem'.slots = inmem_free_inode(m.slots, call.parent)
    BY <1>5 DEF AbandonCreate, Memory
  <2>2. mem.slots \subseteq mem'.slots
    BY <1>5, <2>1 DEF inmem_free_inode
  <2>3. pc' = "ready" /\ call' = NoCall
    BY <1>5 DEF AbandonCreate
  <2>4. QED
    BY <1>2, <2>2, <2>3, MoreLocked DEF NoCall
<1> HIDE DEF child, locked, read
<1>6. CASE child = NULL /\ AbandonCreate(mem)
  BY <1>1, <1>5, <1>6
<1>7. CASE child # NULL /\ Die(locked, call.path, call.flags)
  BY <1>2, <1>4, <1>7, MoreLocked DEF Die, NoCall
<1>8. CASE child # NULL /\ (AbandonCreate(locked) \/ AbandonCreate(read))
  BY <1>4, <1>5, <1>8
<1>9. CASE /\ child # NULL /\ mem' = read /\ call' = [call EXCEPT !.child = child]
           /\ pc' \in {"store", "overrun"}
  <2>1. call'.child = child /\ call'.parent = call.parent
    BY <1>9 DEF InductiveInv, TypeOK
  <2>2. mem.slots \cup {child} \subseteq mem'.slots /\ child \notin mem.slots
    BY <1>4, <1>9
  <2>3. {call.parent} \ {NULL} \subseteq mem.slots
    BY DEF LiveInodesLocked
  <2>4. Live' = Live /\ \A fd \in Live : files'[fd].ip = files[fd].ip /\ files[fd].ip \in mem.slots
    BY <1>2 DEF Live, LiveInodesLocked
  <2>5. call.parent # child
    BY <1>9, <2>2, <2>3
  <2>6. QED
    BY <2>1, <2>2, <2>3, <2>4, <2>5 DEF LiveInodesLocked
<1>10. QED
  BY <1>2, <1>6, <1>7, <1>8, <1>9

LEMMA CreateStoreLocks ==
  ASSUME InductiveInv, LiveInodesLocked, CreateStore
  PROVE  LiveInodesLocked'
<1>1. /\ TableTyped /\ pc = "store" /\ opened_files_cnt # MAX_FILES_OPENED
      /\ call.child \in InodeSlots
  <2>1. call.child \in InodeSlots \cup {NULL}
    BY DEF InductiveInv, TypeOK
  <2>2. QED
    BY <2>1, Usual DEF CreateStore, InductiveInv, CallInv
<1>2. TakeDescriptor(call.child, call.flags) /\ pc' = "ready" /\ call' = NoCall
  BY DEF CreateStore
<1>3. mem'.slots = inmem_free_inode(mem.slots, call.parent)
  BY Usual DEF CreateStore, Memory
<1>4. call.child \in mem.slots /\ \A fd \in Live : files[fd].ip # call.child
  BY <1>1 DEF LiveInodesLocked, InductiveInv, CallInv
<1>5. mem.slots \cup {call.child} \subseteq mem'.slots
  BY <1>3, <1>4 DEF inmem_free_inode
<1>6. QED
  BY <1>1, <1>2, <1>4, <1>5, TakeNew

LEMMA CloseLocks ==
  ASSUME InductiveInv, LiveInodesLocked, NEW k \in Closable, fs_close(k)
  PROVE  LiveInodesLocked'
<1>1. /\ TableTyped /\ mem \in Memory /\ pc = "ready" /\ UNCHANGED <<pc, call>>
      /\ call = NoCall
  BY Usual DEF fs_close, InductiveInv, CallInv
<1>2. mem.slots \subseteq mem'.slots
  BY <1>1 DEF fs_close, inmem_free_inode, Memory
<1>3. \A fd \in Fds : files'[fd] = files[fd] \/ files'[fd] = ZeroFile
  BY <1>1 DEF TableTyped, fs_close, Cleared
<1>4. \A fd \in Live' : fd \in Live /\ files'[fd] = files[fd]
  BY <1>3 DEF Live, ZeroFile
<1>5. QED
  BY <1>1, <1>2, <1>4 DEF LiveInodesLocked

\* No two descriptors in use share an in-memory inode, nor does one share it with
\* the creation in progress, in whatever order clients close (main.c:255-270).
THEOREM LiveInodesAreLocked == Spec => []LiveInodesLocked
<1>1. InductiveInv /\ LiveInodesLocked /\ [Next]_vars => LiveInodesLocked'
  <2> SUFFICES ASSUME InductiveInv, LiveInodesLocked, [Next]_vars
               PROVE  LiveInodesLocked'
    OBVIOUS
  <2>1. ASSUME NEW path \in Paths, NEW flags \in Flags, Open(path, flags)
        PROVE  LiveInodesLocked'
    BY <2>1, OpenLocks
  <2>2. ASSUME NEW path \in Paths, NEW flags \in Flags, CreateAlloc(path, flags)
        PROVE  LiveInodesLocked'
    BY <2>2, CreateAllocLocks
  <2>3. CASE CreateLink
    BY <2>3, CreateLinkLocks
  <2>4. CASE CreateStore
    BY <2>4, CreateStoreLocks
  <2>5. CASE CreateStoreOverrun
    BY <2>5, MoreLocked DEF CreateStoreOverrun, table
  <2>6. ASSUME NEW k \in Closable, fs_close(k)
        PROVE  LiveInodesLocked'
    BY <2>6, CloseLocks
  <2>7. CASE Restart
    BY <2>7 DEF Restart, LiveInodesLocked, Live, ZeroFile, NoCall, FreshMemory
  <2>8. CASE UNCHANGED vars
    BY <2>8, MoreLocked DEF vars, table
  <2>9. QED
    BY <2>1, <2>2, <2>3, <2>4, <2>5, <2>6, <2>7, <2>8 DEF Next
<1>2. Init => LiveInodesLocked
  BY DEF Init, LiveInodesLocked, Live, ZeroFile, NoCall, FreshMemory
<1>3. QED
  BY <1>1, <1>2, Invariance, PTL DEF Spec

-----------------------------------------------------------------------------

\* The descriptor that an open hands out is held from then on.
LEMMA TakeKeepsClosed ==
  ASSUME TableTyped, ClosedIsUnreadable, opened_files_cnt # MAX_FILES_OPENED,
         NEW ip \in InodeSlots, NEW flags, TakeDescriptor(ip, flags)
  PROVE  ClosedIsUnreadable'
<1>1. opened_files_cnt \in Fds
  BY SizesAssumption, DeviceAssumption DEF TableTyped, Fds
<1>2. \A fd \in Fds : fd # opened_files_cnt => files'[fd] = files[fd]
  BY <1>1 DEF TableTyped, TakeDescriptor
<1>3. Held' = Held \cup {opened_files_cnt}
  <2>1. /\ Len(opens') = Len(opens) + 1 /\ Len(opens) \in Nat
        /\ opens'[Len(opens) + 1] = opened_files_cnt
        /\ \A k \in 1 .. Len(opens) : opens'[k] = opens[k]
    BY <1>1 DEF TableTyped, TakeDescriptor
  <2> QED
    BY <2>1 DEF Held
<1> QED
  BY <1>2, <1>3 DEF ClosedIsUnreadable

\* A close zeroes the entry, and lets go of no other descriptor.
LEMMA CloseKeepsClosed ==
  ASSUME TableTyped, ClosedIsUnreadable, NEW k \in Closable, fs_close(k)
  PROVE  ClosedIsUnreadable'
<1>1. Len(opens) \in Nat /\ k \in 1 .. Len(opens) /\ opens[k] \in Fds
  BY DEF TableTyped, Closable
<1>2. /\ files'[opens[k]] = ZeroFile
      /\ \A fd \in Fds : fd # opens[k] => files'[fd] = files[fd]
  BY <1>1 DEF TableTyped, fs_close, Cleared
<1>3. Held \subseteq Held' \cup {opens[k]}
  <2> SUFFICES ASSUME NEW n \in 1 .. Len(opens), n # k
               PROVE  opens[n] \in Held'
    BY DEF Held
  <2>1. opens' = [m \in 1 .. Len(opens) - 1 |-> IF m < k THEN opens[m] ELSE opens[m + 1]]
    BY DEF fs_close
  <2>2. Len(opens') = Len(opens) - 1
    BY <1>1, <2>1
  <2>3. CASE n < k
    <3>1. n \in 1 .. Len(opens) - 1 /\ opens'[n] = opens[n]
      BY <1>1, <2>1, <2>3
    <3> QED
      BY <2>2, <3>1 DEF Held
  <2>4. CASE n > k
    <3>1. n - 1 \in 1 .. Len(opens) - 1 /\ opens'[n - 1] = opens[n]
      BY <1>1, <2>1, <2>4
    <3> QED
      BY <2>2, <3>1 DEF Held
  <2> QED
    BY <1>1, <2>3, <2>4
<1> QED
  BY <1>2, <1>3 DEF ClosedIsUnreadable, ZeroFile

\* Whoever holds no descriptor for a file can neither read nor write it, in
\* whatever order clients close and wherever the process ends (main.c:131-135,
\* 682-684).
THEOREM ClosedAreUnreadable == Spec => []ClosedIsUnreadable
<1>1. InductiveInv /\ ClosedIsUnreadable /\ [Next]_vars => ClosedIsUnreadable'
  <2> SUFFICES ASSUME InductiveInv, ClosedIsUnreadable, [Next]_vars
               PROVE  ClosedIsUnreadable'
    OBVIOUS
  <2>1. TableTyped
    BY Usual
  <2>2. CASE UNCHANGED table
    BY <2>2 DEF table, ClosedIsUnreadable, Held
  <2>3. ASSUME NEW path \in Paths, NEW flags \in Flags, Open(path, flags)
        PROVE  ClosedIsUnreadable'
    <3> DEFINE got == fs_get_inode(mem, path)
    <3>1. /\ mem \in Memory /\ CleanIn(mem) /\ DeviceTyped
          /\ pc = "ready" /\ opened_files_cnt # MAX_FILES_OPENED /\ 0 \notin mem.bufs
      BY <2>3, Usual DEF Open, CanOpen, Running, InductiveInv
    <3>2. Contract(mem, got)
      BY <3>1, SizesAssumption, DeviceAssumption, GetInode
    <3>3. UNCHANGED table \/ (~got.fault /\ got.ip # NULL /\ TakeDescriptor(got.ip, flags))
      BY <2>3 DEF Open, Granted, Die
    <3> HIDE DEF got
    <3>4. got.ip # NULL => got.ip \in InodeSlots
      BY <3>2 DEF Contract, Memory
    <3> QED
      BY <2>1, <2>2, <3>1, <3>3, <3>4, TakeKeepsClosed
  <2>4. ASSUME NEW path \in Paths, NEW flags \in Flags, CreateAlloc(path, flags)
        PROVE  ClosedIsUnreadable'
    BY <2>2, <2>4 DEF CreateAlloc
  <2>5. CASE CreateLink
    BY <2>2, <2>5 DEF CreateLink, AbandonCreate, Die
  <2>6. CASE CreateStore
    <3>1. opened_files_cnt # MAX_FILES_OPENED /\ call.child \in InodeSlots
      BY <2>6 DEF CreateStore, InductiveInv, CallInv, TypeOK
    <3>2. TakeDescriptor(call.child, call.flags)
      BY <2>6 DEF CreateStore
    <3> QED
      BY <2>1, <3>1, <3>2, TakeKeepsClosed
  <2>7. CASE CreateStoreOverrun
    BY <2>2, <2>7 DEF CreateStoreOverrun
  <2>8. ASSUME NEW k \in Closable, fs_close(k)
        PROVE  ClosedIsUnreadable'
    BY <2>1, <2>8, CloseKeepsClosed
  <2>9. CASE Restart
    BY <2>9 DEF Restart, ClosedIsUnreadable, ZeroFile
  <2>10. CASE UNCHANGED vars
    BY <2>2, <2>10 DEF vars
  <2> QED
    BY <2>3, <2>4, <2>5, <2>6, <2>7, <2>8, <2>9, <2>10 DEF Next
<1>2. Init => ClosedIsUnreadable
  BY DEF Init, ClosedIsUnreadable, ZeroFile
<1> QED
  BY <1>1, <1>2, Invariance, PTL DEF Spec

(***************************************************************************)
(* Clients that close the last descriptor they opened.                     *)
(***************************************************************************)

LEMMA LifoTake ==
  ASSUME TableTyped, LifoInv, opened_files_cnt # MAX_FILES_OPENED,
         NEW ip \in InodeSlots, NEW flags, TakeDescriptor(ip, flags)
  PROVE  LifoInv'
<1>1. opened_files_cnt \in Fds /\ opened_files_cnt \in Nat /\ Fds \subseteq Nat
  BY SizesAssumption, DeviceAssumption DEF TableTyped, Fds
<1>2. /\ \A fd \in Fds : fd # opened_files_cnt => files'[fd] = files[fd]
      /\ files'[opened_files_cnt].type = "FD_INODE"
  BY <1>1 DEF TableTyped, TakeDescriptor
<1>3. opened_files_cnt' = opened_files_cnt + 1 /\ opens' = Append(opens, opened_files_cnt)
  BY DEF TakeDescriptor
<1>4. \A k \in 1 .. opened_files_cnt' : opens'[k] = k - 1
  BY <1>1, <1>3 DEF LifoInv, TableTyped
<1>5. Live' = {fd \in Fds : fd < opened_files_cnt'}
  <2>1. \A fd \in Fds : files'[fd].type = "FD_INODE" <=> fd < opened_files_cnt + 1
    <3>1. TAKE fd \in Fds
    <3>2. files[fd].type = "FD_INODE" <=> fd < opened_files_cnt
      BY DEF LifoInv, Live
    <3>3. QED
      BY <1>1, <1>2, <3>2
  <2>2. QED
    BY <1>3, <2>1 DEF Live
<1>6. \A fd \in Fds \ Live' : files'[fd] = ZeroFile
  <2>1. TAKE fd \in Fds \ Live'
  <2>2. ~(fd < opened_files_cnt + 1)
    BY <1>3, <1>5, <2>1
  <2>3. fd \in Fds \ Live /\ fd # opened_files_cnt
    BY <1>1, <2>1, <2>2 DEF LifoInv
  <2>4. QED
    BY <1>2, <2>3 DEF LifoInv
<1>7. QED
  BY <1>4, <1>5, <1>6 DEF LifoInv

\* The close of the last descriptor: it is the last entry in use.
LEMMA LifoClose ==
  ASSUME CloseOrder = "lifo", TableTyped, LifoInv, NEW k \in Closable, fs_close(k)
  PROVE  /\ k = opened_files_cnt /\ opens[k] = opened_files_cnt - 1
         /\ opened_files_cnt \in Nat \ {0} /\ opened_files_cnt - 1 \in Fds
         /\ opened_files_cnt' = opened_files_cnt - 1
         /\ files' = [files EXCEPT ![opened_files_cnt - 1] = ZeroFile]
         /\ LifoInv'
<1>1. opened_files_cnt \in Nat /\ Len(opens) = opened_files_cnt /\ Fds \subseteq Nat
  BY SizesAssumption, DeviceAssumption DEF TableTyped, Fds
<1>2. k = opened_files_cnt /\ k \in Nat \ {0}
  BY <1>1 DEF Closable
<1>3. opens[k] = opened_files_cnt - 1
  BY <1>1, <1>2 DEF LifoInv
<1>4. opened_files_cnt - 1 \in Fds
  BY <1>1, <1>2, SizesAssumption, DeviceAssumption DEF TableTyped, Fds
<1>5. /\ opened_files_cnt' = opened_files_cnt - 1
      /\ files' = [files EXCEPT ![opened_files_cnt - 1] = ZeroFile]
      /\ opens' = [n \in 1 .. Len(opens) - 1 |-> IF n < k THEN opens[n] ELSE opens[n + 1]]
  BY <1>3 DEF fs_close, Cleared
<1>6. \A n \in 1 .. opened_files_cnt' : opens'[n] = n - 1
  BY <1>1, <1>2, <1>5 DEF LifoInv
<1>7. /\ \A fd \in Fds : fd # opened_files_cnt - 1 => files'[fd] = files[fd]
      /\ files'[opened_files_cnt - 1] = ZeroFile
  BY <1>4, <1>5 DEF TableTyped
<1>8. Live' = {fd \in Fds : fd < opened_files_cnt'}
  <2>1. \A fd \in Fds : files'[fd].type = "FD_INODE" <=> fd < opened_files_cnt - 1
    <3>1. TAKE fd \in Fds
    <3>2. files[fd].type = "FD_INODE" <=> fd < opened_files_cnt
      BY DEF LifoInv, Live
    <3>3. QED
      BY <1>1, <1>2, <1>7, <3>2 DEF ZeroFile
  <2>2. QED
    BY <1>5, <2>1 DEF Live
<1>9. \A fd \in Fds \ Live' : files'[fd] = ZeroFile
  BY <1>1, <1>2, <1>5, <1>7, <1>8 DEF LifoInv
<1>10. QED
  BY <1>2, <1>3, <1>4, <1>5, <1>6, <1>8, <1>9 DEF LifoInv

\* A step that opens no file, closes none and ends no process leaves the table.
LEMMA TableSteps ==
  ASSUME InductiveInv, LiveInodesLocked, [Next]_vars
  PROVE  \/ UNCHANGED table
         \/ /\ opened_files_cnt # MAX_FILES_OPENED
            /\ \E ip \in InodeSlots : \E flags :
                 /\ TakeDescriptor(ip, flags)
                 /\ \A fd \in Live : files[fd].ip # ip
         \/ \E k \in Closable : fs_close(k)
         \/ Restart
<1>1. ASSUME NEW path \in Paths, NEW flags \in Flags, Open(path, flags)
      PROVE  \/ UNCHANGED table
             \/ /\ opened_files_cnt # MAX_FILES_OPENED
                /\ \E ip \in InodeSlots : \E fl :
                     /\ TakeDescriptor(ip, fl)
                     /\ \A fd \in Live : files[fd].ip # ip
  <2> DEFINE got == fs_get_inode(mem, path)
  <2>1. /\ pc = "ready" /\ opened_files_cnt # MAX_FILES_OPENED /\ 0 \notin mem.bufs
        /\ mem \in Memory /\ CleanIn(mem) /\ DeviceTyped
    BY <1>1, Usual DEF Open, CanOpen, Running
  <2>2. Contract(mem, got)
    BY <2>1, SizesAssumption, DeviceAssumption, GetInode
  <2>3. got.ip # NULL => got.ip \in InodeSlots \ mem.slots
    BY <2>2 DEF Contract, Memory
  <2>4. UNCHANGED table \/ (got.ip # NULL /\ TakeDescriptor(got.ip, flags))
    BY <1>1 DEF Open, Granted, Die
  <2> HIDE DEF got
  <2>5. \A fd \in Live : files[fd].ip \in mem.slots
    BY DEF LiveInodesLocked
  <2>6. QED
    BY <2>1, <2>3, <2>4, <2>5
<1>2. ASSUME CreateStore
      PROVE  /\ opened_files_cnt # MAX_FILES_OPENED
             /\ \E ip \in InodeSlots : \E fl :
                  /\ TakeDescriptor(ip, fl)
                  /\ \A fd \in Live : files[fd].ip # ip
  <2>1. call.child \in InodeSlots /\ opened_files_cnt # MAX_FILES_OPENED
    <3>1. call.child \in InodeSlots \cup {NULL}
      BY DEF InductiveInv, TypeOK
    <3>2. QED
      BY <1>2, <3>1 DEF CreateStore, InductiveInv, CallInv
  <2>2. \A fd \in Live : files[fd].ip # call.child
    BY <1>2, <2>1 DEF LiveInodesLocked, CreateStore, InductiveInv, CallInv
  <2>3. TakeDescriptor(call.child, call.flags)
    BY <1>2 DEF CreateStore
  <2>4. QED
    BY <2>1, <2>2, <2>3
<1>3. (\E path \in Paths, flags \in Flags : CreateAlloc(path, flags)) => UNCHANGED table
  BY DEF CreateAlloc
<1>4. CreateLink => UNCHANGED table
  BY DEF CreateLink, AbandonCreate, Die, table
<1>5. CreateStoreOverrun \/ UNCHANGED vars => UNCHANGED table
  BY DEF CreateStoreOverrun, vars
<1>6. QED
  BY <1>1, <1>2, <1>3, <1>4, <1>5 DEF Next

LEMMA LifoInvariance ==
  ASSUME CloseOrder = "lifo"
  PROVE  Spec => []LifoInv
<1>1. InductiveInv /\ LiveInodesLocked /\ LifoInv /\ [Next]_vars => LifoInv'
  <2> SUFFICES ASSUME InductiveInv, LiveInodesLocked, LifoInv, [Next]_vars
               PROVE  LifoInv'
    OBVIOUS
  <2>1. TableTyped
    BY Usual
  <2>2. CASE UNCHANGED table
    BY <2>2 DEF table, LifoInv, Live
  <2>3. ASSUME opened_files_cnt # MAX_FILES_OPENED,
               NEW ip \in InodeSlots, NEW flags, TakeDescriptor(ip, flags)
        PROVE  LifoInv'
    BY <2>1, <2>3, LifoTake
  <2>4. ASSUME NEW k \in Closable, fs_close(k)
        PROVE  LifoInv'
    BY <2>1, <2>4, LifoClose
  <2>5. CASE Restart
    BY <2>5, SizesAssumption, DeviceAssumption DEF Restart, LifoInv, Live, ZeroFile, Fds
  <2>6. QED
    BY <2>2, <2>3, <2>4, <2>5, TableSteps
<1>2. Init => LifoInv
  BY SizesAssumption, DeviceAssumption DEF Init, LifoInv, Live, ZeroFile, Fds
<1>3. QED
  BY <1>1, <1>2, Invariance, LiveInodesAreLocked, PTL DEF Spec

\* With such clients the descriptors held are the entries in use.
LEMMA HeldIsLive ==
  ASSUME TableTyped, LifoInv
  PROVE  /\ Held = {fd \in Fds : fd < opened_files_cnt}
         /\ Held = Live
         /\ Held = {fd \in Fds : files[fd] # ZeroFile}
<1>1. opened_files_cnt \in Nat /\ Len(opens) = opened_files_cnt /\ opens \in Seq(Fds)
  BY SizesAssumption, DeviceAssumption DEF TableTyped
<1>2. \A fd \in Fds : fd \in Nat
  BY SizesAssumption, DeviceAssumption DEF Fds
<1>3. \A fd \in Held : fd \in Fds /\ fd < opened_files_cnt
  BY <1>1 DEF Held, LifoInv
<1>4. \A fd \in Fds : fd < opened_files_cnt => fd \in Held
  <2>1. SUFFICES ASSUME NEW fd \in Fds, fd < opened_files_cnt
                 PROVE  fd \in Held
    OBVIOUS
  <2>2. fd + 1 \in 1 .. Len(opens) /\ opens[fd + 1] = fd
    BY <1>1, <1>2, <2>1 DEF LifoInv
  <2>3. QED
    BY <2>2 DEF Held
<1>5. \A fd \in Live : files[fd] # ZeroFile
  BY DEF Live, ZeroFile
<1>6. Live = {fd \in Fds : fd < opened_files_cnt} /\ \A fd \in Fds \ Live : files[fd] = ZeroFile
  BY DEF LifoInv
<1>7. QED
  BY <1>3, <1>4, <1>5, <1>6

\* With clients that close in the reverse order of their opens, no two of them
\* hold one descriptor and the entries in use are those held (main.c:662, 684).
THEOREM DescriptorsAreNotShared ==
  ASSUME CloseOrder = "lifo"
  PROVE  Spec => []NoSharedDescriptor
<1>1. InductiveInv /\ LifoInv => NoSharedDescriptor
  <2> SUFFICES ASSUME InductiveInv, LifoInv
               PROVE  NoSharedDescriptor
    OBVIOUS
  <2>1. TableTyped
    BY Usual
  <2>2. \A j, k \in 1 .. Len(opens) : opens[j] = opens[k] => j = k
    BY <2>1, SizesAssumption, DeviceAssumption DEF TableTyped, LifoInv
  <2>3. QED
    BY <2>1, <2>2, HeldIsLive DEF NoSharedDescriptor
<1>2. QED
  BY <1>1, Invariance, LifoInvariance, PTL

\* With such clients the table of LittleFs implements DescriptorTable: every step
\* opens a descriptor nobody holds on an inode no other is bound to, closes one
\* and leaves the others alone, ends the process, or changes no binding.
THEOREM TableIsImplemented ==
  ASSUME CloseOrder = "lifo"
  PROVE  Spec => KeepsDescriptors
<1> DEFINE binding == [fd \in Held |-> files[fd].ip]
<1>1. Init => Table!TableInit
  <2>1. Init => Held = {}
    BY DEF Init, Held
  <2>2. QED
    BY <2>1 DEF Table!TableInit
<1>2. /\ InductiveInv /\ LiveInodesLocked /\ LifoInv
      /\ InductiveInv' /\ LifoInv'
      /\ [Next]_vars
      => [Table!TableNext]_binding
  <2> SUFFICES ASSUME InductiveInv, LiveInodesLocked, LifoInv, InductiveInv', LifoInv', [Next]_vars
               PROVE  [Table!TableNext]_binding
    OBVIOUS
  <2>1. TableTyped /\ Held = {fd \in Fds : fd < opened_files_cnt} /\ Held = Live
    BY Usual, HeldIsLive
  <2>2. TableTyped' /\ Held' = {fd \in Fds : fd < opened_files_cnt'}
    <3>1. TableTyped'
      BY DEF InductiveInv, TypeOK, TableTyped
    <3>2. (TableTyped /\ LifoInv => Held = {fd \in Fds : fd < opened_files_cnt})'
      BY HeldIsLive, PTL
    <3>3. QED
      BY <3>1, <3>2
  <2>3. opened_files_cnt \in Nat /\ Fds \subseteq Nat
    BY <2>1, SizesAssumption, DeviceAssumption DEF TableTyped, Fds
  <2>4. CASE UNCHANGED table
    BY <2>4 DEF table, Held
  <2>5. ASSUME opened_files_cnt # MAX_FILES_OPENED, NEW ip \in InodeSlots, NEW flags,
               TakeDescriptor(ip, flags), \A fd \in Live : files[fd].ip # ip
        PROVE  Table!TableNext
    <3>1. opened_files_cnt \in Fds
      BY <2>1, <2>5, SizesAssumption, DeviceAssumption DEF TableTyped, Fds
    <3>2. Held' = Held \cup {opened_files_cnt} /\ opened_files_cnt \notin Held
      <4>1. opened_files_cnt' = opened_files_cnt + 1
        BY <2>5 DEF TakeDescriptor
      <4>2. \A fd \in Fds : fd < opened_files_cnt + 1 <=> (fd < opened_files_cnt \/ fd = opened_files_cnt)
        BY <2>3
      <4>3. Held' = {fd \in Fds : fd < opened_files_cnt + 1}
        BY <2>2, <4>1
      <4>4. Held = {fd \in Fds : fd < opened_files_cnt}
        BY <2>1
      <4>5. ~(opened_files_cnt < opened_files_cnt)
        BY <2>3
      <4>6. QED
        BY ONLY <3>1, <4>2, <4>3, <4>4, <4>5
    <3>3. /\ \A fd \in Held : files'[fd] = files[fd]
          /\ files'[opened_files_cnt].ip = ip
      BY <2>1, <2>5, <3>1, <3>2 DEF TakeDescriptor, TableTyped
    <3>4. binding' = [fd \in Held \cup {opened_files_cnt} |->
                        IF fd = opened_files_cnt THEN ip ELSE files[fd].ip]
      BY <3>2, <3>3
    <3>5. Table!OpenDescriptor(opened_files_cnt, ip)
      BY <2>1, <2>5, <3>2, <3>4 DEF Table!OpenDescriptor
    <3>6. QED
      BY <3>1, <3>5 DEF Table!TableNext
  <2>6. ASSUME NEW k \in Closable, fs_close(k)
        PROVE  Table!TableNext
    <3>1. PICK last \in Fds : /\ last = opened_files_cnt - 1
                             /\ opened_files_cnt' = last
                             /\ files' = [files EXCEPT ![last] = ZeroFile]
      BY <2>1, <2>6, LifoClose
    <3>2. Held' = Held \ {last} /\ last \in Held
      <4>1. \A fd \in Fds : fd < last <=> (fd < opened_files_cnt /\ fd # last)
        BY <2>3, <3>1
      <4>2. Held' = {fd \in Fds : fd < last}
        BY <2>2, <3>1
      <4>3. last < opened_files_cnt
        BY <2>3, <3>1
      <4>4. QED
        BY <2>1, <4>1, <4>2, <4>3
    <3>3. \A fd \in Held' : files'[fd] = files[fd]
      BY <2>1, <3>1, <3>2 DEF TableTyped
    <3>4. binding' = [fd \in Held \ {last} |-> files[fd].ip]
      BY <3>2, <3>3
    <3>5. Table!CloseDescriptor(last)
      BY <3>2, <3>4 DEF Table!CloseDescriptor
    <3>6. QED
      BY <3>5 DEF Table!TableNext
  <2>7. CASE Restart
    <3>1. Held' = {}
      BY <2>7 DEF Restart, Held
    <3>2. Table!LoseAll
      BY <3>1 DEF Table!LoseAll
    <3>3. QED
      BY <3>2 DEF Table!TableNext
  <2>8. QED
    BY <2>4, <2>5, <2>6, <2>7, TableSteps
<1>3. QED
  BY <1>1, <1>2, Invariance, LiveInodesAreLocked, LifoInvariance, PTL
  DEF Spec, KeepsDescriptors, Table!TableSpec

(***************************************************************************)
(* The directory, when no process is killed inside a call and no file is   *)
(* created without a name: no bit of the inode bitmap is lost, and every   *)
(* entry finds its file's inode.                                           *)
(***************************************************************************)

\* The processes and the clients this is about.
Orderly ==
  /\ KillPoints \subseteq {"ready"}
  /\ \A path \in Paths : path.name # FreeName

\* The inode numbers that the entries in use have.
NamedBy(entries) == {entries[e].inum : e \in {f \in Entries : entries[f].name # FreeName}}

\* As long as the inode numbers fit: the bits are the root's and those of the
\* entries, and the entries, but for those of one inode, find a file's inode.
Whole(bits, entries, inodes, but) ==
  bits \subseteq 0 .. INUM_RANGE - 1 =>
    /\ bits \subseteq {ROOTINO} \cup NamedBy(entries)
    /\ \A e \in Entries :
         entries[e].name # FreeName /\ entries[e].inum < MAXFILES /\ entries[e].inum # but =>
           inodes[entries[e].inum].type = TYPE_FILE

\* Images of an image builder that was not killed either.
WholeImages == \A img \in Images : Whole(img.ibmap, img.dir, img.dinode, NULL)

\* The inode that the creation in progress has linked and not stored.
Unstored == IF pc = "store" THEN call.inum ELSE NULL

WholeInv ==
  /\ Running => Whole(Settled, dir, dinode, Unstored)
  /\ pc = "link" => call.path.name # FreeName
  /\ pc = "store" => mem.inode[call.child].type = TYPE_FILE

\* A step that leaves the directory and the inodes as they are.
LEMMA StaysWhole ==
  ASSUME WholeInv, UNCHANGED <<dir, dinode>>, Settled' = Settled,
         pc \in {"ready", "link"}, pc' # "store",
         pc' = "link" => call'.path.name # FreeName
  PROVE  WholeInv'
<1>1. Running => Whole(Settled, dir, dinode, NULL)
  BY DEF WholeInv, Unstored
<1>2. Running
  BY DEF Running
<1>3. Whole(Settled, dir, dinode, NULL)'
  <2>1. Whole(Settled', dir', dinode', NULL)
    BY <1>1, <1>2
  <2> QED
    BY <2>1 DEF Whole, NamedBy
<1> QED
  BY <1>3 DEF WholeInv, Unstored

LEMMA NotRunning == pc' \in {"dead", "overrun"} => WholeInv'
BY DEF WholeInv, Running

LEMMA OpenWhole ==
  ASSUME WholeInv, NEW path, NEW flags, Open(path, flags)
  PROVE  WholeInv'
<1>1. pc = "ready" /\ UNCHANGED <<ibmap, dinode, dir>> /\ pc' \in {"ready", "dead"}
  BY DEF Open, CanOpen, Die
<1> QED
  BY <1>1, StaysWhole, NotRunning DEF Settled

LEMMA CreateAllocWhole ==
  ASSUME InductiveInv, WholeInv, Orderly, NEW path \in Paths, NEW flags, CreateAlloc(path, flags)
  PROVE  WholeInv'
<1> DEFINE parent == ParentOf(mem, path)
           bit    == FirstUnused(ibmap, INODE_BITS)
<1>1. /\ pc = "ready" /\ UNCHANGED <<dinode, dir>> /\ mem \in Memory /\ CleanIn(mem)
      /\ path \in Path /\ 0 \notin mem.bufs /\ DeviceTyped
  BY SizesAssumption, Usual DEF CreateAlloc, CanOpen, Running
<1>2. Contract(mem, parent)
  BY <1>1, ParentIs
<1> HIDE DEF parent
<1>3. ~parent.fault => BlockFor(parent.mem.bufs) # NULL
  <2>1. parent.mem.bufs \in SUBSET BlockSlots /\ (~parent.fault => 0 \notin parent.mem.bufs)
    BY <1>1, <1>2 DEF Contract, Memory
  <2> QED
    BY <2>1, BlockForIs
<1>4. \/ pc' = "dead"
      \/ UNCHANGED <<ibmap, pc, call>>
      \/ /\ bit # NULL /\ ibmap' = ibmap \cup {bit} /\ pc' = "link"
         /\ call' = [path |-> path, flags |-> flags, inum |-> bit,
                     parent |-> parent.ip, child |-> NULL]
  BY <1>3 DEF CreateAlloc, MarkInode, Die, parent
<1>5. bit # NULL => bit \in (0 .. INODE_BITS - 1) \ ibmap
  BY SizesAssumption, DeviceAssumption, FirstUnusedIs
<1> HIDE DEF bit
<1>6. pc' # "dead" => Settled' = Settled /\ (pc' = "link" => call'.path.name # FreeName)
  BY <1>1, <1>4, <1>5 DEF Settled, Orderly
<1> QED
  BY <1>1, <1>4, <1>6, StaysWhole, NotRunning

LEMMA AbandonWhole ==
  ASSUME WholeInv, pc = "link", NEW m \in Memory, 0 \notin m.bufs, AbandonCreate(m)
  PROVE  WholeInv'
<1>1. BlockFor(m.bufs) # NULL
  BY BlockForIs DEF Memory
<1>2. ibmap' = Settled /\ Settled' = Settled
  BY <1>1 DEF AbandonCreate, FreeInode, Settled
<1> QED
  BY <1>2, StaysWhole DEF AbandonCreate

\* The entry of the creation names its inode.
LEMMA LinkWhole ==
  ASSUME InductiveInv, WholeInv, pc = "link", pc' = "store", UNCHANGED <<ibmap, dinode>>,
         NEW e \in Entries, dir[e].name = FreeName,
         dir' = [dir EXCEPT ![e] = [name |-> call.path.name, inum |-> call.inum % INUM_RANGE]],
         call'.inum = call.inum
  PROVE  Whole(Settled, dir, dinode, Unstored)'
<1>1. /\ Settled = ibmap \ {call.inum} /\ Settled' = ibmap /\ call.inum \in ibmap
      /\ ibmap \subseteq Nat /\ Unstored' = call.inum /\ call.path.name # FreeName
      /\ dir \in [Entries -> Dirent]
  BY SizesAssumption, DeviceAssumption
  DEF InductiveInv, TypeOK, DirectoryInv, Settled, Unstored, WholeInv
<1> SUFFICES ASSUME ibmap \subseteq 0 .. INUM_RANGE - 1
             PROVE  Whole(Settled, dir, dinode, Unstored)'
  BY <1>1 DEF Whole
<1>2. Whole(Settled, dir, dinode, NULL)
  BY DEF WholeInv, Running, Unstored
<1>3. call.inum % INUM_RANGE = call.inum
  <2>1. INUM_RANGE \in Nat \ {0}
    BY DeviceAssumption
  <2>2. call.inum \in 0 .. INUM_RANGE - 1
    BY <1>1
  <2> QED
    BY <2>1, <2>2
<1>4. dir'[e] = [name |-> call.path.name, inum |-> call.inum]
  BY <1>1, <1>3
<1>5. \A f \in Entries : dir[f].name # FreeName => dir'[f] = dir[f]
  BY <1>1
<1>6. NamedBy(dir) \cup {call.inum} \subseteq NamedBy(dir')
  BY <1>1, <1>4, <1>5 DEF NamedBy
<1>7. ibmap \subseteq {ROOTINO} \cup NamedBy(dir')
  BY <1>1, <1>2, <1>6 DEF Whole
<1>8. ASSUME NEW f \in Entries, dir'[f].name # FreeName, dir'[f].inum < MAXFILES,
             dir'[f].inum # call.inum
      PROVE  dinode[dir'[f].inum].type = TYPE_FILE
  <2>1. f # e /\ dir'[f] = dir[f] /\ dir[f].inum # NULL
    BY <1>1, <1>4, <1>8, DeviceAssumption DEF Dirent, NULL
  <2> QED
    BY <1>1, <1>2, <1>8, <2>1 DEF Whole
<1>9. NamedBy(dir') = NamedBy(dir)'
  BY DEF NamedBy
<1> QED
  BY <1>1, <1>7, <1>8, <1>9 DEF Whole

LEMMA CreateLinkWhole ==
  ASSUME InductiveInv, WholeInv, CreateLink
  PROVE  WholeInv'
<1> DEFINE child  == InodeFor(mem.slots)
           locked == [mem EXCEPT !.slots = inmem_lock_inode(@), !.inode[child].type = TYPE_FILE]
           read   == [locked EXCEPT !.bufs = UseBlock(@)]
           parent == mem.inode[call.parent]
           usable == Usable(mem, parent)
           i      == CHOOSE i \in usable : \A k \in usable : i <= k
           j      == CHOOSE j \in FreeIn(i) : \A k \in FreeIn(i) : j <= k
<1>1. /\ pc = "link"
      /\ \/ child = NULL /\ AbandonCreate(mem)
         \/ pc' = "dead"
         \/ child # NULL /\ AbandonCreate(locked)
         \/ child # NULL /\ AbandonCreate(read)
         \/ /\ child # NULL /\ usable # {} /\ mem' = read
            /\ call' = [call EXCEPT !.child = child]
            /\ \/ /\ FreeIn(i) # {} /\ pc' = "store"
                  /\ dir' = [dir EXCEPT ![<<i, j>>] =
                       [name |-> call.path.name, inum |-> call.inum % INUM_RANGE]]
               \/ pc' = "overrun"
            /\ UNCHANGED <<ibmap, dinode>>
  BY DEF CreateLink, Die
<1>2. mem \in Memory /\ CleanIn(mem) /\ 0 \notin mem.bufs /\ mem.inode \in [InodeSlots -> Inode]
      /\ mem.bufs \in SUBSET BlockSlots
  BY <1>1, Usual DEF Running
<1>3. ASSUME child # NULL
      PROVE  /\ locked \in Memory /\ 0 \notin locked.bufs
             /\ read \in Memory /\ 0 \notin read.bufs
             /\ child \in InodeSlots /\ read.inode[child].type = TYPE_FILE
  <2>1. /\ locked \in Memory /\ CleanIn(locked) /\ locked.bufs = mem.bufs /\ child \in InodeSlots
    BY <1>2, <1>3, ChildLocked
  <2>2. locked.inode[child].type = TYPE_FILE
    <3>1. mem = [bufs |-> mem.bufs, slots |-> mem.slots, inode |-> mem.inode]
      BY <1>2 DEF Memory
    <3>2. mem.inode[child] \in Inode
      BY <1>2, <2>1
    <3> DEFINE ino == [mem.inode[child] EXCEPT !.type = TYPE_FILE]
    <3>3. locked = [mem EXCEPT !.slots = inmem_lock_inode(@), !.inode[child] = ino]
      OBVIOUS
    <3>4. ino.type = TYPE_FILE
      BY <3>2 DEF Inode
    <3> HIDE DEF ino, child, locked
    <3> QED
      BY <1>2, <2>1, <3>1, <3>3, <3>4
  <2> HIDE DEF locked, child
  <2>3. UseBlock(locked.bufs) \in SUBSET BlockSlots /\ 0 \notin UseBlock(locked.bufs)
    BY <1>2, <2>1, UseBlockIs
  <2>4. /\ read \in Memory /\ read.bufs = UseBlock(locked.bufs) /\ read.inode = locked.inode
    BY <2>1, <2>3, Adjusted
  <2> QED
    BY <1>2, <2>1, <2>2, <2>3, <2>4
<1> HIDE DEF child, locked, read, parent, usable, i, j
<1>4. CASE child = NULL /\ AbandonCreate(mem)
  BY <1>1, <1>2, <1>4, AbandonWhole
<1>5. CASE child # NULL /\ AbandonCreate(locked)
  BY <1>1, <1>3, <1>5, AbandonWhole
<1>6. CASE child # NULL /\ AbandonCreate(read)
  BY <1>1, <1>3, <1>6, AbandonWhole
<1>7. ASSUME child # NULL, usable # {}, mem' = read, call' = [call EXCEPT !.child = child],
             FreeIn(i) # {}, pc' = "store", UNCHANGED <<ibmap, dinode>>,
             dir' = [dir EXCEPT ![<<i, j>>] =
               [name |-> call.path.name, inum |-> call.inum % INUM_RANGE]]
      PROVE  WholeInv'
  <2>1. <<i, j>> \in Entries /\ dir[<<i, j>>].name = FreeName
    <3>1. i = CHOOSE k \in Usable(mem, parent) : \A l \in Usable(mem, parent) : k <= l
      BY DEF i, usable
    <3>2. j = CHOOSE k \in FreeIn(i) : \A l \in FreeIn(i) : k <= l
      BY DEF j
    <3> QED
      BY <1>7, <3>1, <3>2, FreeEntry DEF usable
  <2>2. call'.inum = call.inum /\ call'.child = child
    BY <1>7 DEF InductiveInv, TypeOK
  <2>3. Whole(Settled, dir, dinode, Unstored)'
    BY <1>1, <1>7, <2>1, <2>2, LinkWhole
  <2> QED
    BY <1>3, <1>7, <2>2, <2>3 DEF WholeInv
<1> QED
  BY <1>1, <1>4, <1>5, <1>6, <1>7, NotRunning

\* The inode of the creation is stored, unless the table has no such inode.
LEMMA CreateStoreWhole ==
  ASSUME InductiveInv, WholeInv, CreateStore
  PROVE  WholeInv'
<1>1. /\ pc = "store" /\ pc' = "ready" /\ UNCHANGED <<ibmap, dir>>
      /\ dinode' = IF Stores(call.inum) THEN [dinode EXCEPT ![call.inum] = mem.inode[call.child]]
                   ELSE dinode
  BY DEF CreateStore
<1>2. BlockFor(mem.bufs) # NULL
  BY <1>1, Usual, BlockForIs DEF Running
<1>3. /\ call.inum \in Nat /\ dinode \in [0 .. MAXFILES - 1 -> Inode]
      /\ dir \in [Entries -> Dirent] /\ MAXFILES \in Nat
  BY <1>1, DeviceAssumption DEF InductiveInv, TypeOK, CallInv
<1>4. Stores(call.inum) <=> call.inum < MAXFILES
  BY <1>2 DEF Stores
<1>5. Settled = ibmap /\ Settled' = ibmap /\ Unstored = call.inum /\ Unstored' = NULL
  BY <1>1 DEF Settled, Unstored
<1>6. Whole(ibmap, dir, dinode, call.inum) /\ mem.inode[call.child].type = TYPE_FILE
  BY <1>1, <1>5 DEF WholeInv, Running
<1>7. ASSUME ibmap \subseteq 0 .. INUM_RANGE - 1,
             NEW e \in Entries, dir[e].name # FreeName, dir[e].inum < MAXFILES
      PROVE  dinode'[dir[e].inum].type = TYPE_FILE
  <2>1. dir[e].inum \in 0 .. MAXFILES - 1
    BY <1>3, <1>7, DeviceAssumption DEF Dirent
  <2>2. CASE dir[e].inum = call.inum
    BY <1>1, <1>3, <1>4, <1>6, <1>7, <2>1, <2>2
  <2>3. CASE dir[e].inum # call.inum
    <3>1. dinode[dir[e].inum].type = TYPE_FILE
      BY <1>6, <1>7, <2>3 DEF Whole
    <3>2. dinode'[dir[e].inum] = dinode[dir[e].inum]
      BY <1>1, <1>3, <2>1, <2>3
    <3> QED
      BY <3>1, <3>2
  <2> QED
    BY <2>2, <2>3
<1>8. Whole(ibmap, dir, dinode', NULL)
  BY <1>6, <1>7 DEF Whole
<1>9. Whole(Settled, dir, dinode, Unstored)'
  BY <1>1, <1>5, <1>8 DEF Whole, NamedBy
<1> QED
  BY <1>1, <1>9 DEF WholeInv

LEMMA WholeInvariance ==
  ASSUME Orderly, WholeImages
  PROVE  Spec => []WholeInv
<1>1. Init => WholeInv
  <2> SUFFICES ASSUME Init
               PROVE  WholeInv
    OBVIOUS
  <2>1. PICK img \in Images :
          ibmap = img.ibmap /\ dinode = img.dinode /\ dir = img.dir /\ pc = "ready"
    BY DEF Init
  <2>2. Whole(img.ibmap, img.dir, img.dinode, NULL)
    BY DEF WholeImages
  <2> QED
    BY <2>1, <2>2 DEF WholeInv, Settled, Unstored
<1>2. InductiveInv /\ WholeInv /\ [Next]_vars => WholeInv'
  <2> SUFFICES ASSUME InductiveInv, WholeInv, [Next]_vars
               PROVE  WholeInv'
    OBVIOUS
  <2>1. CASE \E path \in Paths, flags \in Flags : Open(path, flags)
    BY <2>1, OpenWhole
  <2>2. CASE \E path \in Paths, flags \in Flags : CreateAlloc(path, flags)
    BY <2>2, CreateAllocWhole
  <2>3. CASE CreateLink
    BY <2>3, CreateLinkWhole
  <2>4. CASE CreateStore
    BY <2>4, CreateStoreWhole
  <2>5. CASE CreateStoreOverrun
    BY <2>5, NotRunning DEF CreateStoreOverrun
  <2>6. CASE \E k \in Closable : fs_close(k)
    BY <2>6, StaysWhole DEF fs_close, Settled, device
  <2>7. CASE Restart
    <3>1. pc = "ready" /\ pc' = "ready" /\ UNCHANGED <<ibmap, dinode, dir>>
      BY <2>7 DEF Restart, Orderly, device
    <3> QED
      BY <3>1, StaysWhole DEF Settled
  <2>8. CASE UNCHANGED vars
    <3>1. UNCHANGED <<ibmap, dinode, dir, mem, pc, call>>
      BY <2>8 DEF vars, device
    <3>2. Whole(Settled, dir, dinode, Unstored)' <=> Whole(Settled, dir, dinode, Unstored)
      BY <3>1 DEF Whole, NamedBy, Settled, Unstored
    <3> QED
      BY <3>1, <3>2 DEF WholeInv, Running
  <2> QED
    BY <2>1, <2>2, <2>3, <2>4, <2>5, <2>6, <2>7, <2>8 DEF Next
<1> QED
  BY <1>1, <1>2, Invariance, PTL DEF Spec

\* A creation that fails gives its bit back, wherever it fails: no bit of the
\* inode bitmap is lost but to a process that dies inside a call (main.c:578-609).
THEOREM NoInodeIsLeaked ==
  ASSUME Orderly, WholeImages
  PROVE  Spec => []NoLeakedInode
<1>1. InductiveInv /\ WholeInv => NoLeakedInode
  <2> SUFFICES ASSUME InductiveInv, WholeInv, Running, ibmap \subseteq 0 .. INUM_RANGE - 1
               PROVE  ibmap \subseteq {ROOTINO, call.inum} \cup NamedBy(dir)
    BY DEF NoLeakedInode, NamedBy
  <2>1. ibmap \subseteq Settled \cup {call.inum} /\ Settled \subseteq ibmap
    BY DEF Settled
  <2> QED
    BY <2>1 DEF WholeInv, Whole
<1> QED
  BY <1>1, Invariance, WholeInvariance, PTL

\* Between calls every entry finds the inode of a file: the block that the inode
\* is stored through can always be read, though its failure is not looked at
\* (main.c:606-609).
THEOREM EntriesFindInodes ==
  ASSUME Orderly, WholeImages
  PROVE  Spec => []EntriesResolve
<1>1. InductiveInv /\ WholeInv => EntriesResolve
  <2> SUFFICES ASSUME InductiveInv, WholeInv, pc = "ready", ibmap \subseteq 0 .. INUM_RANGE - 1,
                      NEW e \in Entries, dir[e].name # FreeName, dir[e].inum < MAXFILES
               PROVE  dinode[dir[e].inum].type = TYPE_FILE
    BY DEF EntriesResolve
  <2>1. Whole(ibmap, dir, dinode, NULL)
    BY DEF WholeInv, Running, Settled, Unstored
  <2>2. dir[e].inum # NULL
    BY DeviceAssumption DEF InductiveInv, TypeOK, Dirent, NULL
  <2> QED
    BY <2>1, <2>2 DEF Whole
<1> QED
  BY <1>1, Invariance, WholeInvariance, PTL
=============================================================================
