------------------------- MODULE LittleFsDataProofs -------------------------
(***************************************************************************)
(* Proofs about reading and writing in LittleFs, for every size of a block *)
(* and of a file and all that clients ask for: bytes only move where the   *)
(* call says, inside the file and its blocks; and clients whose calls stay *)
(* in a block read what was written (LittleFsData implements ByteFile).    *)
(***************************************************************************)
EXTENDS LittleFsData, WellFoundedInduction, TLAPS

-----------------------------------------------------------------------------
(* Numbers.                                                                *)

LEMMA Division ==
  ASSUME NEW a \in Nat, NEW b \in Nat \ {0}
  PROVE  /\ a \div b \in Nat /\ a % b \in Nat /\ a % b < b
         /\ a = (a \div b) * b + (a % b)
OBVIOUS

LEMMA DivisionIs ==
  ASSUME NEW b \in Nat \ {0}, NEW q \in Nat, NEW r \in Nat, r < b
  PROVE  (q * b + r) \div b = q /\ (q * b + r) % b = r
OBVIOUS

LEMMA LaterBlock ==
  ASSUME NEW b \in Nat \ {0}, NEW q \in Nat, NEW r \in Nat, q < r
  PROVE  q * b + b <= r * b
OBVIOUS

LEMMA LastElement ==
  ASSUME NEW S, S # {}, NEW n \in Nat, S \subseteq 0 .. n
  PROVE  \E m \in S : \A k \in S : k <= m
<1> DEFINE Down == {n - k : k \in S}
<1>1. Down \in SUBSET Nat /\ Down # {}
  OBVIOUS
<1>2. PICK x \in Down : \A y \in Down : <<y, x>> \notin OpToRel(<, Nat)
  BY <1>1, NatLessThanWellFounded, WFMin
<1>3. PICK m \in S : x = n - m
  OBVIOUS
<1>4. ASSUME NEW k \in S
      PROVE  k <= m
  <2>1. n - k \in Down /\ n - k \in Nat /\ n - m \in Nat
    OBVIOUS
  <2>2. ~(n - k < n - m)
    BY <1>2, <1>3, <2>1 DEF OpToRel
  <2> QED
    BY <2>1, <2>2
<1> QED
  BY <1>4

LEMMA Sizes0 ==
  /\ BSIZE \in Nat \ {0} /\ MAX_BLOCKS_PER_FILE \in Nat \ {0}
  /\ Capacity \in Nat \ {0} /\ Capacity = MAX_BLOCKS_PER_FILE * BSIZE
  /\ UINT \in Nat /\ UINT > Capacity
  /\ Direct = 0 .. MAX_BLOCKS_PER_FILE - 1
BY DataAssumption DEF Capacity, Direct

-----------------------------------------------------------------------------
(* The loop over the blocks.                                               *)

\* Where the bytes of block i that the loop asks for begin and end in the file.
BeginOf(i, off)  == i * BSIZE + InBlockOff(i, off)
EndOf(i, off, n) == BeginOf(i, off) + Chunk(i, off, n)

\* The bytes of block i that the loop asks for are those from where it begins to
\* where it ends, if the block has some.
LEMMA ChunkIs ==
  ASSUME NEW off \in Nat, NEW n \in Nat, NEW i \in Direct,
         off \div BSIZE <= i, i * BSIZE < off + n
  PROVE  /\ i \in Nat /\ i * BSIZE \in Nat
         /\ off < i * BSIZE + BSIZE
         /\ InBlockOff(i, off) \in Nat /\ InBlockOff(i, off) < BSIZE
         /\ BeginOf(i, off) = (IF off <= i * BSIZE THEN i * BSIZE ELSE off)
         /\ EndOf(i, off, n) = (IF off + n < i * BSIZE + BSIZE THEN off + n ELSE i * BSIZE + BSIZE)
         /\ Chunk(i, off, n) \in Nat
         /\ i * BSIZE + BSIZE <= Capacity
<1>1. /\ BSIZE \in Nat \ {0} /\ i \in Nat /\ i * BSIZE \in Nat
      /\ (i + 1) * BSIZE = i * BSIZE + BSIZE
  BY Sizes0
<1>2. off < i * BSIZE + BSIZE
  <2>1. off \div BSIZE \in Nat /\ off % BSIZE < BSIZE
        /\ off = (off \div BSIZE) * BSIZE + (off % BSIZE) /\ off % BSIZE \in Nat
    BY <1>1, Division
  <2>2. (off \div BSIZE) * BSIZE <= i * BSIZE
    BY <1>1, <2>1
  <2>3. \A x, y \in Nat : off = x + y /\ x <= i * BSIZE /\ y < BSIZE => off < i * BSIZE + BSIZE
    BY <1>1
  <2> QED
    BY <1>1, <2>1, <2>2, <2>3
<1>3. i * BSIZE + BSIZE <= Capacity
  BY <1>1, Sizes0, LaterBlock
<1>4. PICK x \in Nat : x = i * BSIZE
  BY <1>1
<1>5. InBlockOff(i, off) = IF off <= x THEN 0 ELSE off - x
  BY <1>4 DEF InBlockOff
<1>6. Chunk(i, off, n) = (IF off + n < x + BSIZE THEN off + n ELSE x + BSIZE)
                           - (x + InBlockOff(i, off))
  BY <1>1, <1>4 DEF Chunk
<1>7. BeginOf(i, off) = x + InBlockOff(i, off) /\ EndOf(i, off, n) = x + InBlockOff(i, off) + Chunk(i, off, n)
  BY <1>4 DEF BeginOf, EndOf
<1> QED
  BY <1>1, <1>2, <1>3, <1>4, <1>5, <1>6, <1>7

LEMMA ReachedIs ==
  ASSUME NEW ip, NEW off \in Nat, NEW n \in Nat, NEW i \in Reached(ip, off, n)
  PROVE  i \in Direct /\ n > 0 /\ off \div BSIZE <= i /\ i * BSIZE < off + n /\ ip.addr[i] # 0
<1>1. i \in Direct /\ n > 0 /\ off \div BSIZE <= i /\ i * BSIZE < off + n
      /\ \A j \in Direct : off \div BSIZE <= j /\ j <= i => ip.addr[j] # 0
  BY DEF Reached
<1>2. i <= i
  BY <1>1, Sizes0
<1> QED
  BY <1>1, <1>2

\* The bytes counted end no later than those asked for, and no earlier than those
\* of any block the loop gets to.
LEMMA CountedIs ==
  ASSUME NEW ip, NEW off \in Nat, NEW n \in Nat
  PROVE  /\ Counted(ip, off, n) \in 0 .. n
         /\ Reached(ip, off, n) = {} => Counted(ip, off, n) = 0
         /\ Counted(ip, off, n) > 0 => off + Counted(ip, off, n) <= Capacity
         /\ \A i \in Reached(ip, off, n) : EndOf(i, off, n) <= off + Counted(ip, off, n)
<1> DEFINE S == Reached(ip, off, n)
           last_i == CHOOSE i \in S : \A j \in S : j <= i
<1>1. CASE S = {}
  BY <1>1 DEF Counted
<1>2. CASE S # {}
  <2>1. S \subseteq 0 .. MAX_BLOCKS_PER_FILE - 1 /\ MAX_BLOCKS_PER_FILE - 1 \in Nat
    BY Sizes0 DEF Reached
  <2>2. last_i \in S /\ \A j \in S : j <= last_i
    BY <1>2, <2>1, LastElement
  <2>3. Counted(ip, off, n) = last_i * BSIZE + InBlockOff(last_i, off) + (Chunk(last_i, off, n) - off)
    BY <1>2 DEF Counted
  <2> HIDE DEF S, last_i
  <2>4. PICK i : i = last_i
    OBVIOUS
  <2>5. i \in Direct /\ off \div BSIZE <= i /\ i * BSIZE < off + n
    BY <2>2, <2>4, ReachedIs DEF S
  <2>6. PICK x \in Nat : x = i * BSIZE
    BY <2>5, ChunkIs
  <2>7. /\ off < x + BSIZE /\ BSIZE \in Nat /\ x + BSIZE <= Capacity /\ Capacity \in Nat
        /\ EndOf(i, off, n) = IF off + n < x + BSIZE THEN off + n ELSE x + BSIZE
    <3>1. /\ off < i * BSIZE + BSIZE /\ i * BSIZE + BSIZE <= Capacity
          /\ EndOf(i, off, n) = IF off + n < i * BSIZE + BSIZE THEN off + n ELSE i * BSIZE + BSIZE
      BY <2>5, ChunkIs
    <3> QED
      BY <2>6, <3>1, Sizes0
  <2>8. Counted(ip, off, n) = (IF off + n < x + BSIZE THEN off + n ELSE x + BSIZE) - off
    <3>1. /\ i * BSIZE \in Nat /\ InBlockOff(i, off) \in Nat /\ Chunk(i, off, n) \in Nat
      BY <2>5, ChunkIs
    <3>2. Counted(ip, off, n) = EndOf(i, off, n) - off
      BY <2>3, <2>4, <3>1 DEF EndOf, BeginOf
    <3> QED
      BY <2>7, <3>2
  <2>9. Counted(ip, off, n) \in 0 .. n
    BY <2>7, <2>8
  <2>10. ASSUME NEW k \in S
         PROVE  EndOf(k, off, n) <= off + Counted(ip, off, n)
    <3>1. k \in Direct /\ off \div BSIZE <= k /\ k * BSIZE < off + n /\ k <= i
      BY <2>2, <2>4, <2>10, ReachedIs DEF S
    <3>2. PICK y \in Nat : y = k * BSIZE
      BY <3>1, ChunkIs
    <3>3. y <= x
      <4>1. k \in Nat /\ i \in Nat /\ BSIZE \in Nat \ {0}
        BY <2>5, <3>1, Sizes0
      <4>2. CASE k = i
        BY <2>6, <3>2, <4>2
      <4>3. CASE k < i
        BY <2>6, <3>2, <4>1, <4>3, LaterBlock
      <4> QED
        BY <3>1, <4>1, <4>2, <4>3
    <3>4. EndOf(k, off, n) = IF off + n < y + BSIZE THEN off + n ELSE y + BSIZE
      BY <3>1, <3>2, ChunkIs
    <3> QED
      BY <2>7, <2>8, <3>2, <3>3, <3>4
  <2> QED
    BY <1>2, <2>7, <2>8, <2>9, <2>10 DEF S
<1> QED
  BY <1>1, <1>2

-----------------------------------------------------------------------------
(* The invariant.                                                          *)

\* The inode of a file opened with FS_O_TRUNC.
Emptied == [size |-> 0, addr |-> [i \in Direct |-> 0]]

\* No block is in two places of the inodes.
OwnBlocks == \A f, g \in Files, i, j \in Direct :
  dinode[f].addr[i] = dinode[g].addr[j] /\ dinode[f].addr[i] # 0 => f = g /\ i = j

\* An open file has its inode as it is on the device, or emptied.
CopiesOf(opened) == \A d \in DOMAIN opened : opened[d].ip \in {dinode[opened[d].inum], Emptied}

DataInv ==
  /\ TypeOK
  /\ \A f \in Files : dinode[f].size < Capacity
  /\ OwnBlocks
  /\ CopiesOf(files)
  /\ last.op # "none" => last.file \in Files
  /\ BytesInFile

LEMMA FileIs ==
  ASSUME DataInv, NEW d \in DOMAIN files
  PROVE  /\ files[d] \in File /\ files[d].inum \in Files /\ files[d].ip \in Inode
         /\ files[d].off \in Nat /\ files[d].off < UINT
         /\ files[d].ip.size \in Nat /\ files[d].ip.size <= dinode[files[d].inum].size
         /\ dinode[files[d].inum].size \in Nat /\ dinode[files[d].inum].size < Capacity
         /\ files[d].ip \in {dinode[files[d].inum], Emptied}
<1>1. files \in Seq(File) /\ files[d] \in File /\ dinode \in [Files -> Inode]
  BY DEF DataInv, TypeOK
<1>2. /\ files[d].inum \in Files /\ files[d].ip \in Inode /\ files[d].off \in 0 .. UINT - 1
  BY <1>1 DEF File
<1>3. dinode[files[d].inum] \in Inode /\ dinode[files[d].inum].size < Capacity
      /\ files[d].ip \in {dinode[files[d].inum], Emptied}
  BY <1>1, <1>2 DEF DataInv, CopiesOf
<1>4. \A ip \in Inode : ip.size \in Nat
  BY Sizes0 DEF Inode
<1>5. Emptied.size = 0
  BY DEF Emptied
<1> QED
  BY <1>1, <1>2, <1>3, <1>4, <1>5, Sizes0

LEMMA InitKeeps == Init => DataInv
<1> SUFFICES ASSUME Init
             PROVE  DataInv
  OBVIOUS
<1>1. PICK img \in Images : dinode = img.dinode /\ block = img.block
  BY DEF Init
<1>2. files = <<>> /\ locked = 0 /\ last = [op |-> "none"]
  BY DEF Init
<1>3. TypeOK
  BY <1>1, <1>2, DataAssumption, DataImagesAssumption DEF TypeOK
<1>4. (\A f \in Files : dinode[f].size < Capacity) /\ OwnBlocks
  BY <1>1, DataImagesAssumption DEF OwnBlocks
<1>5. CopiesOf(files) /\ (last.op # "none" => last.file \in Files) /\ BytesInFile
  BY <1>2 DEF CopiesOf, BytesInFile
<1> QED
  BY <1>3, <1>4, <1>5 DEF DataInv

\* A step that leaves the device and the last result.
LEMMA TableKeeps ==
  ASSUME DataInv, UNCHANGED <<dinode, block, last>>, files' \in Seq(File),
         Len(files') <= MAX_FILES_OPENED, locked' \in 0 .. INMEM_INODES_NUM, CopiesOf(files')
  PROVE  DataInv'
BY DEF DataInv, TypeOK, OwnBlocks, CopiesOf, BytesInFile

LEMMA OpenKeeps ==
  ASSUME DataInv, NEW f \in Files, NEW flags, fs_open(f, flags)
  PROVE  DataInv'
<1>1. UNCHANGED <<dinode, block, last>> /\ locked' \in 0 .. INMEM_INODES_NUM
  BY DataAssumption DEF DataInv, TypeOK, fs_open
<1>2. dinode[f] \in Inode
  BY DEF DataInv, TypeOK
<1>3. Emptied \in Inode
  BY Sizes0 DEF Emptied, Inode
<1>4. PICK file : /\ files' = Append(files, file)
                  /\ file = [inum |-> f, off |-> 0,
                       ip |-> IF "FS_O_TRUNC" \in flags THEN fs_trunc_inode(dinode[f]) ELSE dinode[f],
                       readable |-> "FS_O_WRONLY" \notin flags,
                       writable |-> {"FS_O_WRONLY", "FS_O_RDWR"} \cap flags # {}]
  BY DEF fs_open
<1>5. file.ip \in {dinode[f], Emptied} /\ file.inum = f /\ file \in File
  <2>1. fs_trunc_inode(dinode[f]) \in {dinode[f], Emptied}
    BY DEF fs_trunc_inode, Emptied
  <2>2. PICK ip : ip = IF "FS_O_TRUNC" \in flags THEN fs_trunc_inode(dinode[f]) ELSE dinode[f]
    OBVIOUS
  <2>3. ip \in {dinode[f], Emptied}
    BY <2>1, <2>2
  <2>4. file = [inum |-> f, off |-> 0, ip |-> ip,
                readable |-> "FS_O_WRONLY" \notin flags,
                writable |-> {"FS_O_WRONLY", "FS_O_RDWR"} \cap flags # {}]
    BY <1>4, <2>2
  <2>5. 0 \in 0 .. UINT - 1
    BY Sizes0
  <2> QED
    BY <1>2, <1>3, <2>3, <2>4, <2>5 DEF File
<1>6. files \in Seq(File) /\ Len(files) <= MAX_FILES_OPENED /\ Len(files) # MAX_FILES_OPENED
      /\ MAX_FILES_OPENED \in Nat
  BY DataAssumption DEF DataInv, TypeOK, fs_open, CanOpen
<1>7. files' \in Seq(File) /\ Len(files') <= MAX_FILES_OPENED
  BY <1>4, <1>5, <1>6
<1>8. CopiesOf(files')
  <2> SUFFICES ASSUME NEW d \in DOMAIN files'
               PROVE  files'[d].ip \in {dinode[files'[d].inum], Emptied}
    BY DEF CopiesOf
  <2>1. CASE d \in DOMAIN files
    BY <1>4, <1>6, <2>1 DEF DataInv, CopiesOf
  <2>2. CASE d \notin DOMAIN files
    BY <1>4, <1>5, <1>6, <2>2
  <2> QED
    BY <2>1, <2>2
<1> QED
  BY <1>1, <1>7, <1>8, TableKeeps

LEMMA EndsKeep ==
  ASSUME DataInv, fs_close \/ Restart \/ UNCHANGED vars
  PROVE  DataInv'
<1>1. files \in Seq(File) /\ Len(files) <= MAX_FILES_OPENED /\ locked \in 0 .. INMEM_INODES_NUM
      /\ MAX_FILES_OPENED \in Nat /\ INMEM_INODES_NUM \in Nat
  BY DataAssumption DEF DataInv, TypeOK
<1>2. UNCHANGED <<dinode, block, last>> /\ locked' \in 0 .. INMEM_INODES_NUM
  BY <1>1 DEF fs_close, Restart, vars
<1>3. PICK n \in 0 .. Len(files) : files' = SubSeq(files, 1, n)
  <2>1. CASE fs_close
    <3>1. Len(files) - 1 \in 0 .. Len(files)
      BY <1>1, <2>1 DEF fs_close
    <3> QED
      BY <2>1, <3>1 DEF fs_close
  <2>2. CASE Restart
    <3>1. files' = SubSeq(files, 1, 0)
      BY <1>1, <2>2 DEF Restart
    <3> QED
      BY <1>1, <3>1
  <2>3. CASE UNCHANGED vars
    <3>1. files' = SubSeq(files, 1, Len(files))
      BY <1>1, <2>3 DEF vars
    <3> QED
      BY <1>1, <3>1
  <2> QED
    BY <2>1, <2>2, <2>3
<1>4. files' \in Seq(File) /\ Len(files') <= MAX_FILES_OPENED
      /\ \A d \in DOMAIN files' : d \in DOMAIN files /\ files'[d] = files[d]
  BY <1>1, <1>3
<1>5. CopiesOf(files')
  BY <1>4 DEF DataInv, CopiesOf
<1> QED
  BY <1>2, <1>4, <1>5, TableKeeps

\* The offset of one open file moves.
LEMMA Moved ==
  ASSUME DataInv, NEW d \in DOMAIN files, NEW o \in Nat, o < UINT,
         files' = [files EXCEPT ![d].off = o], UNCHANGED dinode
  PROVE  files' \in Seq(File) /\ Len(files') <= MAX_FILES_OPENED /\ CopiesOf(files)'
<1>1. files \in Seq(File) /\ Len(files) <= MAX_FILES_OPENED /\ files[d] \in File
  BY DEF DataInv, TypeOK
<1> DEFINE moved == [files[d] EXCEPT !.off = o]
<1>2. moved \in File /\ moved.ip = files[d].ip /\ moved.inum = files[d].inum
  <2>1. o \in 0 .. UINT - 1
    BY Sizes0
  <2> QED
    BY <1>1, <2>1 DEF File
<1>3. files' = [files EXCEPT ![d] = moved]
  OBVIOUS
<1> HIDE DEF moved
<1>4. files' \in Seq(File) /\ Len(files') = Len(files) /\ DOMAIN files' = DOMAIN files
  BY <1>1, <1>2, <1>3
<1>5. \A c \in DOMAIN files' : files'[c].ip = files[c].ip /\ files'[c].inum = files[c].inum
  BY <1>1, <1>2, <1>3
<1> QED
  BY <1>1, <1>4, <1>5 DEF DataInv, CopiesOf

LEMMA BytesToReadIs ==
  ASSUME DataInv, NEW d \in DOMAIN files, NEW size \in Nat
  PROVE  /\ BytesToRead(files[d], size) \in Nat /\ BytesToRead(files[d], size) <= size
         /\ BytesToRead(files[d], size) > 0 =>
              files[d].off + BytesToRead(files[d], size) <= files[d].ip.size
BY FileIs DEF BytesToRead

LEMMA ReadKeeps ==
  ASSUME DataInv, NEW d \in DOMAIN files, NEW size \in Sizes, fs_read(d, size)
  PROVE  DataInv'
<1> DEFINE f == files[d]
           n == BytesToRead(f, size)
           k == Counted(f.ip, f.off, n)
<1>1. /\ f.off \in Nat /\ f.off < UINT /\ f.inum \in Files
      /\ f.ip.size \in Nat /\ f.ip.size <= dinode[f.inum].size /\ dinode[f.inum].size \in Nat
      /\ dinode[f.inum].size < Capacity /\ Capacity < UINT /\ UINT \in Nat /\ Capacity \in Nat
  BY FileIs, Sizes0
<1>2. size \in Nat
  BY DataAssumption
<1>3. n \in Nat /\ (n > 0 => f.off + n <= f.ip.size)
  BY <1>2, BytesToReadIs
<1>4. k \in 0 .. n
  BY <1>1, <1>3, CountedIs
<1>5. UNCHANGED <<dinode, block, locked>>
  BY DEF fs_read
<1>6. \/ last' = Answer("read", f, -1, <<>>) /\ UNCHANGED files
      \/ \E data : last' = Answer("read", f, k, data) /\ files' = [files EXCEPT ![d].off = @ + k]
  BY DEF fs_read
<1> HIDE DEF k, n
<1>7. PICK m \in {-1, k} : \E data : last' = Answer("read", f, m, data)
  BY <1>6
<1>8. /\ last'.op = "read" /\ last'.file = f.inum /\ last'.at = f.off /\ last'.n = m
  BY <1>7 DEF Answer
<1>9. files' \in Seq(File) /\ Len(files') <= MAX_FILES_OPENED /\ CopiesOf(files)'
  <2>1. CASE UNCHANGED files
    BY <1>5, <2>1 DEF DataInv, TypeOK, CopiesOf
  <2>2. CASE files' = [files EXCEPT ![d].off = @ + k]
    <3>1. f.off + k \in Nat /\ f.off + k < UINT
      BY <1>1, <1>3, <1>4
    <3>2. files' = [files EXCEPT ![d].off = files[d].off + k]
      BY <2>2
    <3> QED
      BY <1>5, <3>1, <3>2, Moved
  <2> QED
    BY <1>6, <2>1, <2>2
<1>10. BytesInFile'
  BY <1>1, <1>3, <1>4, <1>5, <1>7, <1>8 DEF BytesInFile
<1>11. OwnBlocks' /\ (\A g \in Files : dinode'[g].size < Capacity)
  BY <1>5 DEF DataInv, OwnBlocks
<1> QED
  BY <1>1, <1>5, <1>8, <1>9, <1>10, <1>11 DEF DataInv, TypeOK, CopiesOf

\* What a write leaves of the blocks.
LEMMA BlocksAfterIs ==
  ASSUME DataInv, NEW ip, NEW off \in Nat, NEW buf \in Seq(Bytes)
  PROVE  BlocksAfter(ip, off, buf) \in [Blocks -> Block]
<1>1. block \in [Blocks -> Block] /\ BSIZE \in Nat
  BY Sizes0 DEF DataInv, TypeOK
<1> SUFFICES ASSUME NEW b \in Blocks
             PROVE  BlocksAfter(ip, off, buf)[b] \in Block
  BY DEF BlocksAfter
<1> DEFINE here == {i \in Reached(ip, off, Len(buf)) : ip.addr[i] = b}
           i    == CHOOSE i \in here : TRUE
           in(o) == o - InBlockOff(i, off) \in 0 .. Chunk(i, off, Len(buf)) - 1
           after == [o \in 0 .. BSIZE - 1 |->
                       IF in(o) THEN buf[o - InBlockOff(i, off) + 1] ELSE block[b][o]]
<1>2. BlocksAfter(ip, off, buf)[b] = IF here = {} THEN block[b] ELSE after
  BY DEF BlocksAfter
<1>3. ASSUME here # {}
      PROVE  after \in Block
  <2>1. i \in Reached(ip, off, Len(buf)) /\ Len(buf) \in Nat
    BY <1>3
  <2> HIDE DEF i
  <2>2. i \in Direct /\ off \div BSIZE <= i /\ i * BSIZE < off + Len(buf)
    BY <2>1, ReachedIs
  <2>3. Chunk(i, off, Len(buf)) <= Len(buf) /\ Chunk(i, off, Len(buf)) \in Nat
        /\ InBlockOff(i, off) \in Nat
    <3>1. /\ i * BSIZE \in Nat /\ InBlockOff(i, off) \in Nat /\ Chunk(i, off, Len(buf)) \in Nat
      BY <2>1, <2>2, ChunkIs
    <3>2. BeginOf(i, off) >= off /\ BeginOf(i, off) \in Nat
      BY <2>1, <2>2, <3>1, ChunkIs
    <3>3. EndOf(i, off, Len(buf)) <= off + Len(buf)
      <4>1. PICK x \in Nat : x = i * BSIZE
        BY <3>1
      <4>2. EndOf(i, off, Len(buf)) = IF off + Len(buf) < x + BSIZE THEN off + Len(buf) ELSE x + BSIZE
        BY <2>1, <2>2, <4>1, ChunkIs
      <4> QED
        BY <1>1, <2>1, <4>2
    <3>4. EndOf(i, off, Len(buf)) = BeginOf(i, off) + Chunk(i, off, Len(buf))
      BY DEF EndOf
    <3> QED
      BY <2>1, <3>1, <3>2, <3>3, <3>4
  <2>4. ASSUME NEW o \in 0 .. BSIZE - 1
        PROVE  after[o] \in Bytes
    <3>1. block[b][o] \in Bytes
      BY <1>1 DEF Block
    <3>2. in(o) => o - InBlockOff(i, off) + 1 \in 1 .. Len(buf)
      BY <1>1, <2>1, <2>3
    <3>3. in(o) => buf[o - InBlockOff(i, off) + 1] \in Bytes
      BY <3>2
    <3> QED
      BY <3>1, <3>3
  <2> HIDE DEF in
  <2> QED
    BY <2>4 DEF Block
<1>4. block[b] \in Block
  BY <1>1
<1> QED
  BY <1>2, <1>3, <1>4

LEMMA WriteKeeps ==
  ASSUME DataInv, NEW d \in DOMAIN files, NEW buf \in Buffers, fs_write(d, buf)
  PROVE  DataInv'
<1> DEFINE f == files[d]
           n == Len(buf)
           k == Counted(f.ip, f.off, n)
<1>1. /\ f.off \in Nat /\ f.off < UINT /\ f.inum \in Files
      /\ f.ip.size \in Nat /\ f.ip.size <= dinode[f.inum].size /\ dinode[f.inum].size \in Nat
      /\ dinode[f.inum].size < Capacity /\ Capacity < UINT /\ UINT \in Nat /\ Capacity \in Nat
  BY FileIs, Sizes0
<1>2. buf \in Seq(Bytes) /\ n \in Nat
  BY DataAssumption
<1>3. k \in 0 .. n
  BY <1>1, <1>2, CountedIs
<1>4. UNCHANGED <<dinode, locked>>
  BY DEF fs_write
<1>5. \/ last' = Answer("write", f, -1, <<>>) /\ UNCHANGED <<block, files>>
      \/ /\ last' = Answer("write", f, -1, <<>>) /\ UNCHANGED block
         /\ files' = [files EXCEPT ![d].off = (@ + UINT - 1) % UINT]
      \/ /\ ~Refused(f, n) /\ block' = BlocksAfter(f.ip, f.off, buf)
         /\ \E data : last' = Answer("write", f, k, data)
         /\ files' = [files EXCEPT ![d].off = @ + k]
  BY DEF fs_write
<1>6. ~Refused(f, n) => f.off <= f.ip.size /\ f.off + n <= Capacity
  BY <1>1, <1>2 DEF Refused
<1> HIDE DEF k
<1>7. \E m, data : last' = Answer("write", f, m, data) /\ (m = -1 \/ (m = k /\ ~Refused(f, n)))
  BY <1>5
<1>8. PICK m, data : last' = Answer("write", f, m, data) /\ (m = -1 \/ (m = k /\ ~Refused(f, n)))
  BY <1>7
<1>9. last'.op = "write" /\ last'.file = f.inum /\ last'.at = f.off /\ last'.n = m
  BY <1>8 DEF Answer
<1>10. files' \in Seq(File) /\ Len(files') <= MAX_FILES_OPENED /\ CopiesOf(files)'
  <2>1. CASE UNCHANGED files
    BY <1>4, <2>1 DEF DataInv, TypeOK, CopiesOf
  <2>2. CASE files' = [files EXCEPT ![d].off = (@ + UINT - 1) % UINT]
    <3>1. PICK o \in Nat : o = (f.off + UINT - 1) % UINT /\ o < UINT
      <4>1. f.off + UINT - 1 \in Nat /\ UINT \in Nat \ {0}
        BY <1>1
      <4> QED
        BY <4>1, Division
    <3>2. files' = [files EXCEPT ![d].off = o]
      BY <2>2, <3>1
    <3> QED
      BY <1>4, <3>1, <3>2, Moved
  <2>3. CASE ~Refused(f, n) /\ files' = [files EXCEPT ![d].off = @ + k]
    <3>1. f.off + k \in Nat /\ f.off + k < UINT
      BY <1>1, <1>2, <1>3, <1>6, <2>3
    <3>2. files' = [files EXCEPT ![d].off = files[d].off + k]
      BY <2>3
    <3> QED
      BY <1>4, <3>1, <3>2, Moved
  <2> QED
    BY <1>5, <2>1, <2>2, <2>3
<1>11. block' \in [Blocks -> Block]
  <2>1. BlocksAfter(f.ip, f.off, buf) \in [Blocks -> Block]
    BY <1>1, <1>2, BlocksAfterIs
  <2>2. block' = block \/ block' = BlocksAfter(f.ip, f.off, buf)
    BY <1>5
  <2> QED
    BY <2>1, <2>2 DEF DataInv, TypeOK
<1>12. BytesInFile'
  <2>1. ASSUME last'.n > 0
        PROVE  last'.at <= dinode'[last'.file].size /\ last'.at + last'.n <= Capacity
    <3>1. m = k /\ f.off <= f.ip.size /\ f.off + n <= Capacity
      BY <1>6, <1>8, <1>9, <2>1
    <3> QED
      BY <1>1, <1>2, <1>3, <1>4, <1>9, <3>1
  <2> QED
    BY <1>9, <2>1 DEF BytesInFile
<1>13. OwnBlocks' /\ (\A g \in Files : dinode'[g].size < Capacity)
  BY <1>4 DEF DataInv, OwnBlocks
<1> QED
  BY <1>1, <1>4, <1>9, <1>10, <1>11, <1>12, <1>13 DEF DataInv, TypeOK, CopiesOf

LEMMA StepKeeps == DataInv /\ [Next]_vars => DataInv'
<1> SUFFICES ASSUME DataInv, [Next]_vars
             PROVE  DataInv'
  OBVIOUS
<1>1. CASE \E f \in Files, flags \in Flags : fs_open(f, flags)
  BY <1>1, OpenKeeps
<1>2. CASE \E d \in DOMAIN files, size \in Sizes : fs_read(d, size)
  BY <1>2, ReadKeeps
<1>3. CASE \E d \in DOMAIN files, buf \in Buffers : fs_write(d, buf)
  BY <1>3, WriteKeeps
<1>4. CASE fs_close \/ Restart \/ UNCHANGED vars
  BY <1>4, EndsKeep
<1> QED
  BY <1>1, <1>2, <1>3, <1>4 DEF Next

LEMMA DataInvariance == Spec => []DataInv
BY InitKeeps, StepKeeps, PTL DEF Spec

\* Every variable has its type, the offset of an open file that of a uint32_t.
THEOREM DataTypes == Spec => []TypeOK
<1>1. DataInv => TypeOK
  BY DEF DataInv
<1> QED
  BY <1>1, DataInvariance, PTL

\* Whatever clients ask for, and whatever a refused write leaves in the offset,
\* what a read or a write reports lies in the file or the most it can hold.
THEOREM BytesLieInFile == Spec => []BytesInFile
<1>1. DataInv => BytesInFile
  BY DEF DataInv
<1> QED
  BY <1>1, DataInvariance, PTL

-----------------------------------------------------------------------------
(* The bytes of a file.                                                    *)

LEMMA PlaceOf ==
  ASSUME NEW o \in 0 .. Capacity - 1
  PROVE  /\ o \in Nat /\ o \div BSIZE \in Direct /\ o % BSIZE \in 0 .. BSIZE - 1
         /\ o = (o \div BSIZE) * BSIZE + (o % BSIZE)
<1>1. o \in Nat /\ BSIZE \in Nat \ {0} /\ MAX_BLOCKS_PER_FILE \in Nat
      /\ Capacity = MAX_BLOCKS_PER_FILE * BSIZE /\ o < Capacity
  BY Sizes0
<1>2. PICK q \in Nat, r \in Nat : q = o \div BSIZE /\ r = o % BSIZE /\ r < BSIZE /\ o = q * BSIZE + r
  BY <1>1, Division
<1>3. q < MAX_BLOCKS_PER_FILE
  <2> SUFFICES ASSUME MAX_BLOCKS_PER_FILE <= q
               PROVE  FALSE
    BY <1>1, <1>2
  <2>1. MAX_BLOCKS_PER_FILE * BSIZE <= q * BSIZE
    BY <1>1, <1>2
  <2> QED
    BY <1>1, <1>2, <2>1
<1> QED
  BY <1>1, <1>2, <1>3, Sizes0

LEMMA ContentIs ==
  ASSUME NEW f \in Files, NEW o \in 0 .. Capacity - 1
  PROVE  /\ Content[f][o] = IF dinode[f].addr[o \div BSIZE] = 0 THEN 0
                            ELSE block[dinode[f].addr[o \div BSIZE]][o % BSIZE]
         /\ Content'[f][o] = IF dinode'[f].addr[o \div BSIZE] = 0 THEN 0
                             ELSE block'[dinode'[f].addr[o \div BSIZE]][o % BSIZE]
BY DEF Content

\* A write of n bytes from off gives block q the byte at o of the file.
Writes(q, ip, off, n, o) ==
  q \in Reached(ip, off, n) /\ BeginOf(q, off) <= o /\ o < EndOf(q, off, n)

\* What a write of buf from off, on a descriptor of file f with the inode ip,
\* makes of the byte at o of file g.
ByteIs(f, ip, off, buf, g, o) ==
  LET q == o \div BSIZE
      b == dinode[g].addr[q]
  IN  BlocksAfter(ip, off, buf)[b][o % BSIZE] =
        IF f = g /\ Writes(q, ip, off, Len(buf), o) THEN buf[o - BeginOf(q, off) + 1]
                                                     ELSE block[b][o % BSIZE]

LEMMA ByteAfter ==
  ASSUME DataInv, NEW f \in Files, NEW ip, ip = dinode[f] \/ ip = Emptied, NEW off \in Nat,
         NEW buf \in Seq(Bytes), NEW g \in Files, NEW o \in 0 .. Capacity - 1,
         dinode[g].addr[o \div BSIZE] # 0
  PROVE  ByteIs(f, ip, off, buf, g, o)
<1>0. PICK q : q = o \div BSIZE
  OBVIOUS
<1>9. PICK r : r = o % BSIZE
  OBVIOUS
<1> SUFFICES BlocksAfter(ip, off, buf)[dinode[g].addr[q]][r] =
               IF f = g /\ Writes(q, ip, off, Len(buf), o) THEN buf[o - BeginOf(q, off) + 1]
                                                            ELSE block[dinode[g].addr[q]][r]
  BY <1>0, <1>9 DEF ByteIs
<1>1. /\ q \in Direct /\ o % BSIZE \in 0 .. BSIZE - 1 /\ o \in Nat /\ BSIZE \in Nat
      /\ o = q * BSIZE + (o % BSIZE) /\ Len(buf) \in Nat
  <2>1. Len(buf) \in Nat
    OBVIOUS
  <2> QED
    BY <2>1, <1>0, PlaceOf, Sizes0
<1>2. PICK b : b = dinode[g].addr[q]
  OBVIOUS
<1>3. b \in Blocks
  <2>1. b # 0
    BY <1>0, <1>2
  <2>2. q \in Direct
    BY <1>1
  <2> QED
    BY <1>2, <2>1, <2>2 DEF DataInv, TypeOK, Inode
<1>4. r = o % BSIZE /\ r \in 0 .. BSIZE - 1
  BY <1>1, <1>9
<1> DEFINE here == {i \in Reached(ip, off, Len(buf)) : ip.addr[i] = b}
           i    == CHOOSE i \in here : TRUE
<1>5. BlocksAfter(ip, off, buf)[b][r] =
        IF here = {} THEN block[b][r]
        ELSE IF r - InBlockOff(i, off) \in 0 .. Chunk(i, off, Len(buf)) - 1
             THEN buf[r - InBlockOff(i, off) + 1] ELSE block[b][r]
  BY <1>3, <1>4 DEF BlocksAfter
<1>6. ASSUME NEW k \in Reached(ip, off, Len(buf))
      PROVE  ip = dinode[f] /\ k \in Direct /\ ip.addr[k] # 0
  <2>1. k \in Direct /\ ip.addr[k] # 0
    BY <1>1, <1>6, ReachedIs
  <2>2. Emptied.addr[k] = 0
    BY <2>1 DEF Emptied
  <2> QED
    BY <2>1, <2>2
<1>7. CASE here = {}
  <2>1. ~(f = g /\ Writes(q, ip, off, Len(buf), o))
    BY <1>2, <1>6, <1>7 DEF Writes
  <2> QED
    BY <1>2, <1>4, <1>5, <1>7, <2>1
<1>8. CASE here # {}
  <2>1. i \in Reached(ip, off, Len(buf)) /\ ip.addr[i] = b
    BY <1>8
  <2> HIDE DEF i, here
  <2>2. f = g /\ i = q
    <3>1. PICK k : k = i
      OBVIOUS
    <3>2. dinode[f].addr[k] = dinode[g].addr[q] /\ dinode[f].addr[k] # 0 /\ k \in Direct
      BY <1>2, <1>6, <2>1, <3>1
    <3>3. OwnBlocks
      BY DEF DataInv
    <3>4. q \in Direct
      BY <1>1
    <3>5. f = g /\ k = q
      BY <3>2, <3>3, <3>4 DEF OwnBlocks
    <3> QED
      BY <3>1, <3>5
  <2>3. q \in Reached(ip, off, Len(buf))
    BY <2>1, <2>2
  <2>4. Len(buf) \in Nat /\ off \div BSIZE <= q /\ q * BSIZE < off + Len(buf)
    BY <1>1, <2>3, ReachedIs
  <2>5. q * BSIZE \in Nat /\ InBlockOff(q, off) \in Nat /\ Chunk(q, off, Len(buf)) \in Nat
    BY <1>1, <2>4, ChunkIs
  <2>6. PICK x \in Nat : x = q * BSIZE
    BY <2>5
  <2>7. /\ BeginOf(q, off) = x + InBlockOff(q, off) /\ o = x + r
        /\ EndOf(q, off, Len(buf)) = x + InBlockOff(q, off) + Chunk(q, off, Len(buf))
    BY <1>1, <1>4, <2>5, <2>6 DEF BeginOf, EndOf
  <2>70. PICK a \in Nat, c \in Nat : a = InBlockOff(q, off) /\ c = Chunk(q, off, Len(buf))
    BY <2>5
  <2>71. BeginOf(q, off) = x + a /\ o = x + r /\ EndOf(q, off, Len(buf)) = x + a + c /\ r \in Nat
    BY <1>4, <2>7, <2>70
  <2>8. r - InBlockOff(q, off) = o - BeginOf(q, off)
    BY ONLY <2>70, <2>71, x \in Nat
  <2>9. r - InBlockOff(q, off) \in 0 .. Chunk(q, off, Len(buf)) - 1
          <=> BeginOf(q, off) <= o /\ o < EndOf(q, off, Len(buf))
    <3>1. r \in Nat /\ o = x + r
      BY <2>71
    <3>2. r - a \in 0 .. c - 1 <=> x + a <= o /\ o < x + a + c
      BY ONLY <3>1, x \in Nat, a \in Nat, c \in Nat
    <3> QED
      BY <2>70, <2>71, <3>2
  <2> QED
    BY <1>2, <1>4, <1>5, <1>8, <2>2, <2>3, <2>8, <2>9 DEF Writes
<1> QED
  BY <1>7, <1>8

\* Whatever clients ask for, a byte of a file changes only in a write on a
\* descriptor of the file, and among the bytes that the write reports.
THEOREM WritesTouchTheirBytes == Spec => WritesStayInRange
<1>1. ASSUME DataInv, [Next]_vars, NEW g \in Files, NEW o \in 0 .. Capacity - 1,
             Content'[g][o] # Content[g][o]
      PROVE  last'.op = "write" /\ last'.file = g /\ o - last'.at \in 0 .. last'.n - 1
  <2>1. UNCHANGED dinode
    BY <1>1 DEF Next, vars, fs_open, fs_read, fs_write, fs_close, Restart
  <2>2. block' # block
    BY <1>1, <2>1, ContentIs
  <2>3. PICK d \in DOMAIN files, buf \in Buffers : fs_write(d, buf)
    BY <1>1, <2>2 DEF Next, vars, fs_open, fs_read, fs_close, Restart
  <2> DEFINE f == files[d]
             k == Counted(f.ip, f.off, Len(buf))
  <2>4. /\ block' = BlocksAfter(f.ip, f.off, buf)
        /\ last' = Answer("write", f, k, SubSeq(buf, 1, k))
    BY <2>2, <2>3 DEF fs_write
  <2>5. /\ f.off \in Nat /\ f.inum \in Files /\ f.ip \in {dinode[f.inum], Emptied}
    BY <1>1, FileIs
  <2>6. buf \in Seq(Bytes) /\ Len(buf) \in Nat
    BY DataAssumption
  <2>7. last'.op = "write" /\ last'.file = f.inum /\ last'.at = f.off /\ last'.n = k
    BY <2>4 DEF Answer
  <2>8. k \in Nat
    <3>1. k \in 0 .. Len(buf)
      BY <2>5, <2>6, CountedIs
    <3> QED
      BY <2>6, <3>1
  <2> HIDE DEF k
  <2>9. PICK q : q = o \div BSIZE
    OBVIOUS
  <2>10. dinode[g].addr[q] # 0 /\ block'[dinode[g].addr[q]][o % BSIZE] # block[dinode[g].addr[q]][o % BSIZE]
    BY <1>1, <2>1, <2>9, ContentIs
  <2>11. /\ f.inum = g /\ q \in Reached(f.ip, f.off, Len(buf))
         /\ BeginOf(q, f.off) <= o /\ o < EndOf(q, f.off, Len(buf))
    <3>1. BlocksAfter(f.ip, f.off, buf)[dinode[g].addr[q]][o % BSIZE] =
            IF f.inum = g /\ Writes(q, f.ip, f.off, Len(buf), o)
            THEN buf[o - BeginOf(q, f.off) + 1]
            ELSE block[dinode[g].addr[q]][o % BSIZE]
      <4>1. PICK ip, off, h : ip = f.ip /\ off = f.off /\ h = f.inum
        OBVIOUS
      <4>2. (ip = dinode[h] \/ ip = Emptied) /\ off \in Nat /\ h \in Files
        BY <2>5, <4>1
      <4>3. ByteIs(h, ip, off, buf, g, o)
        BY <1>1, <2>6, <2>9, <2>10, <4>2, ByteAfter
      <4> QED
        BY <2>9, <4>1, <4>3 DEF ByteIs
    <3> QED
      BY <2>4, <2>10, <3>1 DEF Writes
  <2>12. q \in Direct /\ f.off \div BSIZE <= q /\ q * BSIZE < f.off + Len(buf)
    BY <2>5, <2>6, <2>11, ReachedIs
  <2>13. f.off <= BeginOf(q, f.off) /\ BeginOf(q, f.off) \in Nat /\ EndOf(q, f.off, Len(buf)) \in Nat
    <3>1. PICK x \in Nat : x = q * BSIZE
      BY <2>5, <2>6, <2>12, ChunkIs
    <3>2. /\ BeginOf(q, f.off) = (IF f.off <= x THEN x ELSE f.off)
          /\ EndOf(q, f.off, Len(buf)) =
               (IF f.off + Len(buf) < x + BSIZE THEN f.off + Len(buf) ELSE x + BSIZE)
      BY <2>5, <2>6, <2>12, <3>1, ChunkIs
    <3> QED
      BY <2>5, <2>6, <3>1, <3>2, Sizes0
  <2>14. EndOf(q, f.off, Len(buf)) <= f.off + k
    BY <2>5, <2>6, <2>11, CountedIs DEF k
  <2>15. o \in Nat
    BY Sizes0
  <2> QED
    BY <2>5, <2>7, <2>8, <2>11, <2>13, <2>14, <2>15
<1>2. DataInv /\ [Next]_vars =>
        [\A f \in Files, o \in 0 .. Capacity - 1 :
           Content'[f][o] # Content[f][o] =>
             /\ last'.op = "write" /\ last'.file = f
             /\ o - last'.at \in 0 .. last'.n - 1]_vars
  BY <1>1
<1> QED
  BY <1>2, DataInvariance, PTL DEF Spec, WritesStayInRange

-----------------------------------------------------------------------------
(* The refinement, for clients whose calls stay in one block.               *)

\* The descriptors as ByteFile knows them.
ViewsOf(opened) == [d \in DOMAIN opened |-> [file  |-> opened[d].inum,
                                             off   |-> opened[d].off,
                                             limit |-> opened[d].ip.size]]
View == [file : Files, off : Nat, limit : 0 .. Capacity]

LEMMA ViewsAre ==
  ASSUME NEW opened \in Seq(File)
  PROVE  ViewsOf(opened) \in Seq(View) /\ Len(ViewsOf(opened)) = Len(opened)
<1>1. \A d \in DOMAIN opened : [file |-> opened[d].inum, off |-> opened[d].off,
                                limit |-> opened[d].ip.size] \in View
  <2> SUFFICES ASSUME NEW d \in DOMAIN opened
               PROVE  [file |-> opened[d].inum, off |-> opened[d].off,
                       limit |-> opened[d].ip.size] \in View
    OBVIOUS
  <2>1. opened[d] \in File
    OBVIOUS
  <2>2. opened[d].inum \in Files /\ opened[d].ip \in Inode /\ opened[d].off \in Nat
    BY <2>1, Sizes0 DEF File
  <2>3. opened[d].ip.size \in 0 .. Capacity
    BY <2>2 DEF Inode
  <2> QED
    BY <2>2, <2>3 DEF View
<1>2. Len(opened) \in Nat /\ DOMAIN opened = 1 .. Len(opened)
  OBVIOUS
<1>3. ViewsOf(opened) \in [1 .. Len(opened) -> View]
  BY <1>1, <1>2 DEF ViewsOf
<1> QED
  BY <1>2, <1>3

LEMMA ViewsAppend ==
  ASSUME NEW opened \in Seq(File), NEW file \in File
  PROVE  ViewsOf(Append(opened, file)) =
           Append(ViewsOf(opened), [file |-> file.inum, off |-> file.off, limit |-> file.ip.size])
<1>1. PICK n \in Nat : n = Len(opened)
  OBVIOUS
<1>2. ViewsOf(opened) \in Seq(View) /\ Len(ViewsOf(opened)) = n
  BY <1>1, ViewsAre
<1>3. Append(opened, file) \in Seq(File) /\ DOMAIN Append(opened, file) = 1 .. n + 1
  BY <1>1
<1>4. ViewsOf(Append(opened, file)) =
        [d \in 1 .. n + 1 |-> IF d <= n THEN ViewsOf(opened)[d]
           ELSE [file |-> file.inum, off |-> file.off, limit |-> file.ip.size]]
  BY <1>1, <1>3 DEF ViewsOf
<1> QED
  BY <1>1, <1>2, <1>4

LEMMA ViewsSub ==
  ASSUME NEW opened \in Seq(File), NEW n \in 0 .. Len(opened)
  PROVE  ViewsOf(SubSeq(opened, 1, n)) = SubSeq(ViewsOf(opened), 1, n)
<1>1. ViewsOf(opened) \in Seq(View) /\ Len(ViewsOf(opened)) = Len(opened)
  BY ViewsAre
<1>2. SubSeq(opened, 1, n) \in Seq(File) /\ DOMAIN SubSeq(opened, 1, n) = 1 .. n
      /\ \A d \in 1 .. n : SubSeq(opened, 1, n)[d] = opened[d] /\ d \in DOMAIN opened
  OBVIOUS
<1>3. ViewsOf(SubSeq(opened, 1, n)) = [d \in 1 .. n |-> ViewsOf(opened)[d]]
  BY <1>2 DEF ViewsOf
<1>4. SubSeq(ViewsOf(opened), 1, n) = [d \in 1 .. n |-> ViewsOf(opened)[d]]
  BY <1>1
<1> QED
  BY <1>3, <1>4

\* The offset of one descriptor moves to o.
MovesTo(opened, d, o) ==
  ViewsOf([opened EXCEPT ![d].off = o]) = [ViewsOf(opened) EXCEPT ![d].off = o]

LEMMA ViewsMove ==
  ASSUME NEW opened \in Seq(File), NEW d \in DOMAIN opened, NEW o
  PROVE  MovesTo(opened, d, o)
<1>1. opened[d] \in File
  OBVIOUS
<1> DEFINE moved == [opened[d] EXCEPT !.off = o]
<1>2. moved.ip = opened[d].ip /\ moved.inum = opened[d].inum /\ moved.off = o
  BY <1>1 DEF File
<1>3. [opened EXCEPT ![d].off = o] = [opened EXCEPT ![d] = moved]
  OBVIOUS
<1> HIDE DEF moved
<1>4. PICK after : after = [opened EXCEPT ![d] = moved]
  OBVIOUS
<1>5. DOMAIN after = DOMAIN opened /\ after[d] = moved
      /\ \A c \in DOMAIN opened : c # d => after[c] = opened[c]
  BY <1>4
<1>6. ViewsOf(opened)[d] = [file |-> opened[d].inum, off |-> opened[d].off, limit |-> opened[d].ip.size]
  BY DEF ViewsOf
<1>7. [ViewsOf(opened) EXCEPT ![d].off = o]
        = [ViewsOf(opened) EXCEPT ![d] = [file |-> opened[d].inum, off |-> o, limit |-> opened[d].ip.size]]
  <2>1. [ViewsOf(opened) EXCEPT ![d].off = o]
          = [ViewsOf(opened) EXCEPT ![d] = [ViewsOf(opened)[d] EXCEPT !.off = o]]
    OBVIOUS
  <2>2. [ViewsOf(opened)[d] EXCEPT !.off = o]
          = [file |-> opened[d].inum, off |-> o, limit |-> opened[d].ip.size]
    BY <1>6
  <2> QED
    BY <2>1, <2>2
<1>8. ViewsOf(after) = [c \in DOMAIN opened |->
        IF c = d THEN [file |-> opened[d].inum, off |-> o, limit |-> opened[d].ip.size]
        ELSE ViewsOf(opened)[c]]
  BY <1>2, <1>5 DEF ViewsOf
<1>9. DOMAIN ViewsOf(opened) = DOMAIN opened
  BY DEF ViewsOf
<1> QED
  BY <1>3, <1>4, <1>7, <1>8, <1>9 DEF MovesTo

\* A call whose bytes lie in one block moves all of them, or none.
LEMMA InOneBlock ==
  ASSUME NEW ip, NEW off \in Nat, NEW n \in Nat, (off % BSIZE) + n <= BSIZE
  PROVE  /\ Reached(ip, off, n) \subseteq {off \div BSIZE}
         /\ Reached(ip, off, n) = {} => Counted(ip, off, n) = 0
         /\ Reached(ip, off, n) # {} =>
              /\ Counted(ip, off, n) = n /\ n > 0
              /\ InBlockOff(off \div BSIZE, off) = off % BSIZE
              /\ Chunk(off \div BSIZE, off, n) = n
              /\ BeginOf(off \div BSIZE, off) = off
              /\ EndOf(off \div BSIZE, off, n) = off + n
<1>1. PICK q \in Nat, r \in Nat : q = off \div BSIZE /\ r = off % BSIZE /\ r < BSIZE /\ off = q * BSIZE + r
  BY Sizes0, Division
<1>2. PICK x \in Nat : x = q * BSIZE
  BY <1>1, Sizes0
<1>3. BSIZE \in Nat \ {0} /\ off = x + r /\ r + n <= BSIZE
  BY <1>1, <1>2, Sizes0
<1>4. Reached(ip, off, n) \subseteq {q}
  <2> SUFFICES ASSUME NEW i \in Reached(ip, off, n)
               PROVE  i = q
    OBVIOUS
  <2>1. i \in Nat /\ q <= i /\ i * BSIZE < off + n
    <3>1. i \in Direct /\ off \div BSIZE <= i /\ i * BSIZE < off + n
      BY ReachedIs
    <3> QED
      BY <1>1, <3>1, Sizes0
  <2>2. q < i => x + BSIZE <= i * BSIZE
    BY <1>1, <1>2, <1>3, <2>1, LaterBlock
  <2>3. i * BSIZE \in Nat
    BY <1>3, <2>1
  <2> QED
    BY <1>1, <1>3, <2>1, <2>2, <2>3
<1>5. ASSUME Reached(ip, off, n) # {}
      PROVE  /\ n > 0 /\ q \in Direct /\ Reached(ip, off, n) = {q}
             /\ InBlockOff(q, off) = r /\ Chunk(q, off, n) = n
             /\ BeginOf(q, off) = off /\ EndOf(q, off, n) = off + n
  <2>1. q \in Reached(ip, off, n) /\ Reached(ip, off, n) = {q}
    BY <1>4, <1>5
  <2>2. n > 0 /\ q \in Direct /\ q \in Nat
    BY <1>1, <2>1, ReachedIs
  <2>3. InBlockOff(q, off) = r
    BY <1>1, <1>2, <1>3 DEF InBlockOff
  <2>4. (q + 1) * BSIZE = x + BSIZE
    BY <1>1, <1>2, <1>3
  <2>5. Chunk(q, off, n) = (IF off + n < x + BSIZE THEN off + n ELSE x + BSIZE) - (x + r)
    BY <1>2, <2>3, <2>4 DEF Chunk
  <2>6. Chunk(q, off, n) = n
    BY <1>1, <1>3, <2>5
  <2>7. BeginOf(q, off) = off /\ EndOf(q, off, n) = off + n
    BY <1>1, <1>2, <1>3, <2>3, <2>6 DEF BeginOf, EndOf
  <2> QED
    BY <2>1, <2>2, <2>3, <2>6, <2>7
<1>6. ASSUME Reached(ip, off, n) # {}
      PROVE  Counted(ip, off, n) = n
  <2>1. (CHOOSE i \in {q} : \A j \in {q} : j <= i) = q
    BY <1>1
  <2>2. Counted(ip, off, n) = q * BSIZE + InBlockOff(q, off) + (Chunk(q, off, n) - off)
    BY <1>5, <1>6, <2>1 DEF Counted
  <2> QED
    BY <1>1, <1>2, <1>3, <1>5, <1>6, <2>2
<1>7. Reached(ip, off, n) = {} => Counted(ip, off, n) = 0
  BY CountedIs
<1> QED
  BY <1>1, <1>4, <1>5, <1>6, <1>7

LEMMA OffsetIs ==
  ASSUME NEW off \in Nat
  PROVE  \E q \in Nat, r \in Nat, x \in Nat :
           /\ q = off \div BSIZE /\ r = off % BSIZE /\ x = q * BSIZE
           /\ r < BSIZE /\ off = x + r
<1>1. /\ off \div BSIZE \in Nat /\ off % BSIZE \in Nat /\ off % BSIZE < BSIZE
      /\ off = (off \div BSIZE) * BSIZE + (off % BSIZE)
  BY Sizes0, Division
<1>2. (off \div BSIZE) * BSIZE \in Nat
  BY <1>1, Sizes0
<1> QED
  BY <1>1, <1>2

LEMMA OffsetFrom ==
  ASSUME NEW off \in Nat, NEW q \in Nat, NEW r \in Nat, r < BSIZE, off = q * BSIZE + r
  PROVE  off \div BSIZE = q /\ off % BSIZE = r
BY Sizes0, DivisionIs

LEMMA ContentKept ==
  ASSUME UNCHANGED <<dinode, block>>
  PROVE  Content' = Content
BY DEF Content

\* What a read that stays in a block returns.
LEMMA ReadsContent ==
  ASSUME DataInv, NEW f \in Files, NEW ip, ip = dinode[f] \/ ip = Emptied,
         NEW off \in Nat, NEW n \in Nat, (off % BSIZE) + n <= BSIZE,
         NEW k, k = Counted(ip, off, n)
  PROVE  SubSeq(BufferAfter(ip, off, n), 1, k) = [p \in 1 .. k |-> Content[f][off + p - 1]]
<1>1. PICK q \in Nat, r \in Nat, x \in Nat :
           /\ q = off \div BSIZE /\ r = off % BSIZE /\ x = q * BSIZE
           /\ r < BSIZE /\ off = x + r
  BY OffsetIs
<1>2. CASE Reached(ip, off, n) = {}
  <2>1. k = 0
    BY <1>2, InOneBlock
  <2> QED
    BY <2>1
<1>3. CASE Reached(ip, off, n) # {}
  <2>1. /\ Reached(ip, off, n) = {q} /\ k = n /\ n > 0
        /\ InBlockOff(q, off) = r /\ Chunk(q, off, n) = n
    BY <1>1, <1>3, InOneBlock
  <2>2. q \in Direct /\ ip.addr[q] # 0
    <3>1. q \in Reached(ip, off, n)
      BY <2>1
    <3> QED
      BY <3>1, ReachedIs
  <2>3. ip = dinode[f]
    <3>1. Emptied.addr[q] = 0
      BY <2>2 DEF Emptied
    <3> QED
      BY <2>2, <3>1
  <2>4. off + n <= Capacity
    <3>1. Counted(ip, off, n) = n /\ Counted(ip, off, n) > 0
      BY <2>1
    <3>2. Counted(ip, off, n) > 0 => off + Counted(ip, off, n) <= Capacity
      BY CountedIs
    <3> QED
      BY <3>1, <3>2
  <2>5. ASSUME NEW p \in 1 .. n
        PROVE  BufferAfter(ip, off, n)[p] = Content[f][off + p - 1]
    <3>1. BufferAfter(ip, off, n)[p] = block[ip.addr[q]][InBlockOff(q, off) + p - 1]
      <4>1. {i \in Reached(ip, off, n) : p <= Chunk(i, off, n)} = {q}
        BY <2>1
      <4>2. (CHOOSE i \in {q} : \A j \in {q} : j <= i) = q
        BY <1>1
      <4> QED
        BY <4>1, <4>2 DEF BufferAfter
    <3>2. PICK s \in Nat : s = r + p - 1 /\ s < BSIZE
      BY <1>1, Sizes0
    <3>3. PICK a \in Nat : a = off + p - 1
      OBVIOUS
    <3>4. a \div BSIZE = q /\ a % BSIZE = s
      <4>1. off = x + r
        BY <1>1
      <4>2. a = x + s
        BY ONLY <3>2, <3>3, <4>1, r \in Nat, x \in Nat, p \in Nat
      <4>3. a = q * BSIZE + s
        BY <1>1, <4>2
      <4> QED
        BY <3>2, <4>3, OffsetFrom
    <3>5. off + p - 1 \in 0 .. Capacity - 1
      BY <2>4, Sizes0
    <3>6. Content[f][off + p - 1] = block[dinode[f].addr[q]][s]
      BY <2>2, <2>3, <3>3, <3>4, <3>5, ContentIs
    <3>7. InBlockOff(q, off) + p - 1 = s
      BY <2>1, <3>2
    <3> QED
      BY <2>3, <3>1, <3>6, <3>7
  <2>6. BufferAfter(ip, off, n) = [p \in 1 .. n |-> BufferAfter(ip, off, n)[p]]
    BY DEF BufferAfter
  <2>7. PICK b : b = BufferAfter(ip, off, n)
    OBVIOUS
  <2>8. SubSeq(b, 1, n) = [p \in 1 .. n |-> b[p]]
    BY <2>6, <2>7
  <2> QED
    BY <2>1, <2>5, <2>7, <2>8
<1> QED
  BY <1>2, <1>3

\* What a write that stays in a block leaves of the bytes of the files.
LEMMA WritesContent ==
  ASSUME DataInv, NEW f \in Files, NEW ip, ip = dinode[f] \/ ip = Emptied,
         NEW off \in Nat, NEW buf \in Seq(Bytes), (off % BSIZE) + Len(buf) <= BSIZE,
         NEW k, k = Counted(ip, off, Len(buf)),
         dinode' = dinode, block' = BlocksAfter(ip, off, buf)
  PROVE  Content' = [Content EXCEPT ![f] =
           [o \in 0 .. Capacity - 1 |->
              IF o - off \in 0 .. k - 1 THEN SubSeq(buf, 1, k)[o - off + 1] ELSE @[o]]]
<1>1. Len(buf) \in Nat /\ k \in 0 .. Len(buf)
  BY CountedIs
<1>2. ASSUME NEW g \in Files, NEW o \in 0 .. Capacity - 1
      PROVE  Content'[g][o] = IF g = f /\ o - off \in 0 .. k - 1
                              THEN SubSeq(buf, 1, k)[o - off + 1] ELSE Content[g][o]
  <2>1. PICK q : q = o \div BSIZE
    OBVIOUS
  <2>2. q \in Direct /\ q \in Nat /\ o = q * BSIZE + (o % BSIZE) /\ o % BSIZE \in 0 .. BSIZE - 1 /\ o \in Nat
    <3>1. o \div BSIZE \in Direct /\ o = (o \div BSIZE) * BSIZE + (o % BSIZE)
          /\ o % BSIZE \in 0 .. BSIZE - 1 /\ o \in Nat
      BY PlaceOf
    <3>2. Direct \subseteq Nat
      BY Sizes0
    <3> QED
      BY <2>1, <3>1, <3>2
  <2>3. ASSUME f = g, o - off \in 0 .. k - 1
        PROVE  dinode[g].addr[q] # 0 /\ Writes(q, ip, off, Len(buf), o)
    <3>1. Reached(ip, off, Len(buf)) # {} /\ k = Len(buf)
      <4>1. k # 0
        BY <1>1, <2>2, <2>3
      <4> QED
        BY <1>1, <4>1, InOneBlock
    <3>2. PICK t \in Nat, r \in Nat, x \in Nat :
               /\ t = off \div BSIZE /\ r = off % BSIZE /\ x = t * BSIZE
               /\ r < BSIZE /\ off = x + r
      BY OffsetIs
    <3>3. Reached(ip, off, Len(buf)) = {t} /\ BeginOf(t, off) = off
          /\ EndOf(t, off, Len(buf)) = off + Len(buf)
      <4>1. t = off \div BSIZE
        BY <3>2
      <4>2. /\ Reached(ip, off, Len(buf)) \subseteq {off \div BSIZE}
            /\ BeginOf(off \div BSIZE, off) = off
            /\ EndOf(off \div BSIZE, off, Len(buf)) = off + Len(buf)
        BY <1>1, <3>1, InOneBlock
      <4> QED
        BY ONLY <3>1, <4>1, <4>2
    <3>4. PICK s \in Nat : s = r + (o - off) /\ s < BSIZE
      <4>1. /\ o \in Nat /\ off <= o /\ o < off + Len(buf) /\ Len(buf) \in Nat /\ off \in Nat
            /\ r + Len(buf) <= BSIZE /\ BSIZE \in Nat
        BY <1>1, <2>2, <2>3, <3>1, <3>2, Sizes0
      <4> QED
        BY ONLY <4>1, r \in Nat
    <3>5. o = t * BSIZE + s
      <4>1. o \in Nat /\ off = x + r
        BY <2>2, <3>2
      <4>2. o = x + s
        BY ONLY <3>4, <4>1, x \in Nat, r \in Nat
      <4> QED
        BY <3>2, <4>2
    <3>6. q = t
      BY <2>1, <2>2, <3>4, <3>5, OffsetFrom
    <3>7. Writes(q, ip, off, Len(buf), o)
      BY <1>1, <2>2, <2>3, <3>1, <3>3, <3>6 DEF Writes
    <3>8. q \in Reached(ip, off, Len(buf))
      BY <3>7 DEF Writes
    <3>9. ip.addr[q] # 0
      BY <1>1, <3>8, ReachedIs
    <3>10. ip = dinode[f]
      <4>1. Emptied.addr[q] = 0
        BY <2>2 DEF Emptied
      <4> QED
        BY <3>9, <4>1
    <3> QED
      BY <2>3, <3>7, <3>9, <3>10
  <2>4. ASSUME f = g, Writes(q, ip, off, Len(buf), o)
        PROVE  o - off \in 0 .. k - 1 /\ BeginOf(q, off) = off
    <3>1. q \in Reached(ip, off, Len(buf)) /\ BeginOf(q, off) <= o /\ o < EndOf(q, off, Len(buf))
      BY <2>4 DEF Writes
    <3>2. Reached(ip, off, Len(buf)) # {} /\ q = off \div BSIZE
      BY <1>1, <3>1, InOneBlock
    <3>3. k = Len(buf) /\ BeginOf(q, off) = off /\ EndOf(q, off, Len(buf)) = off + Len(buf)
      BY <1>1, <3>2, InOneBlock
    <3> QED
      BY <1>1, <2>2, <3>1, <3>3
  <2>5. Content'[g][o] = IF dinode[g].addr[q] = 0 THEN 0 ELSE block'[dinode[g].addr[q]][o % BSIZE]
    BY <2>1, ContentIs
  <2>6. Content[g][o] = IF dinode[g].addr[q] = 0 THEN 0 ELSE block[dinode[g].addr[q]][o % BSIZE]
    BY <2>1, ContentIs
  <2>7. CASE dinode[g].addr[q] = 0
    BY <2>3, <2>5, <2>6, <2>7
  <2>8. CASE dinode[g].addr[q] # 0
    <3>1. block'[dinode[g].addr[q]][o % BSIZE]
            = IF f = g /\ Writes(q, ip, off, Len(buf), o) THEN buf[o - BeginOf(q, off) + 1]
              ELSE block[dinode[g].addr[q]][o % BSIZE]
      <4>1. ByteIs(f, ip, off, buf, g, o)
        BY <2>1, <2>8, ByteAfter
      <4> QED
        BY <2>1, <4>1 DEF ByteIs
    <3>2. CASE f = g /\ Writes(q, ip, off, Len(buf), o)
      <4>1. o - off \in 0 .. k - 1 /\ BeginOf(q, off) = off
        BY <2>4, <3>2
      <4>2. SubSeq(buf, 1, k)[o - off + 1] = buf[o - off + 1]
        BY <1>1, <4>1
      <4> QED
        BY <2>5, <2>8, <3>1, <3>2, <4>1, <4>2
    <3>3. CASE ~(f = g /\ Writes(q, ip, off, Len(buf), o))
      <4>1. ~(g = f /\ o - off \in 0 .. k - 1)
        BY <2>3, <3>3
      <4> QED
        BY <2>5, <2>6, <2>8, <3>1, <3>3, <4>1
    <3> QED
      BY <3>2, <3>3
  <2> QED
    BY <2>7, <2>8
<1>3. /\ Content  = [g \in Files |-> [o \in 0 .. Capacity - 1 |-> Content[g][o]]]
      /\ Content' = [g \in Files |-> [o \in 0 .. Capacity - 1 |-> Content'[g][o]]]
  BY DEF Content
<1>4. PICK c : c = Content
  OBVIOUS
<1>5. PICK after : after = Content'
  OBVIOUS
<1>6. /\ c = [g \in Files |-> [o \in 0 .. Capacity - 1 |-> c[g][o]]]
      /\ after = [g \in Files |-> [o \in 0 .. Capacity - 1 |-> after[g][o]]]
      /\ \A g \in Files : \A o \in 0 .. Capacity - 1 :
           after[g][o] = IF g = f /\ o - off \in 0 .. k - 1
                         THEN SubSeq(buf, 1, k)[o - off + 1] ELSE c[g][o]
  BY <1>2, <1>3, <1>4, <1>5
<1>7. PICK row : row = [o \in 0 .. Capacity - 1 |->
             IF o - off \in 0 .. k - 1 THEN SubSeq(buf, 1, k)[o - off + 1] ELSE c[f][o]]
  OBVIOUS
<1>8. after[f] = row /\ \A g \in Files : g # f => after[g] = c[g]
  <2>1. after[f] = [o \in 0 .. Capacity - 1 |-> after[f][o]]
    BY <1>6
  <2>2. \A o \in 0 .. Capacity - 1 : after[f][o] = row[o]
    BY <1>6, <1>7
  <2>3. row = [o \in 0 .. Capacity - 1 |-> row[o]]
    BY <1>7
  <2>4. after[f] = row
    BY <2>1, <2>2, <2>3
  <2>5. ASSUME NEW g \in Files, g # f
        PROVE  after[g] = c[g]
    <3>1. after[g] = [o \in 0 .. Capacity - 1 |-> after[g][o]]
          /\ c[g] = [o \in 0 .. Capacity - 1 |-> c[g][o]]
      BY <1>6
    <3>2. \A o \in 0 .. Capacity - 1 : after[g][o] = c[g][o]
      BY <1>6, <2>5
    <3> QED
      BY <3>1, <3>2
  <2> QED
    BY <2>4, <2>5
<1>9. after = [c EXCEPT ![f] = row]
  BY <1>6, <1>8
<1>10. after = [c EXCEPT ![f] =
           [o \in 0 .. Capacity - 1 |->
              IF o - off \in 0 .. k - 1 THEN SubSeq(buf, 1, k)[o - off + 1] ELSE @[o]]]
  BY <1>7, <1>9
<1> QED
  BY <1>4, <1>5, <1>10

LEMMA ReadIsPromised ==
  ASSUME DataInv, Access = "in_block", NEW d \in DOMAIN files, NEW size \in Sizes, fs_read(d, size)
  PROVE  Promised!Read(d) \/ Promised!Failed(d)
<1> DEFINE f == files[d]
           n == BytesToRead(f, size)
           k == Counted(f.ip, f.off, n)
<1>1. /\ f.off \in Nat /\ f.inum \in Files /\ f.ip.size \in Nat
      /\ f.ip = dinode[f.inum] \/ f.ip = Emptied
  BY FileIs
<1>2. size \in Nat
  BY DataAssumption
<1>3. n \in Nat /\ n <= size /\ (n > 0 => f.off + n <= f.ip.size)
  BY <1>2, BytesToReadIs
<1>4. (f.off % BSIZE) + size <= BSIZE
  BY DEF fs_read, Allowed
<1>5. (f.off % BSIZE) + n <= BSIZE /\ n <= BSIZE
  <2>1. f.off % BSIZE \in Nat /\ BSIZE \in Nat
    BY <1>1, Sizes0, Division
  <2> HIDE DEF n
  <2> QED
    BY <1>2, <1>3, <1>4, <2>1
<1>6. UNCHANGED <<dinode, block>> /\ Content' = Content
  BY ContentKept DEF fs_read
<1>7. files \in Seq(File)
  BY DEF DataInv, TypeOK
<1>8. /\ ViewsOf(files)[d].file = f.inum /\ ViewsOf(files)[d].off = f.off
      /\ ViewsOf(files)[d].limit = f.ip.size
  BY DEF ViewsOf
<1>9. CASE last' = Answer("read", f, -1, <<>>) /\ UNCHANGED files
  BY <1>6, <1>8, <1>9 DEF Promised!Failed, Promised!Result, Answer, ViewsOf
<1>10. CASE /\ last' = Answer("read", f, k, SubSeq(BufferAfter(f.ip, f.off, n), 1, k))
            /\ files' = [files EXCEPT ![d].off = @ + k]
  <2>1. SubSeq(BufferAfter(f.ip, f.off, n), 1, k) = [p \in 1 .. k |-> Content[f.inum][f.off + p - 1]]
    BY <1>1, <1>3, <1>5, ReadsContent
  <2>2. k \in 0 .. n
    BY <1>1, <1>3, CountedIs
  <2> HIDE DEF k, n
  <2>3. k \in 0 .. BSIZE /\ (k > 0 => f.off + k <= f.ip.size)
    <3>1. BSIZE \in Nat /\ n \in Nat /\ n <= BSIZE /\ (n > 0 => f.off + n <= f.ip.size)
      BY <1>3, <1>5, Sizes0
    <3> QED
      BY ONLY <1>1, <2>2, <3>1
  <2>4. ViewsOf(files') = [ViewsOf(files) EXCEPT ![d].off = ViewsOf(files)[d].off + k]
    <3>1. files' = [files EXCEPT ![d].off = f.off + k]
      BY <1>10
    <3>2. PICK o : o = f.off + k
      OBVIOUS
    <3>3. MovesTo(files, d, o)
      BY <1>7, ViewsMove
    <3> QED
      BY <1>8, <3>1, <3>2, <3>3 DEF MovesTo
  <2>5. last' = [op |-> "read", file |-> ViewsOf(files)[d].file, at |-> ViewsOf(files)[d].off, n |-> k,
                 data |-> [p \in 1 .. k |->
                             Content[ViewsOf(files)[d].file][ViewsOf(files)[d].off + p - 1]]]
    BY <1>8, <1>10, <2>1 DEF Answer
  <2>6. /\ k > 0 => ViewsOf(files)[d].off + k <= ViewsOf(files)[d].limit
        /\ ViewsOf(files') = [ViewsOf(files) EXCEPT ![d].off = @ + k]
    BY <1>8, <2>3, <2>4
  <2> QED
    BY <1>6, <2>3, <2>5, <2>6 DEF Promised!Read, Promised!Result, Promised!Advance, ViewsOf
<1> QED
  BY <1>9, <1>10 DEF fs_read

\* A write that begins inside the file and stays in a block is not turned away.
LEMMA NotRefused ==
  ASSUME DataInv, NEW d \in DOMAIN files, NEW n \in Nat,
         (files[d].off % BSIZE) + n <= BSIZE, files[d].off <= files[d].ip.size
  PROVE  ~Refused(files[d], n)
<1>1. PICK off \in Nat : off = files[d].off /\ off < Capacity /\ off <= files[d].ip.size
  BY FileIs, Sizes0
<1>2. PICK q \in Nat, r \in Nat, x \in Nat :
        /\ q = off \div BSIZE /\ r = off % BSIZE /\ x = q * BSIZE
        /\ r < BSIZE /\ off = x + r
  BY ONLY OffsetIs, off \in Nat
<1>3. x + BSIZE <= Capacity
  <2>1. q \in Direct
    <3>1. off \in 0 .. Capacity - 1
      BY <1>1, Sizes0
    <3> QED
      BY <1>2, <3>1, PlaceOf
  <2>2. q < MAX_BLOCKS_PER_FILE
    BY <1>2, <2>1, Sizes0
  <2> QED
    BY <1>2, <2>2, Sizes0, LaterBlock
<1>4. r + n <= BSIZE
  BY <1>1, <1>2
<1>5. off = x + r
  BY <1>2
<1>6. off + n <= Capacity /\ off + n \in Nat
  BY ONLY <1>3, <1>4, <1>5, Sizes0, x \in Nat, r \in Nat, n \in Nat
<1>7. (off + n) % UINT = off + n
  <2>1. off + n < UINT /\ UINT \in Nat \ {0} /\ 0 * UINT + (off + n) = off + n
    BY <1>6, Sizes0
  <2> QED
    BY <1>6, <2>1, DivisionIs
<1>8. PICK size \in Nat : size = files[d].ip.size
  BY FileIs
<1>9. off <= size
  BY <1>1, <1>8
<1>10. Capacity \in Nat
  BY Sizes0
<1>11. ~(off > size \/ (off + n) % UINT < off \/ off + n > Capacity)
  BY ONLY <1>6, <1>7, <1>9, <1>10, off \in Nat, n \in Nat, size \in Nat
<1> QED
  BY <1>1, <1>8, <1>11, Zenon DEF Refused

LEMMA Prefix ==
  ASSUME NEW s \in Seq(Bytes), NEW k \in 0 .. Len(s)
  PROVE  SubSeq(s, 1, k) \in [1 .. k -> Bytes]
<1>1. SubSeq(s, 1, k) = [p \in 1 .. k |-> s[p]]
  OBVIOUS
<1>2. \A p \in 1 .. k : s[p] \in Bytes
  OBVIOUS
<1> QED
  BY <1>1, <1>2

LEMMA WriteIsPromised ==
  ASSUME DataInv, Access = "in_block", NEW d \in DOMAIN files, NEW buf \in Buffers, fs_write(d, buf)
  PROVE  Promised!Written(d) \/ Promised!Failed(d)
<1> DEFINE f == files[d]
           n == Len(buf)
           k == Counted(f.ip, f.off, n)
<1>1. /\ f.off \in Nat /\ f.inum \in Files
      /\ f.ip = dinode[f.inum] \/ f.ip = Emptied
  BY FileIs
<1>2. buf \in Seq(Bytes) /\ n \in Nat
  BY DataAssumption
<1>3. (f.off % BSIZE) + n <= BSIZE /\ f.off <= f.ip.size
  BY DEF fs_write, Allowed
<1>4. ~Refused(f, n)
  BY <1>2, <1>3, NotRefused
<1>5. k \in 0 .. n /\ n <= BSIZE /\ (k > 0 => f.off + k <= Capacity)
  <2>1. f.off % BSIZE \in Nat /\ BSIZE \in Nat
    BY <1>1, Sizes0, Division
  <2>2. k \in 0 .. n /\ (k > 0 => f.off + k <= Capacity)
    BY <1>1, <1>2, CountedIs
  <2> HIDE DEF k
  <2> QED
    BY <1>2, <1>3, <2>1, <2>2
<1>6. files \in Seq(File)
  BY DEF DataInv, TypeOK
<1>7. ViewsOf(files)[d].file = f.inum /\ ViewsOf(files)[d].off = f.off
  BY DEF ViewsOf
<1>8. dinode' = dinode
  BY DEF fs_write
<1>9. CASE last' = Answer("write", f, -1, <<>>) /\ UNCHANGED <<block, files>>
  <2>1. Content' = Content
    BY <1>8, <1>9, ContentKept
  <2> QED
    BY <1>7, <1>9, <2>1 DEF Promised!Failed, Promised!Result, Answer, ViewsOf
<1>10. CASE /\ last' = Answer("write", f, k, SubSeq(buf, 1, k))
            /\ files' = [files EXCEPT ![d].off = @ + k]
            /\ block' = BlocksAfter(f.ip, f.off, buf)
  <2>1. Content' = [Content EXCEPT ![f.inum] =
           [o \in 0 .. Capacity - 1 |->
              IF o - f.off \in 0 .. k - 1 THEN SubSeq(buf, 1, k)[o - f.off + 1] ELSE @[o]]]
    BY <1>1, <1>2, <1>3, <1>8, <1>10, WritesContent
  <2> HIDE DEF k
  <2>2. k \in 0 .. BSIZE /\ (k > 0 => f.off + k - 1 \in 0 .. Capacity - 1)
    BY <1>1, <1>2, <1>5, Sizes0
  <2>3. SubSeq(buf, 1, k) \in [1 .. k -> Bytes]
    BY <1>2, <1>5, Prefix
  <2>4. ViewsOf(files') = [ViewsOf(files) EXCEPT ![d].off = @ + k]
    <3>1. files' = [files EXCEPT ![d].off = f.off + k]
      BY <1>10
    <3>2. ViewsOf(files') = [ViewsOf(files) EXCEPT ![d].off = ViewsOf(files)[d].off + k]
      <4>1. PICK o : o = f.off + k
        OBVIOUS
      <4>2. MovesTo(files, d, o)
        BY <1>6, ViewsMove
      <4> QED
        BY <1>7, <3>1, <4>1, <4>2 DEF MovesTo
    <3> QED
      BY <3>2
  <2>5. last' = [op |-> "write", file |-> ViewsOf(files)[d].file, at |-> ViewsOf(files)[d].off, n |-> k,
                 data |-> SubSeq(buf, 1, k)]
    BY <1>7, <1>10 DEF Answer
  <2>6. /\ k > 0 => ViewsOf(files)[d].off + k - 1 \in 0 .. Capacity - 1
        /\ Content' = [Content EXCEPT ![ViewsOf(files)[d].file] =
             [o \in 0 .. Capacity - 1 |->
                IF o - ViewsOf(files)[d].off \in 0 .. k - 1
                THEN SubSeq(buf, 1, k)[o - ViewsOf(files)[d].off + 1] ELSE @[o]]]
    BY <1>7, <2>1, <2>2
  <2> QED
    BY <2>2, <2>3, <2>4, <2>5, <2>6 DEF Promised!Written, Promised!Result, Promised!Advance, ViewsOf
<1> QED
  BY <1>4, <1>9, <1>10 DEF fs_write

LEMMA OpenIsPromised ==
  ASSUME DataInv, NEW f \in Files, NEW flags, fs_open(f, flags)
  PROVE  Promised!Opened
<1>1. Content' = Content /\ last' = last
  BY ContentKept DEF fs_open
<1>2. files \in Seq(File) /\ dinode[f] \in Inode /\ Emptied \in Inode
  BY Sizes0 DEF DataInv, TypeOK, Emptied, Inode
<1>3. PICK ip : ip = IF "FS_O_TRUNC" \in flags THEN fs_trunc_inode(dinode[f]) ELSE dinode[f]
  OBVIOUS
<1>4. ip \in Inode
  BY <1>2, <1>3 DEF fs_trunc_inode, Emptied
<1>5. PICK file : /\ files' = Append(files, file)
                  /\ file = [inum |-> f, off |-> 0, ip |-> ip,
                       readable |-> "FS_O_WRONLY" \notin flags,
                       writable |-> {"FS_O_WRONLY", "FS_O_RDWR"} \cap flags # {}]
  BY <1>3 DEF fs_open
<1>6. file \in File /\ file.inum = f /\ file.off = 0 /\ file.ip = ip
  <2>1. 0 \in 0 .. UINT - 1
    BY Sizes0
  <2> QED
    BY <1>4, <1>5, <2>1 DEF File
<1>7. ViewsOf(files') = Append(ViewsOf(files), [file |-> f, off |-> 0, limit |-> ip.size])
  BY <1>2, <1>5, <1>6, ViewsAppend
<1>8. ip.size \in 0 .. Capacity
  BY <1>4 DEF Inode
<1> QED
  BY <1>1, <1>7, <1>8 DEF Promised!Opened, ViewsOf

LEMMA CloseIsPromised ==
  ASSUME DataInv, fs_close \/ Restart
  PROVE  [Promised!Closed]_<<Content, ViewsOf(files), last>>
<1>1. UNCHANGED <<Content, last>>
  BY ContentKept DEF fs_close, Restart
<1>2. files \in Seq(File) /\ Len(files) \in Nat
  BY DEF DataInv, TypeOK
<1>3. Len(ViewsOf(files)) = Len(files)
  BY <1>2, ViewsAre
<1>4. CASE files = <<>>
  <2>1. files' = <<>>
    BY <1>4 DEF fs_close, Restart
  <2> QED
    BY <1>1, <1>4, <2>1
<1>5. CASE files # <<>>
  <2>1. PICK n \in 0 .. Len(files) - 1 : files' = SubSeq(files, 1, n)
    <3>1. Len(files) - 1 \in 0 .. Len(files) - 1 /\ 0 \in 0 .. Len(files) - 1
      BY <1>2, <1>5
    <3>2. SubSeq(files, 1, 0) = <<>>
      BY <1>2
    <3> QED
      BY <3>1, <3>2 DEF fs_close, Restart
  <2>2. n \in 0 .. Len(files)
    BY <1>2
  <2>3. ViewsOf(files') = SubSeq(ViewsOf(files), 1, n)
    BY <1>2, <2>1, <2>2, ViewsSub
  <2> QED
    BY <1>1, <1>3, <2>3 DEF Promised!Closed, ViewsOf
<1> QED
  BY <1>4, <1>5

\* A client whose calls stay in one block and begin inside the file reads, on any
\* descriptor and after any restart, what was last written on any other, and a
\* truncation empties only the descriptor that asked for it: every step of
\* fs_open, fs_read, fs_write, fs_close and of a restart is one that ByteFile
\* allows, whatever the sizes, the image and the interleaving of descriptors.
THEOREM ReadsWhatWasWritten ==
  ASSUME Access = "in_block", 0 \in Bytes
  PROVE  Spec => KeepsBytes
<1> DEFINE views == ViewsOf(files)
<1>1. Init => Promised!ByteFileInit
  <2> SUFFICES ASSUME Init
               PROVE  Promised!ByteFileInit
    OBVIOUS
  <2>1. TypeOK /\ files = <<>> /\ last = [op |-> "none"]
    BY InitKeeps DEF Init, DataInv
  <2>2. views = <<>>
    <3>1. ViewsOf(files) \in Seq(View) /\ Len(ViewsOf(files)) = 0
      <4>1. files \in Seq(File) /\ Len(files) = 0
        BY <2>1
      <4> QED
        BY <4>1, ViewsAre
    <3> QED
      BY <3>1
  <2>3. ASSUME NEW f \in Files, NEW o \in 0 .. Capacity - 1
        PROVE  Content[f][o] \in Bytes
    <3>1. o \div BSIZE \in Direct /\ o % BSIZE \in 0 .. BSIZE - 1
      BY PlaceOf
    <3>2. dinode[f].addr[o \div BSIZE] \in Blocks \cup {0}
      BY <2>1, <3>1 DEF TypeOK, Inode
    <3>3. \A b \in Blocks : block[b][o % BSIZE] \in Bytes
      BY <2>1, <3>1 DEF TypeOK, Block
    <3> QED
      BY <3>2, <3>3, ContentIs
  <2>4. Content \in [Files -> [0 .. Capacity - 1 -> Bytes]]
    <3>1. Content = [f \in Files |-> [o \in 0 .. Capacity - 1 |-> Content[f][o]]]
      BY DEF Content
    <3>2. PICK c : c = Content
      OBVIOUS
    <3>3. c \in [Files -> [0 .. Capacity - 1 -> Bytes]]
      BY <2>3, <3>1, <3>2
    <3> QED
      BY <3>2, <3>3
  <2> QED
    BY <2>1, <2>2, <2>4 DEF Promised!ByteFileInit, ViewsOf
<1>2. DataInv /\ [Next]_vars => [Promised!ByteFileNext]_<<Content, views, last>>
  <2> SUFFICES ASSUME DataInv, [Next]_vars
               PROVE  [Promised!ByteFileNext]_<<Content, views, last>>
    OBVIOUS
  <2>1. DOMAIN views = DOMAIN files
    BY DEF ViewsOf
  <2>2. ASSUME NEW f \in Files, NEW flags \in Flags, fs_open(f, flags)
        PROVE  Promised!ByteFileNext
    BY <2>2, OpenIsPromised DEF Promised!ByteFileNext
  <2>3. ASSUME NEW d \in DOMAIN files, NEW size \in Sizes, fs_read(d, size)
        PROVE  Promised!ByteFileNext
    BY <2>3, ReadIsPromised DEF Promised!ByteFileNext
  <2>4. ASSUME NEW d \in DOMAIN files, NEW buf \in Buffers, fs_write(d, buf)
        PROVE  Promised!ByteFileNext
    BY <2>4, WriteIsPromised DEF Promised!ByteFileNext
  <2>5. CASE fs_close \/ Restart
    BY <2>5, CloseIsPromised DEF Promised!ByteFileNext
  <2>6. CASE UNCHANGED vars
    <3>1. Content' = Content /\ last' = last /\ files' = files
      BY <2>6, ContentKept DEF vars
    <3> QED
      BY <3>1
  <2> QED
    BY <2>2, <2>3, <2>4, <2>5, <2>6 DEF Next
<1> QED
  BY <1>1, <1>2, DataInvariance, PTL
  DEF Spec, KeepsBytes, Promised!ByteFileSpec, Promised!bytefile, ViewsOf
=============================================================================
