----------------------------- MODULE MkfsProofs -----------------------------
(***************************************************************************)
(* Proofs of the safety properties of Mkfs, for every command line and     *)
(* every size of the device.                                               *)
(*                                                                         *)
(* Inode numbers and blocks are handed out in order and never given back,  *)
(* so the invariant says which is whose: the k-th file has the k-th number *)
(* that is not the root's, and the blocks allocated but not yet stored are *)
(* the last ones of the bitmap.  The dirents are stored one behind the     *)
(* other: those of the first block are read as they were stored.           *)
(***************************************************************************)
EXTENDS Mkfs, Recursion

\* The number of the inode of the k-th file.
InumOf(k) == IF k <= ROOTINO THEN k - 1 ELSE k

\* The inode bitmap after j files.
Numbers(j) == {ROOTINO} \cup {InumOf(k) : k \in 1 .. j}

-----------------------------------------------------------------------------
(* The invariant.                                                          *)

\* The variables have the types that the rest of the invariant needs.
Shapes ==
  /\ argv \in Seq([name : Names, size : Nat \cup {Missing, Directory}])
  /\ file_cnt \in Nat \ {0} /\ file_cnt <= Len(argv) + 1
  /\ file_size \in Int
  /\ dinode \in [0 .. MAXFILES - 1 -> [type : {TYPE_FREE, TYPE_DIR, TYPE_FILE},
                                       addr : [Direct -> Nat]]]
  /\ DOMAIN data = Addresses
  /\ dbmap \subseteq 0 .. DATA_BITS - 1
  /\ addr \in Seq(Nat)
  /\ pc \in {"root", "open", "ialloc", "balloc", "data", "done", "abort", "overrun"}

\* The inode numbers taken are those of the files there were.
NumbersInv ==
  /\ pc = "root" => ibmap = {} /\ file_cnt = 1 /\ addr = <<>>
  /\ pc # "root" =>
       \E j \in {file_cnt - 1, file_cnt} :
         /\ j <= Len(argv) /\ ibmap = Numbers(j) /\ ibmap \subseteq 0 .. INODE_BITS - 1
         /\ pc \in {"open", "ialloc"} => j = file_cnt - 1
         /\ pc \in {"balloc", "data"} => j = file_cnt /\ inum = InumOf(j)
         /\ pc = "ialloc" => file_cnt <= Len(argv)
         /\ pc = "data" => inum < MAXFILES

\* The directory holds the files before the one being added, in order: those of the
\* first block as they are, and no other block is written before the first is full.
DirInv ==
  /\ dir = [e \in Entries |-> dir[e]] /\ linked = 0 .. file_cnt - 2
  /\ \A e \in Entries : e[1] = 0 =>
       dir[e] = IF e[2] < file_cnt - 1
                  THEN [name |-> argv[e[2] + 1].name, inum |-> InumOf(e[2] + 1) % INUM_RANGE]
                  ELSE [name |-> FreeName, inum |-> 0]
  /\ file_cnt - 1 <= DIRENTS_PER_BLOCK =>
       \A e \in Entries : e[1] # 0 => dir[e] = [name |-> FreeName, inum |-> 0]

\* As long as the blocks taken are blocks of the device, every inode has its own
\* among them, and those of the file being added are no other inode's.
BlocksInv ==
  /\ pc = "root" => \A n \in 0 .. MAXFILES - 1, i \in Direct : dinode[n].addr[i] = 0
  /\ pc # "root" /\ dbmap \subseteq 0 .. DATA_BLOCKS - 1 =>
       /\ \A n \in 0 .. MAXFILES - 1, i \in Direct : dinode[n].addr[i] # 0 =>
            /\ \E b \in dbmap : dinode[n].addr[i] = DataAddr(b)
            /\ \A k \in 0 .. MAXFILES - 1, j \in Direct :
                 k # n => dinode[n].addr[i] # dinode[k].addr[j]
       /\ pc = "balloc" => \A k \in 1 .. Len(addr) :
            /\ \E b \in dbmap : addr[k] = DataAddr(b)
            /\ \A n \in 0 .. MAXFILES - 1, i \in Direct : addr[k] # dinode[n].addr[i]

RootInv ==
  pc # "root" =>
    /\ dinode[ROOTINO].type = TYPE_DIR
    /\ \A i \in Direct : dinode[ROOTINO].addr[i] # 0

\* Address a holds block i of file k and lies below the m-th block.
Keeps(a, k, i, m) ==
  /\ \E b \in 0 .. m - 1 : a = DataAddr(b)
  /\ a \in Addresses /\ data[a] = [file |-> k, block |-> i]

\* The blocks of the k-th file are stored, below the m-th block.
Stored(k, m) ==
  /\ InumOf(k) < MAXFILES
  /\ \A i \in Direct :
       LET a == dinode[InumOf(k)].addr[i] IN a = 0 \/ Keeps(a, k, i, m)

\* The file being added, before its block m is stored: of the blocks it requires
\* those before are stored, and addr has the others.
BeingStored(m) ==
  LET required == BlocksRequired(file_size)
  IN  /\ addr = <<>> \/ required >= Len(addr)
      /\ \A i \in Direct :
           LET a == dinode[inum].addr[i]
           IN  /\ i < required - Len(addr) => a = 0 \/ Keeps(a, file_cnt, i, m)
               /\ i >= required - Len(addr) /\ i < required =>
                    a = addr[i - (required - Len(addr)) + 1]
               /\ i >= required => a = 0

\* The first m blocks are taken and stored, those taken after them are in addr.
Progress(m) ==
  /\ \A k \in 1 .. file_cnt - 1 : Stored(k, m)
  /\ pc \in {"open", "ialloc"} => dbmap = 0 .. m - 1
  /\ pc \in {"balloc", "data"} =>
       /\ dbmap = 0 .. m + Len(addr) - 1
       /\ \A j \in 1 .. Len(addr) : addr[j] = BlockAddr(m + j - 1)
  /\ pc = "balloc" => addr = <<>> \/ BlocksRequired(file_size) >= Len(addr)
  /\ pc = "data" => BeingStored(m)

DataInv == pc # "root" => \E m \in 0 .. DATA_BLOCKS : Progress(m)

MkfsInv == Shapes /\ NumbersInv /\ DirInv /\ BlocksInv /\ RootInv /\ DataInv

-----------------------------------------------------------------------------
(* Numbers and addresses.                                                  *)

LEMMA Sizes ==
  /\ NDIRECT \in Nat \ {0} /\ BSIZE \in Nat \ {0} /\ MAXFILES \in Nat /\ MAXFILES > ROOTINO
  /\ INODE_BITS \in Nat /\ INODE_BITS >= MAXFILES
  /\ INUM_RANGE \in Nat \ {0} /\ DIRENTS_PER_BLOCK \in Nat \ {0} /\ DATA_BLOCKS \in Nat \ {0}
  /\ BITS_PER_BITMAP \in Nat /\ BITS_PER_BITMAP > DATA_BLOCKS
  /\ DATA_BITS \in Nat /\ DATA_BITS >= DATA_BLOCKS /\ DATA_BLOCKS >= NDIRECT
BY DeviceAssumption, MkfsAssumption

LEMMA Remainder ==
  ASSUME NEW a \in Nat, NEW b \in Nat \ {0}
  PROVE  a % b \in Nat /\ a % b <= a /\ (a < b => a % b = a)
OBVIOUS

LEMMA Product ==
  ASSUME NEW a \in Nat, NEW b \in Nat
  PROVE  a * b \in Nat
OBVIOUS

LEMMA ProductGrows ==
  ASSUME NEW a \in Nat, NEW b \in Nat, NEW c \in Nat \ {0}, a < b
  PROVE  a * c < b * c
OBVIOUS

LEMMA DataAddrIs ==
  ASSUME NEW b \in Nat
  PROVE  /\ DataAddr(b) \in Nat /\ DataAddr(b) # 0
         /\ \A c \in Nat : DataAddr(b) = DataAddr(c) => b = c
         /\ DataAddr(b) \in Addresses <=> b < DATA_BLOCKS
<1>1. PICK x \in Nat : x = 8 * BSIZE /\ x # 0
  BY Sizes
<1>2. \A c \in Nat : c * BSIZE \in Nat
  BY Sizes, Product
<1>3. DataAddr(b) \in Nat /\ DataAddr(b) # 0
  BY <1>1, <1>2 DEF DataAddr, dataStartAddr
<1>4. ASSUME NEW c \in Nat, DataAddr(b) = DataAddr(c)
      PROVE  b = c
  <2>1. b * BSIZE = c * BSIZE
    BY <1>1, <1>2, <1>4 DEF DataAddr, dataStartAddr
  <2>2. ~(b < c) /\ ~(c < b)
    BY <1>2, <2>1, Sizes, ProductGrows
  <2> QED
    BY <2>2
<1>5. DataAddr(b) \in Addresses <=> b < DATA_BLOCKS
  <2>1. ASSUME NEW c \in 0 .. DATA_BLOCKS - 1, DataAddr(b) = DataAddr(c)
        PROVE  b < DATA_BLOCKS
    BY <1>4, <2>1, Sizes
  <2> QED
    BY <2>1, Sizes DEF Addresses
<1> QED
  BY <1>3, <1>4, <1>5

LEMMA BlockAddrIs ==
  ASSUME NEW bit \in Nat
  PROVE  /\ BlockAddr(bit) \in Nat
         /\ bit <= DATA_BLOCKS => BlockAddr(bit) = DataAddr(bit)
<1>1. PICK x \in Nat : x = dataStartAddr
  BY Sizes DEF dataStartAddr
<1>2. PICK r \in Nat : r = bit % BITS_PER_BITMAP /\ r <= bit /\ (bit < BITS_PER_BITMAP => r = bit)
  BY Sizes, Remainder
<1>3. PICK y \in Nat : y = r * BSIZE
  BY Sizes, Product
<1>4. BlockAddr(bit) = x + bit - r + y
  BY <1>1, <1>2, <1>3 DEF BlockAddr, None
<1>5. BlockAddr(bit) \in Nat
  BY <1>4, <1>2
<1>6. ASSUME bit <= DATA_BLOCKS
      PROVE  BlockAddr(bit) = DataAddr(bit)
  <2>1. r = bit
    BY <1>2, <1>6, Sizes
  <2> QED
    BY <1>1, <1>3, <1>4, <2>1 DEF DataAddr
<1> QED
  BY <1>5, <1>6

LEMMA BlocksRequiredIs ==
  ASSUME NEW size \in Int
  PROVE  BlocksRequired(size) \in Int
<1>1. size \div BSIZE \in Int
  BY Sizes
<1> QED
  BY <1>1 DEF BlocksRequired

LEMMA InumOfIs ==
  ASSUME NEW k \in Nat \ {0}
  PROVE  /\ InumOf(k) \in Nat /\ InumOf(k) # ROOTINO /\ InumOf(k) <= k
         /\ \A j \in Nat \ {0} : j < k => InumOf(j) < InumOf(k)
BY DEF InumOf, ROOTINO

\* The inode of the file being added.
LEMMA InumIs ==
  ASSUME Shapes, NumbersInv, pc \in {"balloc", "data"}
  PROVE  /\ inum = InumOf(file_cnt) /\ file_cnt \in Nat \ {0} /\ inum \in Nat /\ inum # ROOTINO
         /\ file_cnt <= Len(argv)
<1>1. inum = InumOf(file_cnt) /\ file_cnt \in Nat \ {0} /\ file_cnt <= Len(argv)
  BY DEF NumbersInv, Shapes
<1> QED
  BY <1>1, InumOfIs

\* The first bit that is clear: every bit before it is set.
LEMMA FirstUnusedIs ==
  ASSUME NEW taken, NEW n \in Nat
  PROVE  LET bit == FirstUnused(taken, n)
         IN  \/ bit = None /\ 0 .. n - 1 \subseteq taken
             \/ bit \in 0 .. n - 1 /\ bit \notin taken /\ \A j \in 0 .. bit - 1 : j \in taken
<1>1. CASE 0 .. n - 1 \subseteq taken
  BY <1>1 DEF FirstUnused
<1>2. CASE ~(0 .. n - 1 \subseteq taken)
  <2> DEFINE Free == {i \in 0 .. n - 1 : i \notin taken}
  <2>1. Free \subseteq Nat /\ Free # {}
    BY <1>2
  <2> HIDE DEF Free
  <2>2. PICK m \in Free : \A k \in Free : m <= k
    BY <2>1, LeastElement
  <2>3. m \in 0 .. n - 1 /\ m \notin taken /\ \A j \in 0 .. m - 1 : j \in taken
    BY <2>2 DEF Free
  <2>4. \E i \in 0 .. n - 1 : i \notin taken /\ \A j \in 0 .. i - 1 : j \in taken
    BY <2>3
  <2> QED
    BY <1>2, <2>4 DEF FirstUnused
<1> QED
  BY <1>1, <1>2

\* The number of the next file is the first that is not taken.
LEMMA NextNumber ==
  ASSUME NEW j \in Nat, NEW bit \in 0 .. INODE_BITS - 1,
         bit \notin Numbers(j), \A i \in 0 .. bit - 1 : i \in Numbers(j)
  PROVE  bit = InumOf(j + 1) /\ Numbers(j + 1) = Numbers(j) \cup {bit}
<1>1. \A k \in 1 .. j : InumOf(k) < InumOf(j + 1)
  BY InumOfIs
<1>2. InumOf(j + 1) \notin Numbers(j) /\ InumOf(j + 1) \in Nat
  BY <1>1, InumOfIs DEF Numbers, ROOTINO
<1>3. ~(InumOf(j + 1) < bit)
  BY <1>2, Sizes
<1>4. ~(bit < InumOf(j + 1))
  BY Sizes DEF InumOf, Numbers, ROOTINO
<1>5. bit = InumOf(j + 1)
  BY <1>2, <1>3, <1>4, Sizes
<1>6. 1 .. j + 1 = (1 .. j) \cup {j + 1}
  OBVIOUS
<1> QED
  BY <1>5, <1>6 DEF Numbers

-----------------------------------------------------------------------------
(* The steps keep the invariant.                                           *)

LEMMA ShapesKept ==
  ASSUME Shapes, NumbersInv, [Next]_vars
  PROVE  Shapes'
<1> USE DEF Shapes
<1>1. CASE rootdir_create
  <2>1. \A i \in Direct : BlockAddr(i) \in Nat
    BY BlockAddrIs DEF Direct
  <2>2. [type |-> TYPE_DIR, addr |-> [i \in Direct |-> BlockAddr(i)]]
          \in [type : {TYPE_FREE, TYPE_DIR, TYPE_FILE}, addr : [Direct -> Nat]]
    BY <2>1
  <2>3. dbmap' \subseteq 0 .. DATA_BITS - 1
    BY <1>1, Sizes DEF rootdir_create
  <2> QED
    BY <1>1, <2>2, <2>3 DEF rootdir_create
<1>2. CASE Finish
  BY <1>2 DEF Finish, image
<1>3. CASE CountDirectory
  BY <1>3, MkfsAssumption DEF CountDirectory, image
<1>4. CASE CountSize
  <2> DEFINE File == [name : Names, size : Nat \cup {Missing, Directory}]
  <2> HIDE DEF File
  <2>0. file_cnt \in 1 .. Len(argv) /\ argv \in Seq(File)
    BY <1>4 DEF CountSize, MoreFiles, File
  <2>1. argv[file_cnt] \in File
    BY <2>0
  <2>2. Counted(argv[file_cnt].size) \in Int
    BY <2>1 DEF Counted, Missing, Directory, File
  <2> QED
    BY <1>4, <2>2 DEF CountSize, image
<1>5. CASE ialloc
  BY <1>5 DEF ialloc
<1>6. CASE balloc
  <2> DEFINE bit == FirstUnused(dbmap, DATA_BITS)
  <2>1. bit = None \/ bit \in 0 .. DATA_BITS - 1
    BY Sizes, FirstUnusedIs
  <2>2. BlockAddr(bit) \in Nat
    <3>1. CASE bit = None
      BY <3>1 DEF BlockAddr
    <3>2. CASE bit \in 0 .. DATA_BITS - 1
      BY <3>2, Sizes, BlockAddrIs
    <3> QED
      BY <2>1, <3>1, <3>2
  <2>3. dbmap' = Taken(dbmap, bit) /\ addr' = Append(addr, BlockAddr(bit))
    BY <1>6 DEF balloc
  <2> HIDE DEF bit
  <2>4. dbmap' \subseteq 0 .. DATA_BITS - 1
    BY <2>1, <2>3 DEF Taken
  <2>5. addr' \in Seq(Nat)
    BY <2>2, <2>3
  <2> QED
    BY <1>6, <2>4, <2>5 DEF balloc
<1>7. CASE StoreInode
  <2>1. \A i \in Direct : i < Len(addr) => addr[i + 1] \in Nat
    BY DEF Direct
  <2>2. [type |-> TYPE_FILE,
         addr |-> [i \in Direct |-> IF i < Len(addr) THEN addr[i + 1] ELSE 0]]
          \in [type : {TYPE_FREE, TYPE_DIR, TYPE_FILE}, addr : [Direct -> Nat]]
    BY <2>1
  <2> QED
    BY <1>7, <2>2 DEF StoreInode
<1>8. CASE StoreData
  <2>1. DOMAIN data' = Addresses
    BY <1>8 DEF StoreData
  <2>2. addr' \in Seq(Nat)
    <3>1. addr \in Seq(Nat) /\ addr # <<>> => Tail(addr) \in Seq(Nat)
      OBVIOUS
    <3>2. addr # <<>> /\ (addr' = addr \/ addr' = Tail(addr))
      BY <1>8 DEF StoreData, NextBlock
    <3> QED
      BY <3>1, <3>2
  <2>3. pc' \in {"data", "overrun"}
    BY <1>8 DEF StoreData
  <2> QED
    BY <1>8, <2>1, <2>2, <2>3 DEF StoreData
<1>9. CASE add_dirent
  <2>1. file_cnt' = file_cnt \/ (file_cnt' = file_cnt + 1 /\ file_cnt <= Len(argv))
    BY <1>9 DEF add_dirent, NumbersInv
  <2> QED
    BY <1>9, <2>1 DEF add_dirent
<1>10. CASE UNCHANGED vars
  BY <1>10 DEF vars, image
<1> QED
  BY <1>1, <1>2, <1>3, <1>4, <1>5, <1>6, <1>7, <1>8, <1>9, <1>10 DEF Next

LEMMA NumbersKept ==
  ASSUME Shapes, NumbersInv, [Next]_vars
  PROVE  NumbersInv'
<1> USE DEF Shapes
<1>1. CASE rootdir_create
  <2>1. Numbers(0) = {ROOTINO}
    BY DEF Numbers
  <2>2. file_cnt = 1 /\ ibmap' = {ROOTINO} /\ pc' = "open" /\ file_cnt' = 1 /\ argv' = argv
    BY <1>1 DEF rootdir_create, NumbersInv
  <2>3. {ROOTINO} \subseteq 0 .. INODE_BITS - 1
    BY Sizes DEF ROOTINO
  <2> QED
    BY <2>1, <2>2, <2>3 DEF NumbersInv
<1>2. CASE UNCHANGED vars
  BY <1>2 DEF NumbersInv, vars, image
<1>3. CASE pc # "root" /\ Next
  <2>1. PICK j \in {file_cnt - 1, file_cnt} :
         /\ j <= Len(argv) /\ ibmap = Numbers(j) /\ ibmap \subseteq 0 .. INODE_BITS - 1
         /\ pc \in {"open", "ialloc"} => j = file_cnt - 1
         /\ pc \in {"balloc", "data"} => j = file_cnt /\ inum = InumOf(j)
         /\ pc = "ialloc" => file_cnt <= Len(argv)
         /\ pc = "data" => inum < MAXFILES
    BY <1>3 DEF NumbersInv
  <2>2. CASE ialloc
    <3> DEFINE bit == FirstUnused(ibmap, INODE_BITS)
    <3>1. \/ bit = None
          \/ /\ bit \in 0 .. INODE_BITS - 1 /\ bit \notin ibmap
             /\ \A i \in 0 .. bit - 1 : i \in ibmap
      BY Sizes, FirstUnusedIs
    <3>2. /\ ibmap' = Taken(ibmap, bit) /\ inum' = bit
          /\ pc' = IF bit = None THEN "abort" ELSE "balloc"
          /\ pc = "ialloc" /\ UNCHANGED <<argv, file_cnt>>
      BY <2>2 DEF ialloc
    <3> HIDE DEF bit
    <3>3. CASE bit = None
      BY <2>1, <3>2, <3>3 DEF NumbersInv, Taken
    <3>4. CASE bit # None
      <4>1. j \in Nat /\ j + 1 = file_cnt
        BY <2>1, <3>2
      <4>2. bit = InumOf(j + 1) /\ Numbers(j + 1) = Numbers(j) \cup {bit}
        BY <2>1, <3>1, <3>4, <4>1, NextNumber
      <4> QED
        BY <2>1, <3>1, <3>2, <3>4, <4>1, <4>2 DEF NumbersInv, Taken
    <3> QED
      BY <3>3, <3>4
  <2>3. CASE add_dirent
    BY <2>1, <2>3 DEF add_dirent, NumbersInv
  <2>4. CASE Finish \/ CountDirectory \/ CountSize
    BY <2>1, <2>4 DEF Finish, CountDirectory, CountSize, MoreFiles, NumbersInv, image
  <2>5. CASE balloc
    BY <2>1, <2>5 DEF balloc, NumbersInv
  <2>6. CASE StoreInode \/ StoreData
    BY <2>1, <2>6 DEF StoreInode, StoreData, NumbersInv
  <2> QED
    BY <1>3, <2>2, <2>3, <2>4, <2>5, <2>6 DEF Next, rootdir_create
<1>4. Next => rootdir_create \/ pc # "root"
  BY DEF Next, Finish, CountDirectory, CountSize, ialloc, balloc, StoreInode, StoreData, add_dirent
<1> QED
  BY <1>1, <1>2, <1>3, <1>4

\* The n-th dirent is in the first block if that has n + 1 of them.
LEMMA EntryOfIs ==
  ASSUME NEW n \in Nat
  PROVE  /\ n < DIRENTS_PER_BLOCK => EntryOf(n) = <<0, n>>
         /\ n >= DIRENTS_PER_BLOCK => EntryOf(n)[1] # 0
<1>1. ASSUME NEW d \in Nat \ {0}
      PROVE  n < d => n \div d = 0 /\ n % d = n
  OBVIOUS
<1>2. ASSUME NEW d \in Nat \ {0}
      PROVE  n >= d => n \div d # 0
  OBVIOUS
<1> QED
  BY <1>1, <1>2, Sizes DEF EntryOf

\* The first free dirent is the one behind the last file.
LEMMA FreePlaceIs ==
  ASSUME Shapes, NumbersInv, DirInv, pc = "data"
  PROVE  FreePlace = file_cnt - 1
<1>1. inum = InumOf(file_cnt) /\ file_cnt \in Nat \ {0} /\ inum < MAXFILES
  BY InumIs DEF NumbersInv
<1>2. PICK p \in Nat : p = NDIRECT * DIRENTS_PER_BLOCK /\ MAXFILES <= p
  BY Sizes, Product, MkfsAssumption
<1>3. file_cnt - 1 \in 0 .. p - 1
  BY <1>1, <1>2, Sizes DEF InumOf, ROOTINO
<1>4. \A n \in 0 .. p - 1 :
        n \notin linked /\ (\A k \in 0 .. n - 1 : k \in linked) <=> n = file_cnt - 1
  <2>1. linked = 0 .. file_cnt - 2
    BY DEF DirInv
  <2> QED
    BY <1>1, <1>2, <2>1
<1>5. FreePlace = CHOOSE n \in 0 .. p - 1 : n \notin linked /\ \A k \in 0 .. n - 1 : k \in linked
  BY <1>2 DEF FreePlace
<1> QED
  BY <1>3, <1>4, <1>5

LEMMA DirKept ==
  ASSUME Shapes, NumbersInv, DirInv, [Next]_vars
  PROVE  DirInv'
<1>1. CASE add_dirent
  <2> DEFINE n == file_cnt - 1
             dirent == [name |-> argv[file_cnt].name, inum |-> InumOf(file_cnt) % INUM_RANGE]
  <2>1. inum = InumOf(file_cnt) /\ file_cnt \in Nat \ {0}
    BY <1>1, InumIs DEF add_dirent
  <2>2. FreePlace = n /\ n \in Nat
    BY <1>1, <2>1, FreePlaceIs DEF add_dirent
  <2>3. /\ linked' = linked \cup {n} /\ argv' = argv /\ file_cnt' = file_cnt + 1
        /\ \E read \in ReadAs(n, dirent) : dir' = [dir EXCEPT ![EntryOf(n)] = read]
    BY <1>1, <2>1, <2>2 DEF add_dirent
  <2>4. dir' = [e \in Entries |-> dir'[e]] /\ linked' = 0 .. file_cnt' - 2
    <3>1. linked = 0 .. n - 1 /\ file_cnt' - 2 = n
      <4>1. linked = 0 .. file_cnt - 2
        BY DEF DirInv
      <4> QED
        BY <2>1, <2>3, <4>1
    <3>2. linked' = 0 .. n
      BY <2>2, <2>3, <3>1
    <3>3. dir' = [e \in Entries |-> dir'[e]]
      BY <2>3 DEF DirInv
    <3> QED
      BY <3>1, <3>2, <3>3
  <2>5. \A e \in Entries : e = <<0, n>> <=> e[1] = 0 /\ e[2] = n
    BY DEF Entries
  <2>6. \A e \in Entries : e[2] \in 0 .. DIRENTS_PER_BLOCK - 1
    BY DEF Entries
  <2>7. CASE n < DIRENTS_PER_BLOCK
    <3>1. dir' = [dir EXCEPT ![<<0, n>>] = dirent]
      <4>1. EntryOf(n) = <<0, n>>
        BY <2>2, <2>7, EntryOfIs
      <4>2. EntryOf(n)[1] = 0
        BY <4>1
      <4>3. ReadAs(n, dirent) = {dirent}
        BY <4>2, Zenon DEF ReadAs
      <4> QED
        BY <2>3, <4>1, <4>3, Zenon
    <3>2. \A e \in Entries : e # <<0, n>> => dir'[e] = dir[e]
      BY <3>1 DEF DirInv
    <3>3. <<0, n>> \in Entries => dir'[<<0, n>>] = dirent
      BY <3>1 DEF DirInv
    <3>4. ASSUME NEW e \in Entries, e[1] = 0
          PROVE  dir'[e] =
                   IF e[2] < file_cnt
                     THEN [name |-> argv[e[2] + 1].name, inum |-> InumOf(e[2] + 1) % INUM_RANGE]
                     ELSE [name |-> FreeName, inum |-> 0]
      <4>1. CASE e = <<0, n>>
        <5>1. e[2] = n /\ n + 1 = file_cnt /\ n < file_cnt
          BY <2>1, <2>5, <4>1
        <5> QED
          BY <3>3, <4>1, <5>1
      <4>2. CASE e # <<0, n>>
        <5>1. e[2] # n /\ e[2] \in Nat
          BY <2>5, <2>6, <3>4, <4>2
        <5>2. e[2] < file_cnt <=> e[2] < n
          BY <2>1, <5>1
        <5> QED
          BY <3>2, <3>4, <4>2, <5>2 DEF DirInv
      <4> QED
        BY <4>1, <4>2
    <3>5. \A e \in Entries : e[1] # 0 => dir'[e] = [name |-> FreeName, inum |-> 0]
      BY <2>2, <2>7, <3>2, Sizes DEF DirInv
    <3>6. file_cnt' - 1 = file_cnt
      BY <2>1, <2>3
    <3> QED
      BY <2>3, <2>4, <3>4, <3>5, <3>6 DEF DirInv
  <2>8. CASE n >= DIRENTS_PER_BLOCK
    <3>1. ASSUME NEW e \in Entries, e[1] = 0
          PROVE  dir'[e] = dir[e]
      BY <2>2, <2>3, <2>8, <3>1, EntryOfIs DEF DirInv
    <3>2. \A e \in Entries : e[2] < n /\ e[2] < file_cnt
      BY <2>1, <2>6, <2>8, Sizes
    <3>3. file_cnt' - 1 = file_cnt /\ ~(file_cnt <= DIRENTS_PER_BLOCK)
      BY <2>1, <2>3, <2>8, Sizes
    <3>4. \A e \in Entries : e[1] = 0 =>
            dir'[e] = IF e[2] < file_cnt' - 1
                        THEN [name |-> argv'[e[2] + 1].name, inum |-> InumOf(e[2] + 1) % INUM_RANGE]
                        ELSE [name |-> FreeName, inum |-> 0]
      BY <2>3, <3>1, <3>2, <3>3 DEF DirInv
    <3> QED
      BY <2>4, <3>3, <3>4 DEF DirInv
  <2> QED
    BY <2>2, <2>7, <2>8, Sizes
<1>2. CASE UNCHANGED <<dir, linked, argv, file_cnt>>
  BY <1>2 DEF DirInv
<1>3. [Next]_vars => UNCHANGED <<dir, linked, argv, file_cnt>> \/ add_dirent
  BY DEF Next, vars, image, rootdir_create, Finish, CountDirectory, CountSize, ialloc, balloc,
         StoreInode, StoreData
<1> QED
  BY <1>1, <1>2, <1>3

LEMMA RootKept ==
  ASSUME Shapes, NumbersInv, RootInv, [Next]_vars
  PROVE  RootInv'
<1>1. CASE rootdir_create
  <2>1. \A i \in Direct : BlockAddr(i) # 0
    BY Sizes, BlockAddrIs, DataAddrIs DEF Direct
  <2>2. ROOTINO \in DOMAIN dinode
    BY Sizes DEF Shapes, ROOTINO
  <2>3. dinode'[ROOTINO] = [type |-> TYPE_DIR, addr |-> [i \in Direct |-> BlockAddr(i)]]
    BY <1>1, <2>2 DEF rootdir_create
  <2> QED
    BY <2>1, <2>3 DEF RootInv
<1>2. CASE StoreInode
  <2>1. inum # ROOTINO /\ pc # "root"
    BY <1>2, InumIs DEF StoreInode
  <2>2. dinode'[ROOTINO] = dinode[ROOTINO]
    <3>1. dinode' = dinode \/ \E new : dinode' = [dinode EXCEPT ![inum] = new]
      BY <1>2 DEF StoreInode
    <3> QED
      BY <2>1, <3>1, Sizes DEF Shapes, ROOTINO
  <2> QED
    BY <2>1, <2>2 DEF RootInv
<1>3. CASE dinode' = dinode /\ pc # "root"
  BY <1>3 DEF RootInv
<1>4. CASE UNCHANGED vars
  BY <1>4 DEF RootInv, vars, image
<1>5. Next => rootdir_create \/ StoreInode \/ (dinode' = dinode /\ pc # "root")
  BY DEF Next, image, Finish, CountDirectory, CountSize, ialloc, balloc, StoreData, add_dirent
<1> QED
  BY <1>1, <1>2, <1>3, <1>4, <1>5

LEMMA BlocksKept ==
  ASSUME Shapes, NumbersInv, BlocksInv, [Next]_vars
  PROVE  BlocksInv'
<1>1. CASE rootdir_create
  <2>1. pc' = "open" /\ dbmap' = 0 .. NDIRECT - 1
    BY <1>1 DEF rootdir_create
  <2>2. \A n \in 0 .. MAXFILES - 1, i \in Direct :
          dinode'[n].addr[i] = IF n = ROOTINO THEN DataAddr(i) ELSE 0
    <3>1. TAKE n \in 0 .. MAXFILES - 1, i \in Direct
    <3>2. dinode[n].addr[i] = 0
      BY <1>1 DEF rootdir_create, BlocksInv
    <3>3. BlockAddr(i) = DataAddr(i)
      BY Sizes, BlockAddrIs DEF Direct
    <3> QED
      BY <1>1, <3>2, <3>3 DEF rootdir_create, Shapes
  <2>3. \A i \in Direct : DataAddr(i) # 0 /\ i \in dbmap'
    BY <2>1, Sizes, DataAddrIs DEF Direct
  <2> QED
    BY <2>1, <2>2, <2>3 DEF BlocksInv
<1>2. CASE balloc
  <2> DEFINE bit == FirstUnused(dbmap, DATA_BITS)
  <2>1. bit = None \/ (bit \in 0 .. DATA_BITS - 1 /\ bit \notin dbmap)
    BY Sizes, FirstUnusedIs
  <2>2. /\ dbmap' = Taken(dbmap, bit) /\ addr' = Append(addr, BlockAddr(bit))
        /\ pc = "balloc" /\ pc' = IF bit = None THEN "abort" ELSE "balloc"
        /\ dinode' = dinode
    BY <1>2 DEF balloc
  <2> HIDE DEF bit
  <2>3. CASE bit = None
    BY <2>2, <2>3 DEF BlocksInv, Taken
  <2>4. CASE bit # None
    <3>1. SUFFICES ASSUME dbmap' \subseteq 0 .. DATA_BLOCKS - 1
                   PROVE  BlocksInv'
      BY <2>2, <2>4 DEF BlocksInv
    <3>2. /\ dbmap' = dbmap \cup {bit} /\ dbmap \subseteq 0 .. DATA_BLOCKS - 1
          /\ bit \in Nat /\ bit < DATA_BLOCKS /\ bit \notin dbmap
      BY <2>1, <2>2, <2>4, <3>1, Sizes DEF Taken
    <3>3. BlockAddr(bit) = DataAddr(bit)
      BY <3>2, Sizes, BlockAddrIs
    <3>4. \A n \in 0 .. MAXFILES - 1, i \in Direct : dinode[n].addr[i] # 0 =>
            \E b \in dbmap : dinode[n].addr[i] = DataAddr(b)
      BY <2>2, <3>2 DEF BlocksInv
    <3>5. \A n \in 0 .. MAXFILES - 1, i \in Direct : DataAddr(bit) # dinode[n].addr[i]
      <4>1. SUFFICES ASSUME NEW n \in 0 .. MAXFILES - 1, NEW i \in Direct,
                            DataAddr(bit) = dinode[n].addr[i]
                     PROVE  FALSE
        OBVIOUS
      <4>2. PICK b \in dbmap : DataAddr(bit) = DataAddr(b)
        BY <3>2, <3>4, <4>1, DataAddrIs
      <4>3. b \in Nat
        BY <3>2
      <4> QED
        BY <3>2, <4>2, <4>3, DataAddrIs
    <3>6. ASSUME NEW k \in 1 .. Len(addr')
          PROVE  /\ \E b \in dbmap' : addr'[k] = DataAddr(b)
                 /\ \A n \in 0 .. MAXFILES - 1, i \in Direct : addr'[k] # dinode[n].addr[i]
      <4>1. addr \in Seq(Nat) /\ BlockAddr(bit) \in Nat
        BY <3>2, BlockAddrIs DEF Shapes
      <4>2. \/ k = Len(addr) + 1 /\ addr'[k] = BlockAddr(bit)
            \/ k \in 1 .. Len(addr) /\ addr'[k] = addr[k]
        BY <2>2, <4>1
      <4>3. \A j \in 1 .. Len(addr) :
              /\ \E b \in dbmap : addr[j] = DataAddr(b)
              /\ \A n \in 0 .. MAXFILES - 1, i \in Direct : addr[j] # dinode[n].addr[i]
        BY <2>2, <3>2 DEF BlocksInv
      <4> QED
        BY <3>2, <3>3, <3>5, <4>2, <4>3
    <3> QED
      BY <2>2, <3>2, <3>6 DEF BlocksInv
  <2> QED
    BY <2>3, <2>4
<1>3. CASE StoreInode
  <2>1. SUFFICES ASSUME dbmap \subseteq 0 .. DATA_BLOCKS - 1
                 PROVE  BlocksInv'
    BY <1>3 DEF StoreInode, BlocksInv
  <2>2. dbmap' = dbmap /\ pc = "balloc" /\ pc' \in {"data", "overrun"}
    BY <1>3 DEF StoreInode
  <2>3. CASE inum < MAXFILES
    <3>1. inum \in 0 .. MAXFILES - 1
      BY <2>2, <2>3, InumIs, Sizes
    <3>2. \A n \in 0 .. MAXFILES - 1, i \in Direct :
            \/ n # inum /\ dinode'[n].addr[i] = dinode[n].addr[i]
            \/ n = inum /\ dinode'[n].addr[i] = 0
            \/ n = inum /\ \E k \in 1 .. Len(addr) : dinode'[n].addr[i] = addr[k]
      <4>1. \A i \in Direct : i < Len(addr) => i + 1 \in 1 .. Len(addr)
        BY DEF Shapes, Direct
      <4>2. TAKE n \in 0 .. MAXFILES - 1, i \in Direct
      <4>3. dinode' = [dinode EXCEPT ![inum] =
              [type |-> TYPE_FILE,
               addr |-> [k \in Direct |-> IF k < Len(addr) THEN addr[k + 1] ELSE 0]]]
        BY <1>3, <2>3 DEF StoreInode
      <4>4. CASE n # inum
        BY <4>3, <4>4 DEF Shapes
      <4>5. CASE n = inum
        <5>1. dinode'[n].addr[i] = IF i < Len(addr) THEN addr[i + 1] ELSE 0
          BY <3>1, <4>3, <4>5 DEF Shapes
        <5> QED
          BY <4>1, <4>5, <5>1
      <4> QED
        BY <4>4, <4>5
    <3>3. \A n \in 0 .. MAXFILES - 1, i \in Direct : dinode[n].addr[i] # 0 =>
            /\ \E b \in dbmap : dinode[n].addr[i] = DataAddr(b)
            /\ \A k \in 0 .. MAXFILES - 1, j \in Direct :
                 k # n => dinode[n].addr[i] # dinode[k].addr[j]
      BY <2>1, <2>2 DEF BlocksInv
    <3>4. \A k \in 1 .. Len(addr) :
            /\ \E b \in dbmap : addr[k] = DataAddr(b)
            /\ \A n \in 0 .. MAXFILES - 1, i \in Direct : addr[k] # dinode[n].addr[i]
      BY <2>1, <2>2 DEF BlocksInv
    <3>5. ASSUME NEW n \in 0 .. MAXFILES - 1, NEW i \in Direct, dinode'[n].addr[i] # 0
          PROVE  /\ \E b \in dbmap : dinode'[n].addr[i] = DataAddr(b)
                 /\ \A k \in 0 .. MAXFILES - 1, j \in Direct :
                      k # n => dinode'[n].addr[i] # dinode'[k].addr[j]
      <4>1. \E b \in dbmap : dinode'[n].addr[i] = DataAddr(b)
        BY <3>2, <3>3, <3>4, <3>5
      <4>2. ASSUME NEW k \in 0 .. MAXFILES - 1, NEW j \in Direct, k # n,
                   dinode'[n].addr[i] = dinode'[k].addr[j]
            PROVE  FALSE
        BY <3>2, <3>3, <3>4, <3>5, <4>2
      <4> QED
        BY <4>1, <4>2
    <3> QED
      BY <2>2, <3>5 DEF BlocksInv
  <2>4. CASE ~(inum < MAXFILES)
    <3>1. dinode' = dinode
      BY <1>3, <2>4 DEF StoreInode
    <3> QED
      BY <2>2, <3>1 DEF BlocksInv
  <2> QED
    BY <2>3, <2>4
<1>4. CASE ialloc
  <2>1. addr' = <<>> /\ dbmap' = dbmap /\ dinode' = dinode /\ pc = "ialloc" /\ pc' # "root"
    BY <1>4 DEF ialloc
  <2>2. 1 .. Len(addr') = {}
    BY <2>1
  <2> QED
    BY <2>1, <2>2 DEF BlocksInv
<1>5. CASE UNCHANGED <<dinode, dbmap>> /\ pc # "root" /\ pc' \notin {"root", "balloc"}
  BY <1>5 DEF BlocksInv
<1>6. CASE UNCHANGED vars
  BY <1>6 DEF BlocksInv, vars, image
<1>7. Next =>
        \/ rootdir_create \/ balloc \/ StoreInode \/ ialloc
        \/ UNCHANGED <<dinode, dbmap>> /\ pc # "root" /\ pc' \notin {"root", "balloc"}
  BY DEF Next, image, Finish, CountDirectory, CountSize, StoreData, add_dirent
<1> QED
  BY <1>1, <1>2, <1>3, <1>4, <1>5, <1>6, <1>7

\* The step of a block taken.
LEMMA AllocationProgress ==
  ASSUME Shapes, NEW m \in 0 .. DATA_BLOCKS, Progress(m), balloc
  PROVE  Progress(m)'
<1> DEFINE bit == FirstUnused(dbmap, DATA_BITS)
<1>1. \/ bit = None
      \/ bit \in 0 .. DATA_BITS - 1 /\ bit \notin dbmap /\ \A j \in 0 .. bit - 1 : j \in dbmap
  BY Sizes, FirstUnusedIs
<1>2. /\ dbmap' = Taken(dbmap, bit) /\ addr' = Append(addr, BlockAddr(bit))
      /\ pc = "balloc" /\ pc' = IF bit = None THEN "abort" ELSE "balloc"
      /\ UNCHANGED <<dinode, data, file_cnt, file_size>>
      /\ Len(addr) < BlocksRequired(file_size)
  BY DEF balloc
<1> HIDE DEF bit
<1>3. \A k \in 1 .. file_cnt' - 1 : Stored(k, m)'
  BY <1>2 DEF Progress, Stored, Keeps
<1>4. CASE bit = None
  BY <1>2, <1>3, <1>4 DEF Progress
<1>5. CASE bit # None
  <2>1. PICK len \in Nat : len = Len(addr)
    BY DEF Shapes
  <2>2. dbmap = 0 .. m + len - 1 /\ \A j \in 1 .. len : addr[j] = BlockAddr(m + j - 1)
    BY <1>2, <2>1 DEF Progress
  <2>3. m \in Nat
    BY Sizes
  <2>4. bit = m + len
    BY <1>1, <1>5, <2>2, <2>3
  <2>5. dbmap' = 0 .. m + (len + 1) - 1
    BY <1>2, <1>5, <2>2, <2>3, <2>4 DEF Taken
  <2>6. addr \in Seq(Nat) /\ BlockAddr(bit) \in Nat
    <3>1. bit \in Nat
      BY <2>3, <2>4
    <3>2. BlockAddr(bit) \in Nat
      BY <3>1, BlockAddrIs
    <3> QED
      BY <3>2 DEF Shapes
  <2>7. Len(addr') = len + 1 /\ \A j \in 1 .. len + 1 : addr'[j] = IF j <= len THEN addr[j] ELSE BlockAddr(bit)
    BY <1>2, <2>1, <2>6
  <2>8. \A j \in 1 .. len + 1 : addr'[j] = BlockAddr(m + j - 1)
    <3> TAKE j \in 1 .. len + 1
    <3>1. CASE j <= len
      BY <2>2, <2>7, <3>1
    <3>2. CASE ~(j <= len)
      <4>1. m + j - 1 = bit
        BY <2>3, <2>4, <3>2
      <4> QED
        BY <2>7, <3>2, <4>1
    <3> QED
      BY <3>1, <3>2
  <2>9. BlocksRequired(file_size') >= len + 1
    BY <1>2, <2>1, BlocksRequiredIs DEF Shapes
  <2> QED
    BY <1>2, <1>3, <1>5, <2>5, <2>7, <2>8, <2>9 DEF Progress
<1> QED
  BY <1>4, <1>5

LEMMA InodeProgress ==
  ASSUME Shapes, NumbersInv, NEW m \in 0 .. DATA_BLOCKS, Progress(m), StoreInode
  PROVE  Progress(m)'
<1> DEFINE required == BlocksRequired(file_size)
<1>1. /\ inum = InumOf(file_cnt) /\ file_cnt \in Nat \ {0} /\ inum \in Nat /\ inum # ROOTINO
      /\ pc = "balloc"
  BY InumIs DEF StoreInode
<1>2. CASE inum < MAXFILES
  <2>1. /\ dinode' = [dinode EXCEPT ![inum] =
             [type |-> TYPE_FILE,
              addr |-> [i \in Direct |-> IF i < Len(addr) THEN addr[i + 1] ELSE 0]]]
        /\ pc' = "data" /\ Len(addr) >= required
        /\ UNCHANGED <<dbmap, data, file_cnt, file_size, inum, addr>>
    BY <1>2 DEF StoreInode
  <2>2. ASSUME NEW k \in 1 .. file_cnt - 1
        PROVE  Stored(k, m)'
    <3>1. Stored(k, m) /\ k \in Nat \ {0} /\ k < file_cnt
      BY <1>1 DEF Progress
    <3>2. InumOf(k) < inum /\ InumOf(k) \in Nat
      BY <1>1, <3>1, InumOfIs
    <3>3. dinode'[InumOf(k)] = dinode[InumOf(k)]
      BY <1>2, <2>1, <3>1, <3>2 DEF Shapes, Stored
    <3> QED
      BY <2>1, <3>1, <3>3 DEF Stored, Keeps
  <2>3. \A i \in Direct : dinode'[inum].addr[i] = IF i < Len(addr) THEN addr[i + 1] ELSE 0
    BY <1>1, <1>2, <2>1, Sizes DEF Shapes
  <2>4. PICK len \in Nat : len = Len(addr)
    BY DEF Shapes
  <2>5. required \in Int
    BY BlocksRequiredIs DEF Shapes
  <2> HIDE DEF required
  <2>6. (len = 0 /\ addr = <<>> /\ required <= 0) \/ required = len
    BY <1>1, <2>1, <2>4, <2>5 DEF Progress, required, Shapes
  <2>7. BeingStored(m)'
    <3>1. required' = required
      BY <2>1 DEF required
    <3>2. addr' = <<>> \/ required >= Len(addr')
      BY <2>1, <2>4, <2>5, <2>6
    <3>3. ASSUME NEW i \in Direct
          PROVE  /\ ~(i < required - len)
                 /\ i >= required - len /\ i < required =>
                      dinode'[inum].addr[i] = addr[i - (required - len) + 1]
                 /\ i >= required => dinode'[inum].addr[i] = 0
      <4>1. i \in Nat
        BY DEF Direct
      <4>2. CASE len = 0 /\ required <= 0
        BY <2>3, <2>4, <2>5, <4>1, <4>2
      <4>3. CASE required = len
        <5>1. ~(i < required - len) /\ i - (required - len) + 1 = i + 1
          BY <2>4, <4>1, <4>3
        <5>2. (i >= required <=> ~(i < len)) /\ (i < required <=> i < len)
          BY <2>4, <4>1, <4>3
        <5> QED
          BY <2>3, <2>4, <5>1, <5>2
      <4> QED
        BY <2>6, <4>2, <4>3
    <3> QED
      BY <2>1, <2>4, <3>1, <3>2, <3>3 DEF BeingStored, required
  <2>8. /\ dbmap' = 0 .. m + Len(addr') - 1
        /\ \A j \in 1 .. Len(addr') : addr'[j] = BlockAddr(m + j - 1)
    BY <1>1, <2>1 DEF Progress
  <2> QED
    BY <2>1, <2>2, <2>7, <2>8 DEF Progress
<1>3. CASE ~(inum < MAXFILES)
  BY <1>3 DEF StoreInode, Progress, Stored, Keeps
<1> QED
  BY <1>2, <1>3

LEMMA StoreProgress ==
  ASSUME Shapes, NumbersInv, NEW m \in 0 .. DATA_BLOCKS, Progress(m), StoreData
  PROVE  \E n \in 0 .. DATA_BLOCKS : Progress(n)'
<1> DEFINE required == BlocksRequired(file_size)
<1>1. inum = InumOf(file_cnt) /\ file_cnt \in Nat \ {0} /\ inum \in Nat /\ pc = "data"
  BY InumIs DEF StoreData
<1>2. m \in Nat /\ m <= DATA_BLOCKS
  BY Sizes
<1>3. CASE addr[1] \notin Addresses
  BY <1>3 DEF StoreData, Progress, Stored, Keeps
<1>4. CASE addr[1] \in Addresses
  <2>1. /\ data' = [data EXCEPT ![addr[1]] = [file |-> file_cnt, block |-> required - Len(addr)]]
        /\ addr' = Tail(addr) /\ addr # <<>> /\ addr \in Seq(Nat) /\ pc' = "data"
        /\ UNCHANGED <<dbmap, dinode, file_cnt, file_size, inum>>
    BY <1>1, <1>4 DEF StoreData, NextBlock, Shapes
  <2>2. PICK len \in Nat : len + 1 = Len(addr)
    BY ONLY <2>1
  <2>3. Len(addr') = len /\ \A j \in 1 .. len : addr'[j] = addr[j + 1]
    BY ONLY <2>1, <2>2
  <2>4. /\ dbmap = 0 .. m + (len + 1) - 1
        /\ \A j \in 1 .. len + 1 : addr[j] = BlockAddr(m + j - 1)
    BY <1>1, <2>2 DEF Progress
  <2>5. addr[1] = DataAddr(m) /\ m < DATA_BLOCKS
    <3>1. m + 1 - 1 = m /\ 1 \in 1 .. len + 1
      BY <1>2
    <3>2. addr[1] = BlockAddr(m)
      BY <2>4, <3>1
    <3> QED
      BY <1>2, <1>4, <3>2, BlockAddrIs, DataAddrIs
  <2>6. \A a : (\E b \in 0 .. m - 1 : a = DataAddr(b)) => a # DataAddr(m)
    BY <1>2, DataAddrIs
  <2>7. \A a \in Addresses :
          data'[a] = IF a = DataAddr(m) THEN [file |-> file_cnt, block |-> required - Len(addr)]
                                        ELSE data[a]
    BY <2>1, <2>5 DEF Shapes
  <2>8. \A a, k, i : Keeps(a, k, i, m) => Keeps(a, k, i, m + 1)'
    <3> SUFFICES ASSUME NEW a, NEW k, NEW i, Keeps(a, k, i, m)
                 PROVE  Keeps(a, k, i, m + 1)'
      OBVIOUS
    <3>1. PICK b \in 0 .. m - 1 : a = DataAddr(b)
      BY DEF Keeps
    <3>2. b \in 0 .. m + 1 - 1
      BY <1>2
    <3>3. a \in Addresses /\ data'[a] = [file |-> k, block |-> i]
      BY <2>6, <2>7, <3>1 DEF Keeps
    <3> QED
      BY <3>1, <3>2, <3>3 DEF Keeps
  <2>9. \A k \in 1 .. file_cnt' - 1 : Stored(k, m + 1)'
    BY <2>1, <2>8 DEF Progress, Stored
  <2>10. /\ dbmap' = 0 .. m + 1 + Len(addr') - 1
         /\ \A j \in 1 .. Len(addr') : addr'[j] = BlockAddr(m + 1 + j - 1)
    <3>1. m + (len + 1) - 1 = m + 1 + len - 1
      BY <1>2
    <3>2. ASSUME NEW j \in 1 .. len
          PROVE  addr'[j] = BlockAddr(m + 1 + j - 1)
      <4>1. m + (j + 1) - 1 = m + 1 + j - 1 /\ j + 1 \in 1 .. len + 1
        BY <1>2
      <4> QED
        BY <2>3, <2>4, <4>1
    <3> QED
      BY <2>1, <2>3, <2>4, <3>1, <3>2
  <2>11. required \in Int /\ required >= len + 1
    BY <1>1, <2>1, <2>2, BlocksRequiredIs DEF Progress, BeingStored, Shapes
  <2>12. ASSUME NEW i \in Direct, NEW a, a = dinode[inum].addr[i]
         PROVE  /\ i < required - len => a = 0 \/ Keeps(a, file_cnt, i, m + 1)'
                /\ i >= required - len /\ i < required => a = addr'[i - (required - len) + 1]
                /\ i >= required => a = 0
    <3>1. /\ i < required - (len + 1) => a = 0 \/ Keeps(a, file_cnt, i, m)
          /\ i >= required - (len + 1) /\ i < required => a = addr[i - (required - (len + 1)) + 1]
          /\ i >= required => a = 0
      BY <1>1, <2>2, <2>12 DEF Progress, BeingStored
    <3>2. i \in Nat
      BY DEF Direct
    <3> HIDE DEF required
    <3>3. CASE i < required - (len + 1)
      <4>1. file_cnt' = file_cnt
        BY <2>1
      <4>2. a = 0 \/ Keeps(a, file_cnt, i, m + 1)'
        BY <2>8, <3>1, <3>3, <4>1
      <4> QED
        BY <2>11, <3>2, <3>3, <4>2
    <3>4. CASE i = required - (len + 1)
      <4>1. i < required /\ i - (required - (len + 1)) + 1 = 1 /\ required - Len(addr) = i
        BY <2>2, <2>11, <3>2, <3>4
      <4>2. a = DataAddr(m)
        BY <2>5, <2>11, <3>1, <3>2, <3>4, <4>1
      <4>3. a \in Addresses /\ data'[a] = [file |-> file_cnt, block |-> i]
        BY <1>4, <2>5, <2>7, <4>1, <4>2
      <4>4. m \in 0 .. m + 1 - 1
        BY <1>2
      <4>5. Keeps(a, file_cnt, i, m + 1)'
        BY <2>1, <4>2, <4>3, <4>4 DEF Keeps
      <4> QED
        BY <2>11, <3>2, <3>4, <4>5
    <3>5. CASE i >= required - len /\ i < required
      <4> DEFINE j == i - (required - len) + 1
      <4>1. j \in 1 .. len /\ i - (required - (len + 1)) + 1 = j + 1 /\ i >= required - (len + 1)
        BY <2>11, <3>2, <3>5
      <4>2. a = addr[j + 1]
        BY <3>1, <3>5, <4>1
      <4>3. a = addr'[j]
        BY <2>3, <4>1, <4>2
      <4> QED
        BY <2>11, <3>2, <3>5, <4>3
    <3>6. CASE i >= required
      BY <2>11, <3>1, <3>2, <3>6
    <3> QED
      BY <2>11, <3>2, <3>3, <3>4, <3>5, <3>6
  <2>13. addr' = <<>> \/ required >= Len(addr')
    BY <2>3, <2>11
  <2>14. BeingStored(m + 1)'
    BY <2>1, <2>3, <2>12, <2>13 DEF BeingStored
  <2>15. m + 1 \in 0 .. DATA_BLOCKS
    BY <1>2, <2>5, Sizes
  <2> QED
    BY <2>1, <2>9, <2>10, <2>14, <2>15 DEF Progress
<1> QED
  BY <1>3, <1>4

LEMMA DirentProgress ==
  ASSUME Shapes, NumbersInv, NEW m \in 0 .. DATA_BLOCKS, Progress(m), add_dirent
  PROVE  Progress(m)'
<1> DEFINE required == BlocksRequired(file_size)
<1>1. inum = InumOf(file_cnt) /\ file_cnt \in Nat \ {0} /\ pc = "data" /\ addr = <<>>
  BY InumIs DEF add_dirent
<1>2. /\ file_cnt' = file_cnt + 1 /\ pc' = "open"
      /\ UNCHANGED <<dbmap, data, dinode, addr>>
  BY DEF add_dirent
<1>3. required \in Int /\ Len(addr) = 0
  BY <1>1, BlocksRequiredIs DEF Shapes
<1>4. inum < MAXFILES
  BY <1>1 DEF NumbersInv
<1>5. ASSUME NEW i \in Direct, NEW a, a = dinode[inum].addr[i]
      PROVE  a = 0 \/ Keeps(a, file_cnt, i, m)
  <2>1. i \in Nat
    BY DEF Direct
  <2>2. /\ i < required - 0 => a = 0 \/ Keeps(a, file_cnt, i, m)
        /\ i >= required => a = 0
    BY <1>1, <1>3, <1>5 DEF Progress, BeingStored
  <2> HIDE DEF required
  <2> QED
    BY <1>3, <2>1, <2>2
<1>6. Stored(file_cnt, m)
  BY <1>1, <1>4, <1>5 DEF Stored
<1>7. \A k \in 1 .. file_cnt : Stored(k, m)
  BY <1>1, <1>6 DEF Progress
<1>8. \A k \in 1 .. file_cnt' - 1 : Stored(k, m)'
  BY <1>1, <1>2, <1>7 DEF Stored, Keeps
<1>9. dbmap' = 0 .. m - 1
  <2>1. m + 0 - 1 = m - 1
    BY Sizes
  <2> QED
    BY <1>1, <1>2, <1>3, <2>1 DEF Progress
<1> QED
  BY <1>2, <1>8, <1>9 DEF Progress

LEMMA DataKept ==
  ASSUME Shapes, NumbersInv, DataInv, [Next]_vars
  PROVE  DataInv'
<1>1. CASE rootdir_create
  <2>1. NDIRECT \in 0 .. DATA_BLOCKS
    BY Sizes
  <2>2. pc' = "open" /\ file_cnt' = 1 /\ dbmap' = 0 .. NDIRECT - 1
    BY <1>1 DEF rootdir_create, NumbersInv
  <2>3. 1 .. file_cnt' - 1 = {}
    BY <2>2
  <2> QED
    BY <2>1, <2>2, <2>3 DEF DataInv, Progress
<1>2. CASE pc # "root" /\ Next
  <2>1. PICK m \in 0 .. DATA_BLOCKS : Progress(m)
    BY <1>2 DEF DataInv
  <2>2. CASE Finish \/ CountDirectory \/ CountSize
    <3>1. /\ pc = "open" /\ pc' \in {"open", "ialloc", "abort", "done"}
          /\ UNCHANGED <<dbmap, dinode, data, file_cnt>>
      BY <2>2 DEF Finish, CountDirectory, CountSize, image
    <3> QED
      BY <2>1, <3>1 DEF Progress, Stored, Keeps, DataInv
  <2>3. CASE ialloc
    <3>1. /\ pc = "ialloc" /\ pc' \in {"balloc", "abort"} /\ addr' = <<>>
          /\ UNCHANGED <<dbmap, dinode, data, file_cnt>>
      BY <2>3 DEF ialloc
    <3>2. m + Len(addr') - 1 = m - 1 /\ 1 .. Len(addr') = {}
      BY <3>1, Sizes
    <3> QED
      BY <2>1, <3>1, <3>2 DEF Progress, Stored, Keeps, DataInv
  <2>4. CASE balloc
    BY <2>1, <2>4, AllocationProgress DEF DataInv
  <2>5. CASE StoreInode
    BY <2>1, <2>5, InodeProgress DEF DataInv
  <2>6. CASE StoreData
    BY <2>1, <2>6, StoreProgress DEF DataInv
  <2>7. CASE add_dirent
    BY <2>1, <2>7, DirentProgress DEF DataInv
  <2> QED
    BY <1>2, <2>2, <2>3, <2>4, <2>5, <2>6, <2>7 DEF Next, rootdir_create
<1>3. CASE UNCHANGED vars
  BY <1>3 DEF vars, image, DataInv, Progress, Stored, Keeps, BeingStored
<1>4. Next => rootdir_create \/ pc # "root"
  BY DEF Next, Finish, CountDirectory, CountSize, ialloc, balloc, StoreInode, StoreData, add_dirent
<1> QED
  BY <1>1, <1>2, <1>3, <1>4

-----------------------------------------------------------------------------
(* Theorems.                                                               *)

LEMMA MkfsInvStart == Init => MkfsInv
<1> SUFFICES ASSUME Init PROVE MkfsInv
  OBVIOUS
<1>1. argv \in Seq([name : Names, size : Nat \cup {Missing, Directory}])
  BY MkfsAssumption DEF Init
<1>2. ZeroInode \in [type : {TYPE_FREE, TYPE_DIR, TYPE_FILE}, addr : [Direct -> Nat]]
  BY DEF ZeroInode, NoBlocks
<1>3. Shapes
  BY <1>1, <1>2, MkfsAssumption DEF Init, Shapes
<1>4. NumbersInv /\ RootInv /\ DataInv
  BY DEF Init, NumbersInv, RootInv, DataInv
<1>5. DirInv
  <2>1. file_cnt - 1 = 0 /\ (\A e \in Entries : ~(e[2] < 0)) /\ linked = 0 .. file_cnt - 2
    BY DEF Init, Entries
  <2> QED
    BY <2>1 DEF Init, DirInv
<1>6. BlocksInv
  BY DEF Init, BlocksInv, ZeroInode, NoBlocks
<1> QED
  BY <1>3, <1>4, <1>5, <1>6 DEF MkfsInv

LEMMA MkfsInvKept == MkfsInv /\ [Next]_vars => MkfsInv'
<1> SUFFICES ASSUME MkfsInv, [Next]_vars PROVE MkfsInv'
  OBVIOUS
<1>1. Shapes /\ NumbersInv /\ DirInv /\ BlocksInv /\ RootInv /\ DataInv
  BY DEF MkfsInv
<1>2. Shapes' /\ NumbersInv' /\ DirInv'
  BY <1>1, ShapesKept, NumbersKept, DirKept
<1>3. BlocksInv' /\ RootInv' /\ DataInv'
  BY <1>1, BlocksKept, RootKept, DataKept
<1> QED
  BY <1>2, <1>3 DEF MkfsInv

LEMMA MkfsInvHolds == Spec => []MkfsInv
<1>1. Init /\ [][Next]_vars => []MkfsInv
  BY MkfsInvStart, MkfsInvKept, PTL
<1> QED
  BY <1>1, PTL DEF Spec

LEMMA MountableHolds ==
  ASSUME MkfsInv
  PROVE  ImageMountable
<1>1. SUFFICES ASSUME pc # "root", dbmap \subseteq 0 .. DATA_BLOCKS - 1,
                      ibmap \subseteq 0 .. INUM_RANGE - 1, file_cnt - 1 <= DIRENTS_PER_BLOCK
               PROVE  WellFormed(Image)
  BY DEF ImageMountable
<1> USE DEF MkfsInv
<1>2. PICK j \in {file_cnt - 1, file_cnt} :
        j <= Len(argv) /\ ibmap = Numbers(j) /\ ibmap \subseteq 0 .. INODE_BITS - 1
  BY <1>1 DEF NumbersInv
<1>3. file_cnt \in Nat \ {0} /\ Len(argv) \in Nat /\ j \in Nat
  BY <1>2 DEF Shapes
<1>4. ROOTINO \in ibmap /\ \A k \in 1 .. file_cnt - 1 : InumOf(k) \in ibmap
  BY <1>2, <1>3 DEF Numbers
<1>5. \A n \in 0 .. MAXFILES - 1, i \in Direct :
        dinode[n].addr[i] # 0 =>
          /\ \E b \in dbmap : dinode[n].addr[i] = DataAddr(b)
          /\ \A k \in 0 .. MAXFILES - 1, l \in Direct :
               k # n => dinode[n].addr[i] # dinode[k].addr[l]
  BY <1>1 DEF BlocksInv
<1>6. dinode \in [0 .. MAXFILES - 1 -> Inode]
  <2>1. \A n \in 0 .. MAXFILES - 1, i \in Direct : dinode[n].addr[i] \in Addresses \cup {0}
    BY <1>1, <1>5 DEF Addresses
  <2>2. ASSUME NEW n \in 0 .. MAXFILES - 1
        PROVE  dinode[n] \in Inode
    <3>1. dinode[n] \in [type : {TYPE_FREE, TYPE_DIR, TYPE_FILE}, addr : [Direct -> Nat]]
      BY DEF Shapes
    <3>2. dinode[n].addr \in [Direct -> Addresses \cup {0}]
      BY <2>1, <3>1
    <3> QED
      BY <3>1, <3>2 DEF Inode
  <2> QED
    BY <2>2 DEF Shapes
<1>7. MarkedIn(dinode, dbmap)
  <2> SUFFICES ASSUME NEW n \in 0 .. MAXFILES - 1, NEW b \in 0 .. DATA_BLOCKS - 1,
                      DataAddr(b) \in BlocksOf(dinode[n])
               PROVE  b \in dbmap
    BY <1>6 DEF MarkedIn
  <2>1. PICK i \in Direct : DataAddr(b) = dinode[n].addr[i] /\ dinode[n].addr[i] # 0
    BY DEF BlocksOf
  <2>2. PICK c \in dbmap : DataAddr(b) = DataAddr(c)
    BY <1>5, <2>1
  <2>3. b \in Nat /\ c \in Nat
    BY <1>1
  <2> QED
    BY <2>2, <2>3, DataAddrIs
<1>8. DisjointIn(dinode)
  BY <1>5, <1>6 DEF DisjointIn, BlocksOf
<1>9. \A e \in Entries : e[2] \in Nat
  BY DEF Entries
<1>10. \A k \in 1 .. file_cnt - 1 :
         InumOf(k) % INUM_RANGE = InumOf(k) /\ InumOf(k) \in Nat /\ InumOf(k) # ROOTINO
  <2> TAKE k \in 1 .. file_cnt - 1
  <2>1. InumOf(k) \in Nat /\ InumOf(k) # ROOTINO /\ InumOf(k) < INUM_RANGE
    BY <1>1, <1>3, <1>4, InumOfIs, Sizes
  <2> QED
    BY <2>1, Remainder, Sizes
<1>11. \A e \in Entries : dir[e].name # FreeName =>
         e[1] = 0 /\ e[2] + 1 \in 1 .. file_cnt - 1 /\ dir[e].inum = InumOf(e[2] + 1)
  BY <1>1, <1>3, <1>9, <1>10 DEF DirInv
<1>12. LinkedIn(dir, ibmap)
  <2>1. ASSUME NEW e \in Entries, NEW f \in Entries, f # e,
               dir[e].name # FreeName, dir[f].name # FreeName
        PROVE  dir[f].inum # dir[e].inum
    <3>1. e[2] # f[2]
      BY <1>11, <2>1 DEF Entries
    <3>2. e[2] + 1 \in Nat \ {0} /\ f[2] + 1 \in Nat \ {0}
      BY <1>9
    <3>3. e[2] + 1 < f[2] + 1 \/ f[2] + 1 < e[2] + 1
      BY <1>9, <3>1
    <3>4. InumOf(e[2] + 1) # InumOf(f[2] + 1)
      BY <3>2, <3>3, InumOfIs
    <3> QED
      BY <1>11, <2>1, <3>4
  <2> QED
    BY <1>4, <1>10, <1>11, <2>1 DEF LinkedIn
<1>13. dir \in [Entries -> Dirent]
  <2> DEFINE File == [name : Names, size : Nat \cup {Missing, Directory}]
  <2>1. ASSUME NEW n \in 1 .. file_cnt - 1
        PROVE  argv[n].name \in Names
    <3> HIDE DEF File
    <3>1. argv \in Seq(File) /\ n \in 1 .. Len(argv)
      BY <1>3 DEF Shapes, File
    <3>2. argv[n] \in File
      BY <3>1
    <3> QED
      BY <3>2 DEF File
  <2>2. \A n \in 1 .. file_cnt - 1 : InumOf(n) % INUM_RANGE \in 0 .. INUM_RANGE - 1
    BY <1>1, <1>4, <1>10
  <2>3. \A e \in Entries : e[1] = 0 /\ e[2] < file_cnt - 1 => e[2] + 1 \in 1 .. file_cnt - 1
    BY <1>3, <1>9
  <2>4. ASSUME NEW e \in Entries
        PROVE  dir[e] \in Dirent
    BY <1>1, <2>1, <2>2, <2>3, Sizes DEF DirInv, Dirent
  <2> QED
    BY <2>4 DEF DirInv
<1>14. dinode[ROOTINO].type = TYPE_DIR /\ 0 \notin {dinode[ROOTINO].addr[i] : i \in Direct}
  BY <1>1 DEF RootInv
<1> QED
  BY <1>1, <1>2, <1>4, <1>6, <1>7, <1>8, <1>12, <1>13, <1>14 DEF WellFormed, Image

LEMMA DataHolds ==
  ASSUME MkfsInv
  PROVE  FilesKeepTheirData
<1> USE DEF MkfsInv
<1>1. CASE pc = "root"
  <2>1. ibmap = {} /\ file_cnt - 1 = 0 /\ \A e \in Entries : ~(e[2] < 0)
    BY <1>1 DEF NumbersInv, Entries
  <2>2. \A n \in 0 .. DIRENTS_PER_BLOCK - 1 : <<0, n>> \in Entries
    BY Sizes DEF Entries, Direct
  <2> QED
    BY <2>1, <2>2 DEF DirInv, FilesKeepTheirData
<1>2. CASE pc # "root"
  <2>1. PICK j \in {file_cnt - 1, file_cnt} : j <= Len(argv) /\ ibmap = Numbers(j)
    BY <1>2 DEF NumbersInv
  <2>2. file_cnt \in Nat \ {0} /\ Len(argv) \in Nat /\ j \in Nat
    BY <2>1 DEF Shapes
  <2>3. PICK m \in 0 .. DATA_BLOCKS : \A k \in 1 .. file_cnt - 1 : Stored(k, m)
    BY <1>2 DEF DataInv, Progress
  <2>4. ASSUME ibmap \subseteq 0 .. INUM_RANGE - 1,
               NEW n \in 0 .. DIRENTS_PER_BLOCK - 1, NEW i \in Direct,
               dir[<<0, n>>].name # FreeName, dinode[dir[<<0, n>>].inum].addr[i] # 0
        PROVE  data[dinode[dir[<<0, n>>].inum].addr[i]] = [file |-> n + 1, block |-> i]
    <3>1. <<0, n>> \in Entries
      BY Sizes DEF Entries, Direct
    <3>2. n < file_cnt - 1 /\ dir[<<0, n>>].inum = InumOf(n + 1) % INUM_RANGE
      BY <2>4, <3>1 DEF DirInv
    <3>3. n + 1 \in 1 .. file_cnt - 1 /\ n + 1 \in 1 .. j
      BY <2>1, <2>2, <3>2
    <3>4. InumOf(n + 1) \in Nat /\ InumOf(n + 1) < INUM_RANGE
      <4>1. InumOf(n + 1) \in ibmap
        BY <2>1, <3>3 DEF Numbers
      <4>2. n + 1 \in Nat \ {0}
        BY <3>3
      <4> QED
        BY <2>4, <4>1, <4>2, InumOfIs, Sizes
    <3>5. dir[<<0, n>>].inum = InumOf(n + 1)
      BY <3>2, <3>4, Remainder, Sizes
    <3> QED
      BY <2>3, <2>4, <3>3, <3>5 DEF Stored, Keeps
  <2>5. ASSUME Len(argv) < MAXFILES, NEW n \in ibmap
        PROVE  n < MAXFILES
    <3>1. CASE n = ROOTINO
      BY <3>1, Sizes
    <3>2. CASE n # ROOTINO
      <4>1. PICK k \in 1 .. j : n = InumOf(k)
        BY <2>1, <3>2 DEF Numbers
      <4>2. InumOf(k) \in Nat /\ InumOf(k) <= k
        BY <2>2, <4>1, InumOfIs
      <4> QED
        BY <2>1, <2>2, <2>5, <4>1, <4>2, Sizes
    <3> QED
      BY <3>1, <3>2
  <2> QED
    BY <2>4, <2>5 DEF FilesKeepTheirData
<1> QED
  BY <1>1, <1>2

\* Wherever the builder stops, the runtime can mount the image: each inode has its
\* own blocks, marked used, and each entry its own allocated inode, as long as the
\* blocks, the inode numbers and the room in the root's first block last
\* (little_fs.c:51-161, 176-254).
THEOREM BuilderLeavesMountable == Spec => []ImageMountable
<1>1. MkfsInv => ImageMountable
  BY MountableHolds
<1> QED
  BY <1>1, MkfsInvHolds, PTL

\* No file that the builder adds writes over the inode or a block of one that is
\* in the root's first block, and the inode table is not outgrown by fewer files than it
\* has inodes (little_fs.c:51-148, 176-252).
THEOREM BuilderKeepsFiles == Spec => []FilesKeepTheirData
<1>1. MkfsInv => FilesKeepTheirData
  BY DataHolds
<1> QED
  BY <1>1, MkfsInvHolds, PTL
=============================================================================
