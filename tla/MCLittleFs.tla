----------------------------- MODULE MCLittleFs -----------------------------
(***************************************************************************)
(* Small instances of LittleFs.  The images are what little-fs/little_fs.c *)
(* writes: the root owns the first NDIRECT data blocks, the files get the  *)
(* inode numbers 0, 1, 3, ... and the blocks after the root's, in order,   *)
(* and their dirents follow each other in the root's blocks.               *)
(***************************************************************************)
EXTENDS LittleFs

\* The inode number and the directory place of the n-th file, from 0.
FileInum(n)  == IF n < ROOTINO THEN n ELSE n + 1
FilePlace(n) == <<n \div DIRENTS_PER_BLOCK, n % DIRENTS_PER_BLOCK>>

\* The image of files with these names and block counts.
ImageOf(names, blocks) ==
  LET count    == Len(names)
      before[n \in 0 .. count] ==
        IF n = 0 THEN NDIRECT ELSE before[n - 1] + blocks[n]
      inum(n)  == FileInum(n - 1)
      place(n) == FilePlace(n - 1)
      ino(n)   == [type |-> TYPE_FILE,
                   addr |-> [i \in Direct |-> IF i < blocks[n]
                                              THEN DataAddr(before[n - 1] + i) ELSE 0]]
      root     == [type |-> TYPE_DIR, addr |-> [i \in Direct |-> DataAddr(i)]]
  IN [ibmap  |-> {ROOTINO} \cup {inum(n) : n \in 1 .. count},
      dbmap  |-> 0 .. before[count] - 1,
      dinode |-> [k \in 0 .. MAXFILES - 1 |->
                    IF k = ROOTINO THEN root
                    ELSE IF \E n \in 1 .. count : inum(n) = k
                    THEN ino(CHOOSE n \in 1 .. count : inum(n) = k)
                    ELSE ZeroInode],
      dir    |-> [e \in Entries |->
                    IF \E n \in 1 .. count : place(n) = e
                    THEN LET n == CHOOSE n \in 1 .. count : place(n) = e
                         IN  [name |-> names[n], inum |-> inum(n)]
                    ELSE [name |-> FreeName, inum |-> 0]]]

\* No file; one file, of one block; one that fills the data blocks.
MCImages == {ImageOf(<<>>, <<>>), ImageOf(<<"a">>, <<1>>), ImageOf(<<"a">>, <<NDIRECT>>)}

\* Every path, and the paths with a name.
AllPaths   == Path
NamedPaths == {path \in Path : path.name # FreeName}
=============================================================================
