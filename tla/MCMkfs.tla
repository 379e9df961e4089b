------------------------------- MODULE MCMkfs -------------------------------
(***************************************************************************)
(* Small instances of Mkfs: command lines of up to three files of any of a *)
(* few sizes, missing ones and directories among them, and one as long as  *)
(* the inode table and a file longer.                                      *)
(***************************************************************************)
EXTENDS Mkfs

Sized(sizes) == {[name |-> "f", size |-> size] : size \in sizes}

MCSizes == {0, 1, BSIZE, 2 * BSIZE + 1}
Long(n) == [k \in 1 .. n |-> [name |-> "f", size |-> 0]]

MCCommandLines ==
  UNION {[1 .. n -> Sized(MCSizes \cup {Missing, Directory})] : n \in 1 .. 3}
    \cup {Long(MAXFILES - 1), Long(MAXFILES), Long(MAXFILES + 1)}

MCLeast == -3
=============================================================================
